------------------------ MODULE DynamicTable_proofs ------------------------
(***************************************************************************)
(* What holds of the mirrored dynamic table for every alphabet, every size *)
(* and every number of additions.                                          *)
(***************************************************************************)
EXTENDS DynamicTable, SequenceTheorems, TLAPS

-----------------------------------------------------------------------------
(* The accounting, which survives whatever the stream and the map do.        *)

\* Only an addition in progress holds a field back.
PendingShape ==
    /\ pc # "add" => ps = NoField
    /\ pc = "add" => ps.name \in Names /\ ps.val \in Values

\* The sizes of the additions add up in their order.
StoredGrows ==
    /\ \A k \in 1..Len(stored) : stored[k].upto = StoredSize(k - 1) + stored[k].size
    /\ \A i, j \in 0..Len(stored) : i <= j => StoredSize(i) <= StoredSize(j)

PeerCounts == peer.count <= Len(sent)

AccountInv ==
    TypeOK /\ PendingShape /\ StoreIsWindow /\ SizeIsWindow /\ StoredGrows /\ PeerCounts

\* The peer's history sums up to a natural number at every point of it.
LEMMA SentSizeType ==
    ASSUME TypeOK, NEW n \in 0..Len(sent)
    PROVE  SentSize(n) \in Nat
<1>1. CASE n = 0
  BY <1>1 DEF SentSize, SizeUpto
<1>2. CASE n # 0
  <2>1. n \in 1..Len(sent)
    BY <1>2, SMT
  <2>2. sent[n] \in Sent
    BY <2>1, ElementOfSeq DEF TypeOK
  <2>3. QED
    BY <2>2, <1>2 DEF Sent, SentSize, SizeUpto
<1>3. QED
  BY <1>1, <1>2

\* So does the history of the mirror.
LEMMA StoredSizeType ==
    ASSUME TypeOK, NEW n \in 0..Len(stored)
    PROVE  StoredSize(n) \in Nat
<1>1. CASE n = 0
  BY <1>1 DEF StoredSize, SizeUpto
<1>2. CASE n # 0
  <2>1. n \in 1..Len(stored)
    BY <1>2, SMT
  <2>2. stored[n] \in StoredEntry
    BY <2>1, ElementOfSeq DEF TypeOK
  <2>3. QED
    BY <2>2, <1>2 DEF StoredEntry, StoredSize, SizeUpto
<1>3. QED
  BY <1>1, <1>2

\* What the peer adds keeps the types of its history and its table.
LEMMA PeerAddsTypes ==
    ASSUME TypeOK, PeerCounts, NEW f \in Field, PeerAdds(f)
    PROVE  /\ peer' \in [count : Nat, max : Nat]
           /\ sent' \in Seq(Sent)
           /\ PeerCounts'
<1>0. PeerEntrySize(f) \in Nat
  BY ConstantsOK DEF PeerEntrySize, Field
<1>1. SentSize(Len(sent)) \in Nat
  BY SentSizeType, LenProperties DEF TypeOK
<1> DEFINE r == [name |-> f.name, val |-> f.val, upto |-> SentSize(Len(sent)) + PeerEntrySize(f)]
<1>2. r \in Sent
  BY <1>0, <1>1 DEF Sent, Field
<1>3. sent' = Append(sent, r)
  BY DEF PeerAdds
<1>4. sent' \in Seq(Sent) /\ Len(sent') = Len(sent) + 1
  BY <1>2, <1>3, AppendProperties DEF TypeOK
<1>5. peer' \in [count : Nat, max : Nat] /\ PeerCounts'
  <2>0. peer \in [count : Nat, max : Nat] /\ Len(sent) \in Nat
    BY LenProperties DEF TypeOK
  <2>1. CASE peer' = [peer EXCEPT !.count = 0]
    BY <2>0, <2>1, <1>4 DEF PeerCounts
  <2>2. CASE \E k \in 0..peer.count : peer' = [peer EXCEPT !.count = k + 1]
    BY <2>0, <2>2, <1>4 DEF PeerCounts
  <2>3. QED
    BY <2>1, <2>2 DEF PeerAdds
<1>6. QED
  BY <1>4, <1>5

\* An index of the peer names a field, whatever its table holds.
LEMMA PeerFieldType ==
    ASSUME TypeOK, PeerCounts, NEW i \in PeerIndices
    PROVE  /\ PeerField(i).name \in Names
           /\ PeerField(i).val \in Values
<1>0. Len(StaticTable) \in Nat /\ Len(sent) \in Nat /\ peer.count \in Nat
  BY ConstantsOK, LenProperties DEF TypeOK
<1>1. CASE i <= STATIC_TABLE_SIZE
  <2>1. StaticTable[i] \in Field
    BY <1>0, <1>1, ConstantsOK, ElementOfSeq DEF PeerIndices, STATIC_TABLE_SIZE
  <2>2. QED
    BY <2>1, <1>1 DEF PeerField, Field
<1>2. CASE ~(i <= STATIC_TABLE_SIZE)
  <2> DEFINE k == Len(sent) - (i - STATIC_TABLE_SIZE) + 1
  <2>1. k \in 1..Len(sent)
    BY <1>0, <1>2 DEF PeerIndices, STATIC_TABLE_SIZE, PeerCounts
  <2>2. sent[k] \in Sent
    BY <2>1, ElementOfSeq DEF TypeOK
  <2>3. QED
    BY <2>2, <1>2 DEF PeerField, Sent
<1>3. QED
  BY <1>1, <1>2

-----------------------------------------------------------------------------
(* The operators of the mirror return what their types say.                  *)

\* The counters of dynamic_table_info are numbers, and so are the slots made of them.
LEMMA Counters ==
    ASSUME TypeOK
    PROVE  /\ dt_info.count \in Nat /\ dt_info.size \in Nat /\ dt_info.max_size \in Nat
           /\ dt_info.deleted \in Nat /\ dt_info.dirty \in {0, 1}
           /\ STATIC_TABLE_SIZE \in Nat /\ Base = STATIC_TABLE_SIZE + 1
           /\ Len(stored) \in Nat /\ Len(sent) \in Nat
           /\ peer.count \in Nat /\ peer.max \in Nat
<1>1. STATIC_TABLE_SIZE \in Nat /\ Base = STATIC_TABLE_SIZE + 1
  BY ConstantsOK, LenProperties DEF STATIC_TABLE_SIZE
<1>2. Len(stored) \in Nat /\ Len(sent) \in Nat
  BY LenProperties DEF TypeOK
<1>3. QED
  BY <1>1, <1>2 DEF TypeOK, Info

\* A slot that is stored addresses a field.
LEMMA StoredFieldType ==
    ASSUME TypeOK, StoreIsWindow, NEW slot, Stored(slot)
    PROVE  StoredField(slot).name \in Names /\ StoredField(slot).val \in Values
<1>1. CASE slot \in 1..STATIC_TABLE_SIZE
  <2>1. StaticTable[slot] \in Field
    BY <1>1, ConstantsOK, ElementOfSeq DEF STATIC_TABLE_SIZE
  <2>2. slot < Base
    BY <1>1, Counters
  <2>3. QED
    BY <2>1, <2>2 DEF StoredField, Field
<1>2. CASE slot \in DOMAIN dynamic_table
  <2>1. ~(slot < Base)
    BY <1>2, Counters DEF StoreIsWindow, NextSlot
  <2>2. dynamic_table[slot] \in Entry
    BY <1>2 DEF TypeOK
  <2>3. QED
    BY <2>1, <2>2 DEF StoredField, Entry
<1>3. QED
  BY <1>1, <1>2 DEF Stored

\* The slot of an index of the peer is a number.
LEMMA SlotType ==
    ASSUME TypeOK, NEW i \in PeerIndices
    PROVE  Slot(i) \in Nat
<1>1. i \in Nat
  BY Counters DEF PeerIndices
<1>2. QED
  BY <1>1, Counters DEF Slot, _is_valid_hpack_index, _get_dynamic_table_index

\* What an index captures is a pattern or nothing.
LEMMA CapturedNameType ==
    ASSUME NEW i \in PeerIndices
    PROVE  CapturedName(i) \in Patterns \cup {NoName}
  BY DEF CapturedName

\* A name read back by its index is a name, or there is none.
LEMMA IndexedNameType ==
    ASSUME TypeOK, StoreIsWindow, NEW i \in PeerIndices
    PROVE  IndexedName(i) \in Names \cup {NoName}
  BY StoredFieldType DEF IndexedName

\* What an entry keeps of a name is at most the name.
LEMMA TrimLenType ==
    ASSUME NEW n \in Names
    PROVE  TrimLen(n) \in Nat /\ TrimLen(n) <= NameLen[n]
  BY ConstantsOK DEF TrimLen

\* Capturing a value keeps the matches well typed.
LEMMA TakeValueType ==
    ASSUME TypeOK, NEW cid \in Patterns \cup {NoName}, NEW v \in Values \cup {NoValue},
           TakeValue(cid, v)
    PROVE  ms' \in [Patterns -> Match]
  BY DEF TakeValue, TypeOK, Match

\* No pending field is a pending field.
LEMMA NoFieldType == NoField \in Pending
  BY DEF NoField, Pending

\* Membership of the interval of slots, as the arithmetic of the steps below needs it.
LEMMA IntervalOf ==
    ASSUME NEW a \in Nat, NEW b \in Nat
    PROVE  \A s : s \in a .. b - 1 <=> s \in Nat /\ a <= s /\ s < b
  OBVIOUS

\* What the window of the store says of a single slot.
LEMMA Window ==
    ASSUME TypeOK, StoreIsWindow
    PROVE  \A s : s \in DOMAIN dynamic_table <=>
                /\ s \in Nat
                /\ Base + dt_info.deleted <= s
                /\ s < Base + dt_info.deleted + dt_info.count
<1>1. DOMAIN dynamic_table = Base + dt_info.deleted .. NextSlot - 1
  BY DEF StoreIsWindow
<1>2. /\ Base \in Nat /\ dt_info.deleted \in Nat /\ dt_info.count \in Nat
      /\ NextSlot = Base + dt_info.deleted + dt_info.count
  BY Counters DEF NextSlot
<1>3. QED
  BY <1>1, <1>2

\* A step that leaves the store and its counters alone keeps the accounts.
LEMMA AccountFrame ==
    ASSUME StoreIsWindow, SizeIsWindow, StoredGrows,
           dynamic_table' = dynamic_table, stored' = stored,
           dt_info'.count = dt_info.count, dt_info'.size = dt_info.size,
           dt_info'.deleted = dt_info.deleted
    PROVE  StoreIsWindow' /\ SizeIsWindow' /\ StoredGrows'
  BY DEF StoreIsWindow, SizeIsWindow, StoredGrows, NextSlot, StoredSize, SizeUpto, FieldOf

-----------------------------------------------------------------------------
(* Every step keeps the accounts.                                            *)

\* A new table, the one _get_dynamic_table creates, keeps its accounts.
LEMMA AccountInit == Init => AccountInv
<1> SUFFICES ASSUME Init PROVE AccountInv
  OBVIOUS
<1>1. TypeOK
  BY ConstantsOK, NoFieldType, EmptySeq
  DEF Init, TypeOK, Info, Match, NoMatch
<1>2. StoreIsWindow /\ SizeIsWindow /\ StoredGrows
  BY ConstantsOK, LenProperties, Counters, <1>1
  DEF Init, StoreIsWindow, SizeIsWindow, StoredGrows, StoredSize, SizeUpto, NextSlot
<1>3. QED
  BY <1>1, <1>2 DEF AccountInv, Init, PendingShape, PeerCounts

\* An indexed field leaves the table alone.
LEMMA AccountIndexed ==
    ASSUME AccountInv, NEW i \in PeerIndices, Indexed(i)
    PROVE  AccountInv'
<1> USE DEF AccountInv
<1>1. ms' \in [Patterns -> Match]
  BY SlotType, CapturedNameType DEF Indexed, TypeOK, Match
<1>2. block' \subseteq Field
  BY PeerFieldType DEF Indexed, TypeOK, Field
<1>3. TypeOK'
  BY <1>1, <1>2 DEF Indexed, mirror, TypeOK
<1>4. StoreIsWindow' /\ SizeIsWindow' /\ StoredGrows'
  BY AccountFrame DEF Indexed, mirror
<1>5. QED
  BY <1>3, <1>4 DEF Indexed, mirror, PendingShape, PeerCounts

\* A literal that is not added leaves the table alone.
LEMMA AccountLiteral ==
    ASSUME AccountInv, NEW f \in Field, NEW cid \in Patterns \cup {NoName}, Literal(f, cid)
    PROVE  AccountInv'
<1> USE DEF AccountInv
<1>1. ms' \in [Patterns -> Match]
  BY TakeValueType DEF Literal, Field
<1>2. TypeOK'
  BY <1>1 DEF Literal, mirror, TypeOK
<1>3. StoreIsWindow' /\ SizeIsWindow' /\ StoredGrows'
  BY AccountFrame DEF Literal, mirror
<1>4. QED
  BY <1>2, <1>3 DEF Literal, mirror, PendingShape, PeerCounts

\* The way into an addition refuses it, marks the table dirty or leaves it pending.
LEMMA AccountStartAdd ==
    ASSUME AccountInv, pc = "field", NEW f \in Field, PeerAdds(f),
           block' = block \cup {f},
           NEW name \in Names \cup {NoName}, NEW len \in Nat,
           NEW cid \in Patterns \cup {NoName}, NEW v \in Values, NEW cut,
           StartAdd(name, len, cid, v, cut)
    PROVE  AccountInv'
<1> USE DEF AccountInv
<1>1. /\ peer' \in [count : Nat, max : Nat] /\ sent' \in Seq(Sent) /\ PeerCounts'
  BY PeerAddsTypes
<1>2. block' \subseteq Field
  BY DEF TypeOK
<1>3. CASE UNCHANGED <<mirror, pc, ps>> /\ TakeValue(cid, v)
  <2>1. TypeOK'
    BY <1>1, <1>2, <1>3, TakeValueType DEF mirror, TypeOK
  <2>2. QED
    BY <1>1, <1>3, <2>1, AccountFrame DEF mirror, PendingShape
<1>4. CASE /\ dt_info' = [dt_info EXCEPT !.dirty = 1]
           /\ TakeValue(cid, v)
           /\ UNCHANGED <<dynamic_table, stored, pc, ps>>
  <2>1. dt_info' \in Info
    BY <1>4 DEF TypeOK, Info
  <2>2. TypeOK'
    BY <1>1, <1>2, <1>4, <2>1, TakeValueType DEF TypeOK
  <2>3. dt_info'.count = dt_info.count /\ dt_info'.size = dt_info.size
        /\ dt_info'.deleted = dt_info.deleted
    BY <1>4 DEF TypeOK, Info
  <2>4. QED
    BY <1>1, <1>4, <2>2, <2>3, AccountFrame DEF PendingShape
<1>5. CASE /\ name # NoName
           /\ pc' = "add"
           /\ ps' = [cid |-> cid, name |-> name, val |-> v,
                     size |-> len + ValueLen[v] + EntryOverhead]
           /\ UNCHANGED <<mirror, ms>>
  <2>1. ps' \in Pending
    BY <1>5, ConstantsOK DEF Pending
  <2>2. TypeOK'
    BY <1>1, <1>2, <1>5, <2>1 DEF mirror, TypeOK
  <2>3. PendingShape'
    BY <1>5 DEF PendingShape
  <2>4. QED
    BY <1>1, <1>5, <2>2, <2>3, AccountFrame DEF mirror
<1>6. QED
  BY <1>3, <1>4, <1>5 DEF StartAdd

\* An eviction moves the window by one entry and takes its size off the table's.
LEMMA AccountEvictOldest ==
    ASSUME AccountInv, EvictOldest
    PROVE  AccountInv'
<1> USE DEF AccountInv
<1> DEFINE d == dt_info.deleted
           c == dt_info.count
           T == Len(stored)
<1>1. /\ c \in Nat /\ d \in Nat /\ T \in Nat /\ c > 0 /\ T = d + c
      /\ Base \in Nat /\ dt_info.size \in Nat /\ Oldest = Base + d
  BY Counters DEF EvictOldest, EvictsMore, StoreIsWindow, Oldest
<1>2. Oldest \in DOMAIN dynamic_table
  BY DEF EvictOldest, EvictsMore
<1>3. dynamic_table[Oldest].size \in Nat
      /\ dynamic_table[Oldest].size = StoredSize(d + 1) - StoredSize(d)
  <2>1. dynamic_table[Oldest].size = stored[d + 1].size
    BY <1>1, <1>2 DEF StoreIsWindow
  <2>2. d + 1 \in 1..T
    BY <1>1
  <2>3. stored[d + 1].size \in Nat
    <3>1. stored[d + 1] \in StoredEntry
      BY <2>2, ElementOfSeq DEF TypeOK
    <3>2. QED
      BY <3>1 DEF StoredEntry
  <2>4. stored[d + 1].upto = StoredSize(d) + stored[d + 1].size
    <3>1. (d + 1) - 1 = d
      BY <1>1
    <3>2. QED
      BY <2>2, <3>1 DEF StoredGrows
  <2>5. StoredSize(d + 1) = stored[d + 1].upto
    BY <1>1 DEF StoredSize, SizeUpto
  <2>6. StoredSize(d) \in Nat
    BY <1>1, StoredSizeType
  <2>7. QED
    BY <2>1, <2>3, <2>4, <2>5, <2>6
<1>4. /\ dt_info'.count = c - 1 /\ dt_info'.deleted = d + 1
      /\ dt_info'.size = dt_info.size - dynamic_table[Oldest].size
      /\ dt_info'.max_size = dt_info.max_size /\ dt_info'.dirty = dt_info.dirty
  BY DEF EvictOldest, TypeOK, Info
<1>11. dt_info' = [count |-> dt_info'.count, size |-> dt_info'.size,
                   max_size |-> dt_info'.max_size, deleted |-> dt_info'.deleted,
                   dirty |-> dt_info'.dirty]
  BY DEF EvictOldest, TypeOK, Info
<1>5. SizeIsWindow' /\ dt_info'.size \in Nat
  <2>1. StoredSize(d) \in Nat /\ StoredSize(d + 1) \in Nat /\ StoredSize(T) \in Nat
    <3>1. \A n \in 0..T : StoredSize(n) \in Nat
      BY StoredSizeType
    <3> HIDE DEF AccountInv, c, d, T
    <3>2. d \in 0..T /\ d + 1 \in 0..T /\ T \in 0..T
      BY <1>1
    <3>3. QED
      BY <3>1, <3>2
  <2>2. StoredSize(d + 1) <= StoredSize(T)
    <3>1. d + 1 \in 0..T /\ T \in 0..T /\ d + 1 <= T
      BY <1>1
    <3>2. QED
      BY <3>1 DEF StoredGrows
  <2>3. dt_info'.size = StoredSize(T) - StoredSize(d + 1)
    BY <1>3, <1>4, <2>1 DEF SizeIsWindow
  <2>4. stored' = stored
    BY DEF EvictOldest
  <2>5. QED
    BY <1>4, <2>1, <2>2, <2>3, <2>4 DEF SizeIsWindow, StoredSize, SizeUpto
<1>6. dt_info' \in Info
  <2>1. dt_info'.count \in Nat /\ dt_info'.deleted \in Nat
    BY <1>1, <1>4
  <2>2. dt_info'.max_size \in Nat /\ dt_info'.dirty \in {0, 1}
    BY <1>4, Counters
  <2>3. QED
    BY <1>5, <1>11, <2>1, <2>2 DEF Info
<1>7. TypeOK'
  BY <1>6 DEF EvictOldest, TypeOK
<1>8. StoreIsWindow'
  <2>1. \A s : s \in DOMAIN dynamic_table' <=> s \in Nat /\ Base + d + 1 <= s /\ s < Base + d + c
    <3>1. DOMAIN dynamic_table' = DOMAIN dynamic_table \ {Oldest}
      BY DEF EvictOldest
    <3>2. QED
      BY <1>1, <3>1, Window
  <2>2. \A s \in DOMAIN dynamic_table' :
          s \in DOMAIN dynamic_table /\ dynamic_table'[s] = dynamic_table[s]
    BY DEF EvictOldest
  <2>3. stored' = stored
    BY DEF EvictOldest
  <2>4. DOMAIN dynamic_table' = Base + dt_info'.deleted .. NextSlot' - 1
    <3> DEFINE l == Base + d + 1
               h == Base + d + c
    <3>1. NextSlot' = h /\ Base + dt_info'.deleted = l
      <4> HIDE DEF AccountInv
      <4> DEFINE c1 == dt_info'.count
                 d1 == dt_info'.deleted
      <4>1. c1 = c - 1 /\ d1 = d + 1
        BY <1>4
      <4>2. NextSlot' = Base + c1 + d1 /\ dt_info'.deleted = d1
        BY DEF NextSlot
      <4>3. c \in Nat /\ d \in Nat /\ Base \in Nat
        BY <1>1
      <4> HIDE DEF c1, d1, c, d
      <4>4. QED
        BY <4>1, <4>2, <4>3
    <3>2. \A s : s \in l .. h - 1 <=> s \in Nat /\ l <= s /\ s < h
      <4>1. l \in Nat /\ h \in Nat
        BY <1>1
      <4>2. QED
        BY <4>1, IntervalOf
    <3>3. DOMAIN dynamic_table' = l .. h - 1
      BY <2>1, <3>2
    <3>4. QED
      BY <3>1, <3>3
  <2>5. Len(stored') = dt_info'.deleted + dt_info'.count
    BY <1>1, <1>4, <2>3
  <2>6. QED
    BY <2>2, <2>3, <2>4, <2>5 DEF StoreIsWindow, FieldOf
<1>9. StoredGrows'
  BY DEF EvictOldest, StoredGrows, StoredSize, SizeUpto
<1>10. QED
  BY <1>5, <1>7, <1>8, <1>9 DEF EvictOldest, PendingShape, PeerCounts

\* The end of an addition, however it went, takes its value and forgets the field.
LEMMA AccountEndAdd ==
    ASSUME AccountInv, pc = "add", EndAdd
    PROVE  /\ PendingShape' /\ PeerCounts'
           /\ ms' \in [Patterns -> Match] /\ ps' \in Pending
  BY TakeValueType, NoFieldType
  DEF AccountInv, EndAdd, PendingShape, PeerCounts, TypeOK, Pending

\* An insertion extends the window by one entry, which is accounted for.
LEMMA AccountInsert ==
    ASSUME AccountInv, Insert
    PROVE  AccountInv'
<1> USE DEF AccountInv
<1> DEFINE d == dt_info.deleted
           c == dt_info.count
           T == Len(stored)
           e == [name |-> ps.name, val |-> ps.val, size |-> ps.size]
           r == [name |-> ps.name, val |-> ps.val, size |-> ps.size,
                 upto |-> StoredSize(T) + ps.size]
<1>1. /\ c \in Nat /\ d \in Nat /\ T \in Nat /\ T = d + c
      /\ Base \in Nat /\ dt_info.size \in Nat /\ NextSlot = Base + c + d
      /\ StoredSize(T) \in Nat
  BY Counters, StoredSizeType DEF StoreIsWindow, NextSlot
<1>2. ps.name \in Names /\ ps.val \in Values /\ ps.size \in Nat /\ pc = "add"
  BY DEF Insert, PendingShape, TypeOK, Pending
<1>3. PendingShape' /\ PeerCounts' /\ ms' \in [Patterns -> Match] /\ ps' \in Pending
  BY AccountEndAdd DEF Insert
<1>4. /\ dt_info'.count = c + 1 /\ dt_info'.deleted = d
      /\ dt_info'.size = dt_info.size + ps.size
      /\ dt_info'.max_size = dt_info.max_size /\ dt_info'.dirty = dt_info.dirty
  BY DEF Insert, TypeOK, Info
<1>15. dt_info' = [count |-> dt_info'.count, size |-> dt_info'.size,
                   max_size |-> dt_info'.max_size, deleted |-> dt_info'.deleted,
                   dirty |-> dt_info'.dirty]
  BY DEF Insert, TypeOK, Info
<1>14. dt_info' \in Info
  <2>1. dt_info'.count \in Nat /\ dt_info'.size \in Nat /\ dt_info'.deleted \in Nat
    BY <1>1, <1>2, <1>4
  <2>2. dt_info'.max_size \in Nat /\ dt_info'.dirty \in {0, 1}
    BY <1>4, Counters
  <2>3. QED
    BY <1>15, <2>1, <2>2 DEF Info
<1>5. r \in StoredEntry /\ e \in Entry
  BY <1>1, <1>2 DEF StoredEntry, Entry
<1>6. /\ stored' = Append(stored, r) /\ stored' \in Seq(StoredEntry)
      /\ Len(stored') = T + 1 /\ stored'[T + 1] = r
      /\ \A k \in 1..T : stored'[k] = stored[k]
  <2>1. stored' = Append(stored, r)
    BY DEF Insert
  <2>2. QED
    BY <1>5, <2>1, AppendProperties DEF TypeOK
<1>7. /\ DOMAIN dynamic_table' = DOMAIN dynamic_table \cup {NextSlot}
      /\ dynamic_table'[NextSlot] = e
      /\ \A s \in DOMAIN dynamic_table : s # NextSlot => dynamic_table'[s] = dynamic_table[s]
  BY DEF Insert
<1>8. TypeOK'
  <2>1. DOMAIN dynamic_table' \subseteq Nat
    BY <1>1, <1>7 DEF TypeOK
  <2>2. \A s \in DOMAIN dynamic_table' : dynamic_table'[s] \in Entry
    BY <1>5, <1>7 DEF TypeOK
  <2>3. QED
    BY <1>3, <1>6, <1>14, <2>1, <2>2 DEF Insert, EndAdd, TypeOK
<1>9. StoreIsWindow'
  <2>1. DOMAIN dynamic_table' = Base + dt_info'.deleted .. NextSlot' - 1
    <3> DEFINE l == Base + d
               h == Base + d + c + 1
    <3>1. NextSlot' = h /\ Base + dt_info'.deleted = l
      <4> HIDE DEF AccountInv
      <4> DEFINE c1 == dt_info'.count
                 d1 == dt_info'.deleted
      <4>1. c1 = c + 1 /\ d1 = d
        BY <1>4
      <4>2. NextSlot' = Base + c1 + d1 /\ dt_info'.deleted = d1
        BY DEF NextSlot
      <4>3. c \in Nat /\ d \in Nat /\ Base \in Nat
        BY <1>1
      <4> HIDE DEF c1, d1, c, d
      <4>4. QED
        BY <4>1, <4>2, <4>3
    <3>2. \A s : s \in l .. h - 1 <=> s \in Nat /\ l <= s /\ s < h
      <4>1. l \in Nat /\ h \in Nat
        BY <1>1
      <4>2. QED
        BY <4>1, IntervalOf
    <3>3. \A s : s \in DOMAIN dynamic_table' <=> s \in Nat /\ l <= s /\ s < h
      <4>1. SUFFICES ASSUME NEW s
                     PROVE  s \in DOMAIN dynamic_table \/ s = Base + d + c
                            <=> s \in Nat /\ l <= s /\ s < h
        BY <1>1, <1>7
      <4>2. s \in DOMAIN dynamic_table <=> s \in Nat /\ l <= s /\ s < Base + d + c
        BY Window
      <4>3. c \in Nat /\ d \in Nat /\ Base \in Nat
        BY <1>1
      <4> HIDE DEF AccountInv, c, d
      <4>4. QED
        BY <4>2, <4>3
    <3>4. DOMAIN dynamic_table' = l .. h - 1
      BY <3>2, <3>3
    <3>5. QED
      BY <3>1, <3>4
  <2>2. \A s \in DOMAIN dynamic_table' :
          /\ FieldOf(dynamic_table'[s]) = FieldOf(stored'[s - Base + 1])
          /\ dynamic_table'[s].size = stored'[s - Base + 1].size
    <3>1. TAKE s \in DOMAIN dynamic_table'
    <3>2. CASE s = NextSlot
      BY <1>1, <1>6, <1>7, <3>2 DEF FieldOf
    <3>3. CASE s # NextSlot
      <4>1. s \in DOMAIN dynamic_table /\ s - Base + 1 \in 1..T
        BY <1>1, <1>7, <3>3, Window
      <4>2. dynamic_table'[s] = dynamic_table[s]
        BY <1>7, <3>3, <4>1
      <4>3. stored'[s - Base + 1] = stored[s - Base + 1]
        BY <1>6, <4>1
      <4>4. QED
        BY <4>1, <4>2, <4>3 DEF StoreIsWindow
    <3>4. QED
      BY <3>2, <3>3
  <2>3. Len(stored') = dt_info'.deleted + dt_info'.count
    BY <1>1, <1>4, <1>6
  <2>4. QED
    BY <2>1, <2>2, <2>3 DEF StoreIsWindow
<1>10. /\ \A k \in 0..T : SizeUpto(stored', k) = SizeUpto(stored, k)
       /\ SizeUpto(stored', T + 1) = SizeUpto(stored, T) + ps.size
  BY <1>1, <1>6 DEF StoredSize, SizeUpto
<1>11. SizeIsWindow'
  <2>1. dt_info'.size = SizeUpto(stored, T) - SizeUpto(stored, d) + ps.size
    BY <1>4 DEF SizeIsWindow, StoredSize
  <2>2. SizeUpto(stored, d) \in Nat /\ SizeUpto(stored, T) \in Nat
    BY <1>1, StoredSizeType DEF StoredSize
  <2>3. SizeUpto(stored', d) = SizeUpto(stored, d)
    BY <1>1, <1>10
  <2>4. dt_info'.size = SizeUpto(stored', T + 1) - SizeUpto(stored', d)
    BY <1>2, <1>10, <2>1, <2>2, <2>3
  <2>5. QED
    BY <1>4, <1>6, <2>4 DEF SizeIsWindow, StoredSize
<1>12. StoredGrows'
  <2>1. \A k \in 1..(T + 1) : stored'[k].upto = SizeUpto(stored', k - 1) + stored'[k].size
    <3>1. TAKE k \in 1..(T + 1)
    <3>2. CASE k = T + 1
      <4>1. SizeUpto(stored', k - 1) = SizeUpto(stored, T)
        BY <1>1, <1>10, <3>2
      <4>2. QED
        BY <1>6, <3>2, <4>1 DEF StoredSize
    <3>3. CASE k # T + 1
      <4>1. k \in 1..T /\ k - 1 \in 0..T
        BY <1>1, <3>3
      <4>2. QED
        BY <1>6, <1>10, <4>1 DEF StoredGrows, StoredSize
    <3>4. QED
      BY <3>2, <3>3
  <2>2. \A i, j \in 0..(T + 1) : i <= j => SizeUpto(stored', i) <= SizeUpto(stored', j)
    <3>1. SUFFICES ASSUME NEW i \in 0..(T + 1), NEW j \in 0..(T + 1), i <= j
                   PROVE  SizeUpto(stored', i) <= SizeUpto(stored', j)
      OBVIOUS
    <3>2. CASE j \in 0..T
      <4>1. i \in 0..T
        BY <1>1, <3>1, <3>2
      <4>2. QED
        BY <1>10, <3>1, <3>2, <4>1 DEF StoredGrows, StoredSize
    <3>3. CASE j = T + 1 /\ i \in 0..T
      <4>1. SizeUpto(stored, i) <= SizeUpto(stored, T)
        <5>1. T \in 0..T /\ i <= T
          BY <1>1, <3>3
        <5>2. QED
          BY <3>3, <5>1 DEF StoredGrows, StoredSize
      <4>2. SizeUpto(stored, i) \in Nat /\ SizeUpto(stored, T) \in Nat
        BY <1>1, <3>3, StoredSizeType DEF StoredSize
      <4>3. QED
        BY <1>2, <1>10, <3>3, <4>1, <4>2
    <3>4. CASE j = T + 1 /\ i = T + 1
      <4>1. SizeUpto(stored', T + 1) \in Nat
        BY <1>1, <1>2, <1>10 DEF StoredSize
      <4>2. QED
        BY <3>4, <4>1
    <3>5. QED
      BY <1>1, <3>2, <3>3, <3>4
  <2>3. QED
    BY <1>6, <2>1, <2>2 DEF StoredGrows, StoredSize
<1>13. QED
  BY <1>3, <1>8, <1>9, <1>11, <1>12

\* A literal of an indexed name starts an addition.
LEMMA AccountAddIndexedName ==
    ASSUME AccountInv, NEW i \in PeerIndices, NEW v \in Values, NEW huff \in BOOLEAN,
           AddIndexedName(i, v, huff)
    PROVE  AccountInv'
<1> DEFINE f == [name |-> PeerField(i).name, val |-> v]
           name == IndexedName(i)
           len == IF name = NoName THEN 0 ELSE TrimLen(name)
           cut == huff /\ ValueLen[v] > FieldMaxLen
<1>1. f \in Field
  BY PeerFieldType DEF AccountInv, Field
<1>2. name \in Names \cup {NoName}
  BY IndexedNameType DEF AccountInv
<1>3. len \in Nat
  BY <1>2, TrimLenType
<1>4. CapturedName(i) \in Patterns \cup {NoName}
  BY CapturedNameType
<1>5. /\ pc = "field" /\ PeerAdds(f) /\ block' = block \cup {f}
      /\ StartAdd(name, len, CapturedName(i), v, cut)
  BY DEF AddIndexedName
<1> HIDE DEF f, name, len, cut
<1>6. QED
  BY <1>1, <1>2, <1>3, <1>4, <1>5, AccountStartAdd

\* A literal of a new name starts an addition.
LEMMA AccountAddNewName ==
    ASSUME AccountInv, NEW f \in Field, NEW huff \in BOOLEAN, AddNewName(f, huff)
    PROVE  AccountInv'
<1> DEFINE cid == IF f.name \in Patterns THEN f.name ELSE NoName
           cut == huff /\ (NameLen[f.name] > FieldMaxLen \/ ValueLen[f.val] > FieldMaxLen)
<1>1. f.name \in Names /\ f.val \in Values /\ NameLen[f.name] \in Nat
  BY ConstantsOK DEF Field
<1>2. cid \in Patterns \cup {NoName}
  OBVIOUS
<1>3. /\ pc = "field" /\ PeerAdds(f) /\ block' = block \cup {f}
      /\ StartAdd(f.name, NameLen[f.name], cid, f.val, cut)
  BY DEF AddNewName
<1> HIDE DEF cid, cut
<1>4. QED
  BY <1>1, <1>2, <1>3, AccountStartAdd

\* A step of the table other than an eviction or an insertion changes at most
\* the limit, the peer and the captures.
LEMMA AccountRest ==
    ASSUME AccountInv, UNCHANGED <<dynamic_table, sent, stored>>,
           dt_info' \in Info, dt_info'.count = dt_info.count,
           dt_info'.size = dt_info.size, dt_info'.deleted = dt_info.deleted,
           pc' \in {"field", "add", "resize"}, ps' \in Pending, PendingShape',
           ms' \in [Patterns -> Match], block' \subseteq Field,
           peer' \in [count : Nat, max : Nat], peer'.count <= peer.count
    PROVE  AccountInv'
<1>1. TypeOK'
  BY DEF AccountInv, TypeOK
<1>2. StoreIsWindow' /\ SizeIsWindow' /\ StoredGrows'
  BY AccountFrame DEF AccountInv
<1>3. PeerCounts'
  <2>1. peer.count \in Nat /\ peer'.count \in Nat /\ Len(sent) \in Nat
    BY Counters DEF AccountInv
  <2>2. QED
    BY <2>1 DEF AccountInv, PeerCounts
<1>4. QED
  BY <1>1, <1>2, <1>3 DEF AccountInv

\* An addition that finds the map full, or is larger than the table, leaves it as evicted.
LEMMA AccountDrops ==
    ASSUME AccountInv, pc = "add", UNCHANGED mirror, EndAdd
    PROVE  AccountInv'
<1>1. PendingShape' /\ ms' \in [Patterns -> Match] /\ ps' \in Pending
  BY AccountEndAdd
<1>2. /\ dt_info' = dt_info /\ dt_info' \in Info /\ peer' = peer
      /\ peer' \in [count : Nat, max : Nat] /\ block' \subseteq Field /\ pc' = "field"
  BY DEF AccountInv, TypeOK, mirror, EndAdd
<1>3. peer'.count <= peer.count
  BY <1>2, Counters DEF AccountInv
<1>4. UNCHANGED <<dynamic_table, sent, stored>>
  BY DEF mirror, EndAdd
<1>5. QED
  BY <1>1, <1>2, <1>3, <1>4, AccountRest

\* A new limit leaves the other counters alone.
LEMMA AccountLimit ==
    ASSUME AccountInv, NEW v \in Nat, dt_info' = [dt_info EXCEPT !.max_size = v]
    PROVE  /\ dt_info' \in Info /\ dt_info'.count = dt_info.count
           /\ dt_info'.size = dt_info.size /\ dt_info'.deleted = dt_info.deleted
  BY DEF AccountInv, TypeOK, Info

\* A size update sets the limit before it evicts.
LEMMA AccountTableSizeUpdate ==
    ASSUME AccountInv, NEW v \in PeerSizes, TableSizeUpdate(v)
    PROVE  AccountInv'
<1>1. v \in Nat
  BY ConstantsOK
<1>2. /\ dt_info' \in Info /\ dt_info'.count = dt_info.count
      /\ dt_info'.size = dt_info.size /\ dt_info'.deleted = dt_info.deleted
  BY <1>1, AccountLimit DEF TableSizeUpdate
<1>3. peer' \in [count : Nat, max : Nat] /\ peer'.count <= peer.count
  BY <1>1, Counters DEF AccountInv, TableSizeUpdate, PeerResizes
<1>4. ps' \in Pending /\ ms' \in [Patterns -> Match] /\ block' \subseteq Field
  BY DEF AccountInv, TypeOK, TableSizeUpdate
<1>5. PendingShape' /\ pc' = "resize"
  BY DEF AccountInv, PendingShape, TableSizeUpdate
<1>6. UNCHANGED <<dynamic_table, sent, stored>>
  BY DEF TableSizeUpdate
<1>7. QED
  BY <1>2, <1>3, <1>4, <1>5, <1>6, AccountRest

\* A SETTINGS frame sets the limit and nothing else.
LEMMA AccountSettings ==
    ASSUME AccountInv, NEW v \in SettingsSizes, Settings(v)
    PROVE  AccountInv'
<1>1. v \in Nat
  BY ConstantsOK
<1>2. /\ dt_info' \in Info /\ dt_info'.count = dt_info.count
      /\ dt_info'.size = dt_info.size /\ dt_info'.deleted = dt_info.deleted
  BY <1>1, AccountLimit DEF Settings
<1>3. UNCHANGED <<dynamic_table, stored, pc, ps, ms, peer, sent, block>>
  BY DEF Settings
<1>4. peer'.count <= peer.count
  BY <1>3, Counters DEF AccountInv
<1>5. PendingShape' /\ pc' = "field"
  BY <1>3 DEF AccountInv, PendingShape, Settings
<1>6. QED
  BY <1>2, <1>3, <1>4, <1>5, AccountRest DEF AccountInv, TypeOK

\* The end of a resize and the next block leave the table alone.
LEMMA AccountBetween ==
    ASSUME AccountInv, EndResize \/ NextBlock \/ UNCHANGED vars
    PROVE  AccountInv'
<1>1. UNCHANGED <<dt_info, dynamic_table, stored, ps, peer, sent>>
  BY DEF EndResize, NextBlock, mirror, vars
<1>2. /\ pc' \in {"field", "add", "resize"} /\ ms' \in [Patterns -> Match]
      /\ block' \subseteq Field
  BY DEF AccountInv, TypeOK, EndResize, NextBlock, vars, Match, NoMatch
<1>3. PendingShape'
  BY <1>1 DEF AccountInv, PendingShape, EndResize, NextBlock, vars
<1>4. peer'.count <= peer.count
  BY <1>1, Counters DEF AccountInv
<1>5. QED
  BY <1>1, <1>2, <1>3, <1>4, AccountRest DEF AccountInv, TypeOK

\* The accounts are inductive: every step keeps them.
LEMMA AccountStep == AccountInv /\ [Next]_vars => AccountInv'
<1> SUFFICES ASSUME AccountInv, [Next]_vars
             PROVE  AccountInv'
  OBVIOUS
<1>1. CASE \E i \in PeerIndices : Indexed(i)
  BY <1>1, AccountIndexed
<1>2. CASE \E i \in PeerIndices, v \in Values : LiteralIndexedName(i, v)
  <2>1. PICK i \in PeerIndices, v \in Values : LiteralIndexedName(i, v)
    BY <1>2
  <2>2. [name |-> PeerField(i).name, val |-> v] \in Field
    BY PeerFieldType DEF AccountInv, Field
  <2>3. CapturedName(i) \in Patterns \cup {NoName}
    BY CapturedNameType
  <2>4. QED
    BY <2>1, <2>2, <2>3, AccountLiteral DEF LiteralIndexedName
<1>3. CASE \E i \in PeerIndices, v \in Values, h \in BOOLEAN : AddIndexedName(i, v, h)
  BY <1>3, AccountAddIndexedName
<1>4. CASE \E f \in Field : LiteralNewName(f)
  BY <1>4, AccountLiteral DEF LiteralNewName
<1>5. CASE \E f \in Field, h \in BOOLEAN : AddNewName(f, h)
  BY <1>5, AccountAddNewName
<1>6. CASE EvictOldest
  BY <1>6, AccountEvictOldest
<1>7. CASE Insert
  BY <1>7, AccountInsert
<1>8. CASE InsertFindsMapFull \/ DropOversized
  BY <1>8, AccountDrops DEF InsertFindsMapFull, DropOversized
<1>9. CASE \E v \in PeerSizes : TableSizeUpdate(v)
  BY <1>9, AccountTableSizeUpdate
<1>10. CASE \E v \in SettingsSizes : Settings(v)
  BY <1>10, AccountSettings
<1>11. CASE EndResize \/ NextBlock \/ UNCHANGED vars
  BY <1>11, AccountBetween
<1>12. QED
  BY <1>1, <1>2, <1>3, <1>4, <1>5, <1>6, <1>7, <1>8, <1>9, <1>10, <1>11 DEF Next

\* The accounts hold at every step of a connection, whatever its peer sends,
\* its SETTINGS announce and the map refuses.
THEOREM Accounts == Spec => []AccountInv
<1>1. Init => AccountInv
  BY AccountInit
<1>2. AccountInv /\ [Next]_vars => AccountInv'
  BY AccountStep
<1>3. QED
  BY <1>1, <1>2, PTL DEF Spec

\* Every state is a well-typed one: no counter of the table goes below zero.
THEOREM TypeCorrect == Spec => []TypeOK
<1>1. AccountInv => TypeOK
  BY DEF AccountInv
<1>2. QED
  BY <1>1, Accounts, PTL

\* The map holds exactly the entries the counters of dynamic_table_info say.
THEOREM StoreCorrect == Spec => []StoreIsWindow
<1>1. AccountInv => StoreIsWindow
  BY DEF AccountInv
<1>2. QED
  BY <1>1, Accounts, PTL

\* The size the eviction loop decides by is the size of what the map holds.
THEOREM SizeCorrect == Spec => []SizeIsWindow
<1>1. AccountInv => SizeIsWindow
  BY DEF AccountInv
<1>2. QED
  BY <1>1, Accounts, PTL

\* Every step takes entries out of the store, or puts one in above all others.
LEMMA SlotsStep ==
    ASSUME AccountInv, [Next]_vars
    PROVE  \A s \in DOMAIN dynamic_table' :
              IF s \in DOMAIN dynamic_table
              THEN dynamic_table'[s] = dynamic_table[s]
              ELSE s >= Base + Len(stored)
<1>1. CASE dynamic_table' = dynamic_table
  BY <1>1
<1>2. CASE EvictOldest
  BY <1>2 DEF EvictOldest
<1>3. CASE Insert
  <2>1. /\ DOMAIN dynamic_table' = DOMAIN dynamic_table \cup {NextSlot}
        /\ \A s \in DOMAIN dynamic_table : s # NextSlot => dynamic_table'[s] = dynamic_table[s]
    BY <1>3 DEF Insert
  <2>2. NextSlot = Base + Len(stored) /\ NextSlot \notin DOMAIN dynamic_table
    BY Counters, Window DEF AccountInv, NextSlot, StoreIsWindow
  <2>3. NextSlot >= Base + Len(stored)
    BY <2>2, Counters DEF AccountInv
  <2>4. QED
    BY <2>1, <2>2, <2>3
<1>4. dynamic_table' = dynamic_table \/ EvictOldest \/ Insert
  BY DEF Next, vars, mirror, Indexed, LiteralIndexedName, LiteralNewName, Literal,
         AddIndexedName, AddNewName, StartAdd, InsertFindsMapFull, DropOversized,
         TableSizeUpdate, EndResize, Settings, NextBlock
<1>5. QED
  BY <1>1, <1>2, <1>3, <1>4

\* A slot is never given to a second entry and an entry never rewritten, so a match
\* taken earlier in a block cannot come to mean another field.
THEOREM SlotsCorrect == Spec => SlotsNeverReused
<1>1. AccountInv /\ [Next]_vars =>
        [\A s \in DOMAIN dynamic_table' :
            IF s \in DOMAIN dynamic_table
            THEN dynamic_table'[s] = dynamic_table[s]
            ELSE s >= Base + Len(stored)]_vars
  BY SlotsStep
<1>2. QED
  BY <1>1, Accounts, PTL DEF Spec, SlotsNeverReused
=============================================================================
