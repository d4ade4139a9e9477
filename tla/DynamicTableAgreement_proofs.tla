--------------------- MODULE DynamicTableAgreement_proofs ---------------------
(***************************************************************************)
(* That an index means the same field to the mirror as to the peer, for    *)
(* every alphabet, every size and every number of additions, as long as    *)
(* the mirror can keep up with the peer.                                   *)
(*                                                                         *)
(* Nothing the two sides keep is compared by the code, so the argument has *)
(* to be a race the mirror wins: what it kept of its newest entries takes  *)
(* no more room than what the peer kept of the same ones, and its limit is *)
(* no lower, so the eviction loop stops before it takes an entry the peer  *)
(* still has.                                                              *)
(***************************************************************************)
EXTENDS DynamicTable_proofs

\* What the mirror needs to keep up: room in the map, slots that fit a match, and
\* no announcement below the size the peer's encoder works with.
KeepsUp ==
    /\ ~MapMayBeFull
    /\ Base + MaxAdds - 1 <= MaxIdx
    /\ \A v \in SettingsSizes, w \in PeerSizes \cup {DefaultMaxSize} : w <= v

-----------------------------------------------------------------------------
(* The inductive invariant.                                                  *)

\* The addition the mirror is in the middle of, by which the peer is ahead.
Lag == IF pc = "add" THEN 1 ELSE 0

\* The peer stays within its limit, which is no higher than the mirror's.
Limits ==
    /\ peer.max \in PeerSizes \cup {DefaultMaxSize}
    /\ peer.max <= dt_info.max_size
    /\ PeerSize(peer.count) <= peer.max

Histories == Len(sent) <= MaxAdds /\ Len(stored) <= Settled

\* The field being added is the peer's newest, and accounts for no more than it.
PendingIsNewest ==
    pc = "add" =>
        /\ dt_info.dirty = 0 /\ Len(sent) > 0
        /\ FieldOf(ps) = FieldOf(sent[Len(sent)])
        /\ ps.size <= PeerSize(1)

\* The newest entries of the mirror are the newest additions of the peer, one by
\* one, and any number of them takes no more room in the mirror than at the peer.
SameNewest(k) == FieldOf(stored[Len(stored) - k + 1]) = FieldOf(sent[Settled - k + 1])
NoMoreRoom(k) ==
    StoredSize(Len(stored)) - StoredSize(Len(stored) - k)
        <= SentSize(Settled) - SentSize(Settled - k)

Aligned ==
    dt_info.dirty = 0 =>
        /\ dt_info.count <= Settled
        /\ \A k \in 1..dt_info.count : SameNewest(k)
        /\ \A k \in 0..dt_info.count : NoMoreRoom(k)

\* Whatever the peer still keeps, the mirror does.
PeerHeld == dt_info.dirty = 0 => peer.count <= dt_info.count + Lag

AgreeInv == AccountInv /\ Limits /\ Histories /\ PendingIsNewest /\ Aligned /\ PeerHeld

-----------------------------------------------------------------------------
(* What the invariant says of an index.                                      *)

\* An index into the dynamic table counts back from the newest entry, on both sides.
LEMMA CountsBack ==
    ASSUME AccountInv, NEW i \in PeerIndices, i > STATIC_TABLE_SIZE,
           NEW k, k = i - STATIC_TABLE_SIZE
    PROVE  /\ k \in 1..peer.count
           /\ PeerField(i) = sent[Len(sent) - k + 1]
           /\ _get_dynamic_table_index(i) = Base + Len(stored) - k
           /\ _is_valid_hpack_index(i) <=> k <= dt_info.count
           /\ k <= dt_info.count =>
                /\ _get_dynamic_table_index(i) \in DOMAIN dynamic_table
                /\ FieldOf(dynamic_table[_get_dynamic_table_index(i)])
                     = FieldOf(stored[Len(stored) - k + 1])
<1>1. /\ i \in Nat /\ STATIC_TABLE_SIZE \in Nat /\ peer.count \in Nat /\ Len(sent) \in Nat
      /\ Len(stored) \in Nat /\ Base = STATIC_TABLE_SIZE + 1
      /\ dt_info.count \in Nat /\ dt_info.deleted \in Nat
      /\ Len(stored) = dt_info.deleted + dt_info.count
  BY Counters DEF AccountInv, PeerIndices, StoreIsWindow
<1>2. k \in 1..peer.count
  BY <1>1 DEF PeerIndices
<1>3. PeerField(i) = sent[Len(sent) - k + 1]
  BY <1>1 DEF PeerField
<1>4. _get_dynamic_table_index(i) = Base + Len(stored) - k
  <2> DEFINE c == dt_info.count
             d == dt_info.deleted
             t == Len(stored)
  <2>1. STATIC_TABLE_SIZE \in Nat /\ i \in Nat /\ Base \in Nat /\ c \in Nat /\ d \in Nat
        /\ t = d + c
    BY <1>1
  <2>2. _get_dynamic_table_index(i) = (STATIC_TABLE_SIZE + c + d - i) + Base
    BY DEF _get_dynamic_table_index
  <2> HIDE DEF c, d, t
  <2>3. (STATIC_TABLE_SIZE + c + d - i) + Base = Base + t - (i - STATIC_TABLE_SIZE)
    BY <2>1
  <2>4. QED
    BY <2>2, <2>3 DEF t
<1>5. _is_valid_hpack_index(i) <=> k <= dt_info.count
  BY <1>1 DEF _is_valid_hpack_index
<1>6. ASSUME k <= dt_info.count
      PROVE  /\ Base + Len(stored) - k \in DOMAIN dynamic_table
             /\ FieldOf(dynamic_table[Base + Len(stored) - k])
                  = FieldOf(stored[Len(stored) - k + 1])
  <2> DEFINE s == Base + Len(stored) - k
  <2>1. s \in Nat /\ Base + dt_info.deleted <= s
        /\ s < Base + dt_info.deleted + dt_info.count
    <3> DEFINE c == dt_info.count
               d == dt_info.deleted
               t == Len(stored)
    <3>1. /\ Base \in Nat /\ c \in Nat /\ d \in Nat /\ t = d + c
          /\ k \in Nat /\ k >= 1 /\ k <= c /\ s = Base + t - k
      BY <1>1, <1>2, <1>6
    <3> HIDE DEF c, d, t, s
    <3>2. s \in Nat /\ Base + d <= s /\ s < Base + d + c
      BY <3>1
    <3>3. QED
      BY <3>2 DEF c, d
  <2>2. s \in DOMAIN dynamic_table
    BY <2>1, Window DEF AccountInv
  <2>3. s - Base + 1 = Len(stored) - k + 1
    BY <1>1, <1>2
  <2>4. FieldOf(dynamic_table[s]) = FieldOf(stored[s - Base + 1])
    BY <2>2 DEF AccountInv, StoreIsWindow
  <2>5. QED
    BY <2>2, <2>3, <2>4
<1>7. QED
  BY <1>2, <1>3, <1>4, <1>5, <1>6

\* Between representations, an index the mirror finds an entry for is understood.
LEMMA Understood ==
    ASSUME AccountInv, Aligned, pc # "add", NEW i \in PeerIndices, Finds(i)
    PROVE  FieldOf(Found(i)) = FieldOf(PeerField(i))
<1>1. /\ i \in Nat /\ STATIC_TABLE_SIZE \in Nat /\ Base = STATIC_TABLE_SIZE + 1
      /\ dt_info.count \in Nat
  BY Counters DEF AccountInv, PeerIndices
<1>2. CASE i <= STATIC_TABLE_SIZE
  BY <1>1, <1>2 DEF Found, StoredField, PeerField
<1>3. CASE i > STATIC_TABLE_SIZE
  <2> DEFINE k == i - STATIC_TABLE_SIZE
             s == _get_dynamic_table_index(i)
  <2>1. /\ k \in 1..peer.count /\ PeerField(i) = sent[Len(sent) - k + 1]
        /\ k <= dt_info.count /\ s \in DOMAIN dynamic_table
        /\ FieldOf(dynamic_table[s]) = FieldOf(stored[Len(stored) - k + 1])
    BY <1>3, CountsBack DEF Finds
  <2>2. dt_info.dirty = 0
    BY <1>3 DEF Finds
  <2>3. SameNewest(k)
    BY <1>1, <2>1, <2>2 DEF Aligned
  <2>4. Settled = Len(sent)
    BY DEF Settled
  <2>5. ~(s < Base)
    BY <1>1, <2>1, Window, Counters DEF AccountInv
  <2>6. Found(i) = dynamic_table[s]
    BY <1>3, <1>1, <2>5 DEF Found, StoredField
  <2>7. QED
    BY <2>1, <2>3, <2>4, <2>6 DEF SameNewest
<1>4. QED
  BY <1>1, <1>2, <1>3

\* As long as the table is not dirty it finds one for every index of the peer.
LEMMA Findable ==
    ASSUME AccountInv, PeerHeld, dt_info.dirty = 0, pc # "add", NEW i \in PeerIndices
    PROVE  Finds(i)
<1>1. /\ i \in Nat /\ i > 0 /\ STATIC_TABLE_SIZE \in Nat
      /\ dt_info.count \in Nat /\ peer.count \in Nat
  BY Counters DEF AccountInv, PeerIndices
<1>2. peer.count <= dt_info.count
  BY <1>1 DEF PeerHeld, Lag
<1>3. CASE i <= STATIC_TABLE_SIZE
  BY <1>1, <1>3 DEF Finds, _is_valid_hpack_index
<1>4. CASE i > STATIC_TABLE_SIZE
  <2> DEFINE k == i - STATIC_TABLE_SIZE
  <2>1. k <= dt_info.count
    <3>1. k \in 1..peer.count
      BY <1>4, CountsBack
    <3>2. QED
      BY <1>1, <1>2, <3>1
  <2>2. QED
    BY <1>4, <2>1, CountsBack DEF Finds
<1>5. QED
  BY <1>1, <1>3, <1>4

\* The name a literal refers to is read back, as the peer means it.
LEMMA NamesRead ==
    ASSUME KeepsUp, AgreeInv, dt_info.dirty = 0, pc # "add", NEW i \in PeerIndices
    PROVE  IndexedName(i) = PeerField(i).name
<1>1. /\ i \in Nat /\ i > 0 /\ STATIC_TABLE_SIZE \in Nat /\ Base = STATIC_TABLE_SIZE + 1
      /\ MaxIdx \in Nat /\ MaxIdx >= Base /\ MaxAdds \in Nat
      /\ Len(stored) \in Nat /\ Len(sent) \in Nat
  BY ConstantsOK, Counters DEF AgreeInv, AccountInv, PeerIndices
<1>2. Finds(i) /\ FieldOf(Found(i)) = FieldOf(PeerField(i))
  BY Findable, Understood DEF AgreeInv
<1>3. Found(i).name = PeerField(i).name
  BY <1>2 DEF FieldOf
<1>4. CASE i <= STATIC_TABLE_SIZE
  <2>1. Slot(i) = i
    BY <1>1, <1>2, <1>4 DEF Slot, Finds
  <2>2. Stored(i) /\ StoredField(i) = Found(i)
    BY <1>1, <1>4 DEF Stored, Found
  <2>3. QED
    BY <1>3, <2>1, <2>2 DEF IndexedName
<1>5. CASE i > STATIC_TABLE_SIZE
  <2> DEFINE s == _get_dynamic_table_index(i)
  <2>1. s <= MaxIdx
    <3> DEFINE k == i - STATIC_TABLE_SIZE
    <3>1. s = Base + Len(stored) - k /\ k \in 1..peer.count
      BY <1>5, CountsBack DEF AgreeInv
    <3>2. Len(stored) <= MaxAdds
      BY <1>1 DEF AgreeInv, Histories, Settled
    <3>3. Base + MaxAdds - 1 <= MaxIdx
      BY DEF KeepsUp
    <3>4. peer.count \in Nat
      BY Counters DEF AgreeInv, AccountInv
    <3> HIDE DEF s, k
    <3>5. QED
      BY <1>1, <3>1, <3>2, <3>3, <3>4
  <2>2. Slot(i) = s
    BY <1>1, <1>2, <1>5, <2>1 DEF Slot, Finds
  <2>3. Stored(s) /\ StoredField(s) = Found(i)
    BY <1>1, <1>2, <1>5 DEF Finds, Stored, Found
  <2>4. QED
    BY <1>3, <2>2, <2>3 DEF IndexedName
<1>6. QED
  BY <1>1, <1>4, <1>5

-----------------------------------------------------------------------------
(* Every step keeps it.                                                      *)

\* An addition of the peer is accounted for at its newest end, and stays in its limit.
LEMMA PeerAddsFacts ==
    ASSUME AccountInv, Limits, Histories, NEW f \in Field, PeerAdds(f)
    PROVE  /\ Len(sent') = Len(sent) + 1 /\ Len(sent') <= MaxAdds
           /\ \A j \in 1..Len(sent) : sent'[j] = sent[j]
           /\ FieldOf(sent'[Len(sent) + 1]) = FieldOf(f)
           /\ \A n \in 0..Len(sent) : SizeUpto(sent', n) = SizeUpto(sent, n)
           /\ (PeerSize(1))' = PeerEntrySize(f) /\ PeerEntrySize(f) \in Nat
           /\ peer'.max = peer.max /\ peer'.count \in Nat
           /\ peer'.count <= peer.count + 1
           /\ (PeerSize(peer.count))' <= peer'.max
<1> DEFINE L == Len(sent)
           r == [name |-> f.name, val |-> f.val, upto |-> SentSize(L) + PeerEntrySize(f)]
<1>1. /\ L \in Nat /\ SentSize(L) \in Nat /\ peer.count \in Nat /\ peer.max \in Nat
      /\ peer.count <= L /\ MaxAdds \in Nat /\ peer \in [count : Nat, max : Nat]
      /\ sent \in Seq(Sent)
  BY Counters, SentSizeType, ConstantsOK DEF AccountInv, PeerCounts, TypeOK
<1>2. PeerEntrySize(f) \in Nat /\ f.name \in Names /\ f.val \in Values
  BY ConstantsOK DEF PeerEntrySize, Field
<1>3. r \in Sent
  BY <1>1, <1>2 DEF Sent
<1>4. sent' = Append(sent, r) /\ L < MaxAdds
  BY DEF PeerAdds
<1>5. /\ Len(sent') = L + 1 /\ sent'[L + 1] = r
      /\ \A j \in 1..L : sent'[j] = sent[j]
  BY <1>1, <1>3, <1>4, AppendProperties
<1>6. /\ \A n \in 0..L : SizeUpto(sent', n) = SizeUpto(sent, n)
      /\ SizeUpto(sent', L + 1) = SentSize(L) + PeerEntrySize(f)
  BY <1>1, <1>5 DEF SizeUpto
<1>7. \A k \in 0..L : (PeerSize(k + 1))' = PeerSize(k) + PeerEntrySize(f)
  <2>1. TAKE k \in 0..L
  <2>2. L - k \in 0..L /\ (L + 1) - (k + 1) = L - k
    BY <1>1
  <2>3. SentSize(L - k) \in Nat
    BY <2>2, SentSizeType DEF AccountInv
  <2>4. (PeerSize(k + 1))' = SizeUpto(sent', L + 1) - SizeUpto(sent', L - k)
    BY <1>5, <2>2 DEF PeerSize, SentSize
  <2>5. PeerSize(k) = SentSize(L) - SentSize(L - k)
    BY DEF PeerSize
  <2>6. SizeUpto(sent', L - k) = SentSize(L - k)
    BY <1>6, <2>2 DEF SentSize
  <2>7. QED
    BY <1>1, <1>2, <1>6, <2>3, <2>4, <2>5, <2>6
<1>8. (PeerSize(1))' = PeerEntrySize(f)
  <2>1. PeerSize(0) = 0
    BY <1>1 DEF PeerSize
  <2>2. (PeerSize(0 + 1))' = PeerSize(0) + PeerEntrySize(f)
    BY <1>1, <1>7
  <2>3. QED
    BY <1>2, <2>1, <2>2
<1>9. CASE peer' = [peer EXCEPT !.count = 0]
  <2>1. peer'.count = 0 /\ peer'.max = peer.max
    BY <1>1, <1>9
  <2>2. (PeerSize(peer.count))' = SizeUpto(sent', L + 1) - SizeUpto(sent', L + 1)
    BY <1>1, <1>5, <2>1 DEF PeerSize, SentSize
  <2>3. (PeerSize(peer.count))' <= peer'.max
    BY <1>1, <1>2, <1>6, <2>1, <2>2
  <2>4. QED
    BY <1>1, <1>2, <1>4, <1>5, <1>6, <1>8, <2>1, <2>3 DEF FieldOf
<1>10. ASSUME NEW k \in 0..peer.count, PeerKeeps(k, peer.max, PeerEntrySize(f)),
              peer' = [peer EXCEPT !.count = k + 1]
       PROVE  /\ peer'.max = peer.max /\ peer'.count = k + 1
              /\ (PeerSize(peer.count))' <= peer'.max
  <2>1. peer'.count = k + 1 /\ peer'.max = peer.max
    BY <1>1, <1>10
  <2>2. (PeerSize(peer.count))' = (PeerSize(k + 1))'
    BY <2>1 DEF PeerSize, SentSize
  <2>3. (PeerSize(k + 1))' = PeerSize(k) + PeerEntrySize(f)
    <3>1. k \in 0..L
      BY <1>1
    <3>2. QED
      BY <1>7, <3>1
  <2>4. PeerSize(k) + PeerEntrySize(f) <= peer.max
    BY <1>10 DEF PeerKeeps
  <2>5. QED
    BY <2>1, <2>2, <2>3, <2>4
<1>11. CASE \E k \in 0..peer.count : /\ PeerKeeps(k, peer.max, PeerEntrySize(f))
                                     /\ peer' = [peer EXCEPT !.count = k + 1]
  BY <1>1, <1>2, <1>4, <1>5, <1>6, <1>8, <1>10, <1>11 DEF FieldOf
<1>12. QED
  BY <1>2, <1>9, <1>11 DEF PeerAdds

\* The two histories stay in step while neither of them moves, settled additions being
\* all that counts of the peer's.
LEMMA AlignedFrame ==
    ASSUME AccountInv, Aligned, Settled \in Nat, Settled <= Len(sent),
           stored' = stored, dt_info'.count = dt_info.count,
           dt_info'.dirty = 0 => dt_info.dirty = 0,
           Settled' = Settled, \A j \in 1..Settled : sent'[j] = sent[j]
    PROVE  Aligned'
<1> SUFFICES ASSUME dt_info'.dirty = 0
             PROVE  /\ dt_info'.count <= Settled'
                    /\ \A k \in 1..dt_info'.count : (SameNewest(k))'
                    /\ \A k \in 0..dt_info'.count : (NoMoreRoom(k))'
  BY DEF Aligned
<1> DEFINE c == dt_info.count
           S == Settled
<1>1. /\ c \in Nat /\ S \in Nat /\ Len(sent) \in Nat /\ c <= S
      /\ \A k \in 1..c : SameNewest(k)
      /\ \A k \in 0..c : NoMoreRoom(k)
  BY Counters DEF AccountInv, Aligned
<1>2. \A k \in 1..c : (SameNewest(k))'
  <2>1. TAKE k \in 1..c
  <2>2. S - k + 1 \in 1..S
    BY <1>1
  <2>3. sent'[Settled' - k + 1] = sent[S - k + 1]
    BY <2>2
  <2>4. QED
    BY <1>1, <2>3 DEF SameNewest
<1>3. \A k \in 0..c : (NoMoreRoom(k))'
  <2>1. TAKE k \in 0..c
  <2>2. \A n \in 0..S : SizeUpto(sent', n) = SizeUpto(sent, n)
    BY <1>1 DEF SizeUpto
  <2>3. S - k \in 0..S /\ S \in 0..S
    BY <1>1
  <2>4. /\ SizeUpto(sent', Settled') = SizeUpto(sent, S)
        /\ SizeUpto(sent', Settled' - k) = SizeUpto(sent, S - k)
    BY <2>2, <2>3
  <2>5. QED
    BY <1>1, <2>4 DEF NoMoreRoom, StoredSize, SentSize
<1>4. QED
  BY <1>1, <1>2, <1>3

\* Settled additions are counted.
LEMMA SettledType ==
    ASSUME AccountInv, PendingIsNewest
    PROVE  /\ Settled \in Nat /\ Settled <= Len(sent) /\ Len(sent) = Settled + Lag
           /\ Lag \in {0, 1}
  BY Counters DEF AccountInv, PendingIsNewest, Settled, Lag

\* The way into an addition: the peer is ahead by it, or the table is dirty.
LEMMA AgreeStartAdd ==
    ASSUME AgreeInv, AccountInv', pc = "field", NEW f \in Field, PeerAdds(f),
           NEW name, NEW len \in Nat, NEW cid, NEW cut,
           dt_info.dirty = 0 => name = f.name, len <= NameLen[f.name],
           StartAdd(name, len, cid, f.val, cut)
    PROVE  /\ Limits' /\ Histories' /\ PendingIsNewest' /\ Aligned' /\ PeerHeld'
           /\ pc' = "add" => Settled' = Settled
           /\ pc' # "add" => Settled' = Settled + 1 /\ pc' = pc /\ dt_info'.dirty = 1
<1> USE DEF AgreeInv
<1> DEFINE L == Len(sent)
<1>1. /\ L \in Nat /\ L = Settled /\ Len(stored) \in Nat /\ Len(stored) <= L
      /\ dt_info.count \in Nat /\ peer.count \in Nat /\ MaxAdds \in Nat
      /\ dt_info.dirty \in {0, 1} /\ dt_info.max_size \in Nat
  BY Counters, ConstantsOK DEF AccountInv, Histories, Settled
<1>2. /\ Len(sent') = L + 1 /\ Len(sent') <= MaxAdds
      /\ \A j \in 1..L : sent'[j] = sent[j]
      /\ FieldOf(sent'[L + 1]) = FieldOf(f)
      /\ (PeerSize(1))' = PeerEntrySize(f) /\ PeerEntrySize(f) \in Nat
      /\ peer'.max = peer.max /\ peer'.count \in Nat
      /\ peer'.count <= peer.count + 1
      /\ (PeerSize(peer.count))' <= peer'.max
  BY PeerAddsFacts
<1>3. f.name \in Names /\ f.name # NoName
  BY ConstantsOK DEF Field
<1>4. /\ stored' = stored /\ dt_info'.count = dt_info.count
      /\ dt_info'.max_size = dt_info.max_size
      /\ dt_info'.dirty = 0 => dt_info.dirty = 0
  BY DEF StartAdd, mirror, AccountInv, TypeOK, Info
<1>5. Limits'
  BY <1>2, <1>4 DEF Limits
<1>6. CASE pc' = "field"
  <2>1. Settled' = L + 1
    BY <1>2, <1>6 DEF Settled
  <2>2. dt_info'.dirty = 1
    BY <1>1, <1>3, <1>6 DEF StartAdd, mirror, AccountInv, TypeOK, Info
  <2>3. Histories'
    BY <1>1, <1>2, <1>4, <2>1 DEF Histories
  <2>4. PendingIsNewest' /\ Aligned' /\ PeerHeld'
    BY <1>6, <2>2 DEF PendingIsNewest, Aligned, PeerHeld
  <2>5. QED
    BY <1>1, <1>5, <1>6, <2>1, <2>2, <2>3, <2>4
<1>7. CASE /\ dt_info.dirty = 0 /\ name # NoName
           /\ pc' = "add"
           /\ ps' = [cid |-> cid, name |-> name, val |-> f.val,
                     size |-> len + ValueLen[f.val] + EntryOverhead]
           /\ UNCHANGED <<mirror, ms>>
  <2>1. Settled' = L
    BY <1>1, <1>2, <1>7 DEF Settled
  <2>2. Histories'
    BY <1>1, <1>2, <1>4, <2>1 DEF Histories
  <2>3. Aligned'
    BY <1>1, <1>2, <1>4, <2>1, AlignedFrame
  <2>4. PeerHeld'
    BY <1>1, <1>2, <1>4, <1>7 DEF PeerHeld, Lag
  <2>5. PendingIsNewest'
    <3>1. dt_info'.dirty = 0
      BY <1>7 DEF mirror
    <3>2. FieldOf(ps') = FieldOf(f)
      BY <1>7 DEF FieldOf
    <3>3. ps'.size = len + ValueLen[f.val] + EntryOverhead
      BY <1>7
    <3>4. /\ NameLen[f.name] \in Nat /\ ValueLen[f.val] \in Nat /\ EntryOverhead \in Nat
      BY ConstantsOK DEF Field
    <3>5. ps'.size <= PeerEntrySize(f)
      BY <3>3, <3>4 DEF PeerEntrySize
    <3>6. Len(sent') > 0 /\ FieldOf(sent'[Len(sent')]) = FieldOf(f)
      BY <1>1, <1>2
    <3>7. QED
      BY <1>2, <3>1, <3>2, <3>5, <3>6 DEF PendingIsNewest
  <2>6. QED
    BY <1>1, <1>5, <1>7, <2>1, <2>2, <2>3, <2>4, <2>5
<1>8. QED
  BY <1>6, <1>7 DEF StartAdd

\* Any number of the newest entries, along with the field being added, takes no more
\* room in the mirror than at the peer.
LEMMA RoomTaken ==
    ASSUME AgreeInv, dt_info.dirty = 0, NEW k \in 0..dt_info.count
    PROVE  StoredSize(Len(stored)) - StoredSize(Len(stored) - k) + ps.size
             <= PeerSize(k + Lag)
<1> DEFINE T == Len(stored)
           L == Len(sent)
           S == Settled
<1>1. /\ T \in Nat /\ L \in Nat /\ S \in Nat /\ L = S + Lag /\ Lag \in {0, 1}
      /\ dt_info.count \in Nat /\ dt_info.count <= S /\ dt_info.count <= T
      /\ dt_info.deleted \in Nat /\ T = dt_info.deleted + dt_info.count
  BY SettledType, Counters DEF AgreeInv, AccountInv, Aligned, StoreIsWindow
<1>2. T - k \in 0..T /\ T \in 0..T /\ S - k \in 0..L /\ S \in 0..L /\ L \in 0..L
  BY <1>1
<1>3. /\ StoredSize(T) \in Nat /\ StoredSize(T - k) \in Nat
      /\ SentSize(S) \in Nat /\ SentSize(S - k) \in Nat /\ SentSize(L) \in Nat
  BY <1>2, StoredSizeType, SentSizeType DEF AgreeInv, AccountInv
<1>4. StoredSize(T) - StoredSize(T - k) <= SentSize(S) - SentSize(S - k)
  BY DEF AgreeInv, Aligned, NoMoreRoom
<1>5. PeerSize(k + Lag) = SentSize(L) - SentSize(S - k)
  <2>1. L - (k + Lag) = S - k
    BY <1>1
  <2>2. QED
    BY <2>1 DEF PeerSize
<1>6. ps.size \in Nat
  BY DEF AgreeInv, AccountInv, TypeOK, Pending
<1>7. ps.size <= SentSize(L) - SentSize(S)
  <2>1. CASE pc = "add"
    <3>1. PeerSize(1) = SentSize(L) - SentSize(L - 1) /\ S = L - 1
      BY <2>1 DEF PeerSize, Settled
    <3>2. QED
      BY <2>1, <3>1 DEF AgreeInv, PendingIsNewest
  <2>2. CASE pc # "add"
    <3>1. ps.size = 0 /\ S = L
      BY <2>2 DEF AgreeInv, AccountInv, PendingShape, NoField, Settled
    <3>2. QED
      BY <1>3, <3>1
  <2>3. QED
    BY <2>1, <2>2
<1>8. QED
  BY <1>3, <1>4, <1>5, <1>6, <1>7

\* The eviction loop stops before it takes an entry the peer still has.
LEMMA EvictionSpares ==
    ASSUME AgreeInv, EvictOldest, dt_info.dirty = 0
    PROVE  peer.count < dt_info.count + Lag
<1> DEFINE c == dt_info.count
<1>1. /\ c \in Nat /\ peer.count \in Nat /\ Lag \in {0, 1} /\ peer.max \in Nat
      /\ dt_info.size \in Nat /\ dt_info.max_size \in Nat /\ ps.size \in Nat
      /\ dt_info.deleted = Len(stored) - c
  BY Counters, SettledType
  DEF AgreeInv, AccountInv, TypeOK, Pending, StoreIsWindow
<1>2. dt_info.size + ps.size > dt_info.max_size
  BY DEF EvictOldest, EvictsMore
<1>3. SUFFICES ASSUME peer.count = c + Lag
               PROVE  FALSE
  <2>1. peer.count <= c + Lag
    BY DEF AgreeInv, PeerHeld
  <2>2. QED
    BY <1>1, <2>1
<1>4. dt_info.size = StoredSize(Len(stored)) - StoredSize(Len(stored) - c)
  BY <1>1 DEF AgreeInv, AccountInv, SizeIsWindow
<1>5. dt_info.size + ps.size <= PeerSize(c + Lag)
  <2>1. c \in 0..c
    BY <1>1
  <2>2. QED
    BY <1>4, <2>1, RoomTaken
<1>6. PeerSize(c + Lag) <= peer.max /\ peer.max <= dt_info.max_size
  BY <1>3 DEF AgreeInv, Limits
<1>7. PeerSize(c + Lag) \in Int
  <2>1. Len(sent) \in 0..Len(sent) /\ Len(sent) - peer.count \in 0..Len(sent)
    BY <1>1, Counters DEF AgreeInv, AccountInv, PeerCounts
  <2>2. SentSize(Len(sent)) \in Nat /\ SentSize(Len(sent) - peer.count) \in Nat
    BY <2>1, SentSizeType DEF AgreeInv, AccountInv
  <2>3. QED
    BY <1>3, <2>2 DEF PeerSize
<1>8. QED
  BY <1>1, <1>2, <1>5, <1>6, <1>7

\* An eviction shortens what the two sides have in common by its oldest entry.
LEMMA AgreeEvictOldest ==
    ASSUME AgreeInv, EvictOldest
    PROVE  Limits' /\ Histories' /\ PendingIsNewest' /\ Aligned' /\ PeerHeld'
<1> DEFINE c == dt_info.count
<1>1. /\ c \in Nat /\ c > 0 /\ peer.count \in Nat /\ Lag \in {0, 1} /\ Settled \in Nat
  BY Counters, SettledType DEF AgreeInv, AccountInv, EvictOldest, EvictsMore
<1>2. /\ dt_info'.count = c - 1 /\ dt_info'.dirty = dt_info.dirty
      /\ dt_info'.max_size = dt_info.max_size
      /\ UNCHANGED <<pc, ps, peer, sent, stored>>
  BY DEF EvictOldest, AgreeInv, AccountInv, TypeOK, Info
<1>3. Limits' /\ Histories' /\ PendingIsNewest'
  BY <1>2 DEF AgreeInv, Limits, Histories, PendingIsNewest, Settled, PeerSize, SentSize
<1>4. Settled' = Settled /\ Lag' = Lag
  BY <1>2 DEF Settled, Lag
<1>5. PeerHeld'
  BY <1>1, <1>2, <1>4, EvictionSpares DEF PeerHeld
<1>6. Aligned'
  <2>1. SUFFICES ASSUME dt_info.dirty = 0
                 PROVE  /\ c - 1 <= Settled'
                        /\ \A k \in 1..(c - 1) : (SameNewest(k))'
                        /\ \A k \in 0..(c - 1) : (NoMoreRoom(k))'
    BY <1>2 DEF Aligned
  <2>2. /\ c <= Settled
        /\ \A k \in 1..c : SameNewest(k)
        /\ \A k \in 0..c : NoMoreRoom(k)
    BY <2>1 DEF AgreeInv, Aligned
  <2>3. \A k : (SameNewest(k))' = SameNewest(k) /\ (NoMoreRoom(k))' = NoMoreRoom(k)
    BY <1>2, <1>4 DEF SameNewest, NoMoreRoom, StoredSize, SentSize
  <2>4. QED
    BY <1>1, <1>4, <2>2, <2>3
<1>7. QED
  BY <1>3, <1>5, <1>6

\* What an insertion appends to the history of the mirror.
LEMMA Inserted ==
    ASSUME AccountInv, Insert
    PROVE  /\ Len(stored') = Len(stored) + 1
           /\ FieldOf(stored'[Len(stored) + 1]) = FieldOf(ps)
           /\ \A k \in 1..Len(stored) : stored'[k] = stored[k]
           /\ \A k \in 0..Len(stored) : SizeUpto(stored', k) = SizeUpto(stored, k)
           /\ SizeUpto(stored', Len(stored) + 1) = SizeUpto(stored, Len(stored)) + ps.size
<1> DEFINE T == Len(stored)
           r == [name |-> ps.name, val |-> ps.val, size |-> ps.size,
                 upto |-> StoredSize(T) + ps.size]
<1>1. T \in Nat /\ StoredSize(T) \in Nat /\ stored \in Seq(StoredEntry)
  BY Counters, StoredSizeType DEF AccountInv, TypeOK
<1>2. ps.name \in Names /\ ps.val \in Values /\ ps.size \in Nat
  BY DEF Insert, AccountInv, PendingShape, TypeOK, Pending
<1>3. r \in StoredEntry
  BY <1>1, <1>2 DEF StoredEntry
<1>4. stored' = Append(stored, r)
  BY DEF Insert
<1>5. /\ Len(stored') = T + 1 /\ stored'[T + 1] = r
      /\ \A k \in 1..T : stored'[k] = stored[k]
  BY <1>1, <1>3, <1>4, AppendProperties
<1>6. FieldOf(stored'[T + 1]) = FieldOf(ps)
  BY <1>5 DEF FieldOf
<1>7. /\ \A k \in 0..T : SizeUpto(stored', k) = SizeUpto(stored, k)
      /\ SizeUpto(stored', T + 1) = SizeUpto(stored, T) + ps.size
  BY <1>1, <1>5 DEF StoredSize, SizeUpto
<1>8. QED
  BY <1>5, <1>6, <1>7

\* An insertion catches up with the peer.
LEMMA AgreeInsert ==
    ASSUME AgreeInv, Insert
    PROVE  Limits' /\ Histories' /\ PendingIsNewest' /\ Aligned' /\ PeerHeld'
<1> DEFINE c == dt_info.count
           T == Len(stored)
           L == Len(sent)
           S == Settled
<1>1. /\ c \in Nat /\ T \in Nat /\ L \in Nat /\ S \in Nat /\ c <= T /\ L = S + 1
      /\ peer.count \in Nat /\ pc = "add" /\ Lag = 1 /\ ps.size \in Nat
      /\ T = dt_info.deleted + c /\ dt_info.deleted \in Nat
  BY Counters, SettledType
  DEF AgreeInv, AccountInv, Insert, Lag, StoreIsWindow, TypeOK, Pending
<1>2. /\ dt_info'.count = c + 1 /\ dt_info'.dirty = dt_info.dirty
      /\ dt_info'.max_size = dt_info.max_size
      /\ pc' = "field" /\ UNCHANGED <<peer, sent>>
  BY DEF Insert, EndAdd, AgreeInv, AccountInv, TypeOK, Info
<1>3. /\ Len(stored') = T + 1
      /\ FieldOf(stored'[T + 1]) = FieldOf(ps)
      /\ \A k \in 1..T : stored'[k] = stored[k]
      /\ \A k \in 0..T : SizeUpto(stored', k) = SizeUpto(stored, k)
      /\ SizeUpto(stored', T + 1) = SizeUpto(stored, T) + ps.size
  BY Inserted DEF AgreeInv
<1>4. Settled' = L /\ Lag' = 0 /\ Len(sent') = L
  BY <1>2 DEF Settled, Lag
<1>5. Limits' /\ Histories' /\ PendingIsNewest'
  BY <1>1, <1>2, <1>3, <1>4
  DEF AgreeInv, Limits, Histories, PendingIsNewest, PeerSize, SentSize
<1>6. dt_info.dirty = 0 /\ c <= S
  BY <1>1 DEF AgreeInv, PendingIsNewest, Aligned
<1>7. PeerHeld'
  BY <1>1, <1>2, <1>4, <1>6 DEF AgreeInv, PeerHeld
<1>8. \A k \in 1..(c + 1) : (SameNewest(k))'
  <2>1. SUFFICES ASSUME NEW k \in 1..(c + 1)
                 PROVE  FieldOf(stored'[(T + 1) - k + 1]) = FieldOf(sent[L - k + 1])
    BY <1>2, <1>3, <1>4 DEF SameNewest
  <2>2. CASE k = 1
    <3>1. (T + 1) - k + 1 = T + 1 /\ L - k + 1 = L
      BY <1>1, <2>2
    <3>2. FieldOf(ps) = FieldOf(sent[L])
      BY <1>1 DEF AgreeInv, PendingIsNewest
    <3>3. QED
      BY <1>3, <3>1, <3>2
  <2>3. CASE k # 1
    <3>1. k - 1 \in 1..c
      BY <1>1, <2>3
    <3>2. SameNewest(k - 1)
      BY <1>6, <3>1 DEF AgreeInv, Aligned
    <3>3. /\ T - (k - 1) + 1 = (T + 1) - k + 1 /\ S - (k - 1) + 1 = L - k + 1
          /\ (T + 1) - k + 1 \in 1..T
      <4>1. T \in Nat /\ S \in Nat /\ c \in Nat /\ c <= T /\ L = S + 1 /\ k - 1 \in 1..c /\ k \in Int
        BY <1>1, <3>1
      <4> HIDE DEF T, S, c, L
      <4>2. QED
        BY <4>1
    <3>4. stored'[(T + 1) - k + 1] = stored[(T + 1) - k + 1]
      BY <1>3, <3>3
    <3>5. FieldOf(stored[(T + 1) - k + 1]) = FieldOf(sent[L - k + 1])
      BY <3>2, <3>3 DEF SameNewest
    <3>6. QED
      BY <3>4, <3>5
  <2>4. QED
    BY <2>2, <2>3
<1>9. \A k \in 0..(c + 1) : (NoMoreRoom(k))'
  <2>1. SUFFICES ASSUME NEW k \in 0..(c + 1)
                 PROVE  SizeUpto(stored', T + 1) - SizeUpto(stored', (T + 1) - k)
                          <= SentSize(L) - SentSize(L - k)
    BY <1>2, <1>3, <1>4 DEF NoMoreRoom, StoredSize, SentSize
  <2>2. /\ StoredSize(T) \in Nat /\ SentSize(L) \in Nat
        /\ SizeUpto(stored', T + 1) = StoredSize(T) + ps.size
    BY <1>1, <1>3, StoredSizeType, SentSizeType DEF AgreeInv, AccountInv, StoredSize
  <2>3. CASE k = 0
    <3>1. (T + 1) - k = T + 1 /\ L - k = L
      BY <1>1, <2>3
    <3>2. QED
      BY <1>1, <2>2, <3>1
  <2>4. CASE k # 0
    <3>1. k - 1 \in 0..c
      BY <1>1, <2>4
    <3>2. StoredSize(T) - StoredSize(T - (k - 1)) + ps.size <= PeerSize((k - 1) + Lag)
      BY <1>6, <3>1, RoomTaken
    <3>3. /\ T - (k - 1) = (T + 1) - k /\ (k - 1) + Lag = k /\ (T + 1) - k \in 0..T
      BY <1>1, <3>1
    <3>4. SizeUpto(stored', (T + 1) - k) = StoredSize((T + 1) - k)
      BY <1>3, <3>3 DEF StoredSize
    <3>5. PeerSize(k) = SentSize(L) - SentSize(L - k)
      BY DEF PeerSize
    <3>6. StoredSize((T + 1) - k) \in Nat
      BY <3>3, StoredSizeType DEF AgreeInv, AccountInv
    <3>7. QED
      BY <1>1, <2>2, <3>2, <3>3, <3>4, <3>5, <3>6
  <2>5. QED
    BY <2>3, <2>4
<1>10. Aligned'
  BY <1>1, <1>2, <1>4, <1>6, <1>8, <1>9 DEF Aligned
<1>11. QED
  BY <1>5, <1>7, <1>10

\* An oversized field leaves both sides with an empty table.
LEMMA AgreeDropOversized ==
    ASSUME AgreeInv, DropOversized
    PROVE  /\ Limits' /\ Histories' /\ PendingIsNewest' /\ Aligned' /\ PeerHeld'
           /\ dt_info.count = 0
<1> DEFINE L == Len(sent)
           S == Settled
<1>1. /\ L \in Nat /\ S \in Nat /\ L = S + 1 /\ Lag = 1 /\ Len(stored) \in Nat
      /\ dt_info.count \in Nat /\ dt_info.deleted \in Nat /\ dt_info.size \in Nat
      /\ dt_info.max_size \in Nat /\ peer.count \in Nat /\ ps.size \in Nat
      /\ Base \in Nat /\ Len(stored) = dt_info.deleted + dt_info.count
  BY Counters, SettledType
  DEF AgreeInv, AccountInv, DropOversized, Lag, StoreIsWindow, TypeOK, Pending
<1>2. /\ UNCHANGED <<dt_info, dynamic_table, stored, peer, sent>>
      /\ pc' = "field" /\ pc = "add" /\ dt_info.dirty = 0
  BY DEF DropOversized, mirror, EndAdd, AgreeInv, PendingIsNewest
<1>3. dt_info.size + ps.size > dt_info.max_size
  BY <1>1 DEF DropOversized, Fits
<1>4. dt_info.count = 0
  <2>1. SUFFICES ASSUME dt_info.count > 0 PROVE FALSE
    BY <1>1
  <2>2. Oldest \in DOMAIN dynamic_table
    BY <1>1, <2>1, Window DEF AgreeInv, AccountInv, Oldest
  <2>3. QED
    BY <1>3, <2>1, <2>2 DEF DropOversized, EvictsMore
<1>5. Settled' = L /\ Lag' = 0 /\ Len(sent') = L
  BY <1>2 DEF Settled, Lag
<1>6. Limits' /\ Histories' /\ PendingIsNewest'
  BY <1>1, <1>2, <1>5
  DEF AgreeInv, Limits, Histories, PendingIsNewest, PeerSize, SentSize
<1>7. StoredSize(Len(stored)) \in Nat /\ SentSize(L) \in Nat
  BY <1>1, StoredSizeType, SentSizeType DEF AgreeInv, AccountInv
<1>8. peer.count = 0
  <2>1. SUFFICES ASSUME peer.count # 0 PROVE FALSE
    OBVIOUS
  <2>2. peer.count = 1
    BY <1>1, <1>2, <1>4, <2>1 DEF AgreeInv, PeerHeld
  <2>3. PeerSize(1) <= dt_info.max_size
    <3>1. SentSize(L - 1) \in Nat /\ PeerSize(1) = SentSize(L) - SentSize(L - 1)
      BY <1>1, SentSizeType DEF PeerSize, AgreeInv, AccountInv
    <3>2. PeerSize(1) <= peer.max /\ peer.max <= dt_info.max_size /\ peer.max \in Nat
      BY <2>2, Counters DEF AgreeInv, AccountInv, Limits
    <3>3. QED
      BY <1>1, <1>7, <3>1, <3>2
  <2>4. ps.size <= PeerSize(1)
    BY <1>2 DEF AgreeInv, PendingIsNewest
  <2>5. dt_info.size = 0
    BY <1>1, <1>4, <1>7 DEF AgreeInv, AccountInv, SizeIsWindow
  <2>6. PeerSize(1) \in Int
    BY <1>1, <1>7, SentSizeType DEF PeerSize, AgreeInv, AccountInv
  <2>7. QED
    BY <1>1, <1>3, <2>3, <2>4, <2>5, <2>6
<1>9. Aligned'
  <2>1. (NoMoreRoom(0))'
    BY <1>1, <1>2, <1>5, <1>7 DEF NoMoreRoom, StoredSize, SentSize
  <2>2. QED
    BY <1>1, <1>2, <1>4, <1>5, <2>1 DEF Aligned
<1>10. QED
  BY <1>1, <1>2, <1>4, <1>5, <1>6, <1>8, <1>9 DEF PeerHeld

\* A step that moves neither history keeps the two sides in step, if the peer keeps no
\* more than before.
LEMMA AgreeFrame ==
    ASSUME AgreeInv, sent' = sent, stored' = stored,
           dt_info'.count = dt_info.count, dt_info'.dirty = dt_info.dirty,
           \/ pc' = pc /\ ps' = ps
           \/ pc # "add" /\ pc' # "add",
           peer'.count \in Nat, peer'.count <= peer.count
    PROVE  Histories' /\ PendingIsNewest' /\ Aligned' /\ PeerHeld' /\ Settled' = Settled
<1>1. /\ Settled \in Nat /\ Settled <= Len(sent) /\ peer.count \in Nat
      /\ dt_info.count \in Nat /\ Lag \in {0, 1}
  BY Counters, SettledType DEF AgreeInv, AccountInv
<1>2. Settled' = Settled /\ Lag' = Lag
  BY DEF Settled, Lag
<1>3. Histories' /\ PendingIsNewest'
  BY <1>2 DEF AgreeInv, Histories, PendingIsNewest, PeerSize, SentSize
<1>4. Aligned'
  BY <1>1, <1>2, AlignedFrame DEF AgreeInv
<1>5. PeerHeld'
  BY <1>1, <1>2 DEF AgreeInv, PeerHeld
<1>6. QED
  BY <1>2, <1>3, <1>4, <1>5

\* A size update sets both limits and makes the peer evict before the mirror does.
LEMMA AgreeTableSizeUpdate ==
    ASSUME AgreeInv, NEW v \in PeerSizes, TableSizeUpdate(v)
    PROVE  /\ Limits' /\ Histories' /\ PendingIsNewest' /\ Aligned' /\ PeerHeld'
           /\ Settled' = Settled
<1>1. v \in Nat
  BY ConstantsOK
<1>2. PICK k \in 0..peer.count : PeerKeeps(k, v, 0) /\ peer' = [count |-> k, max |-> v]
  BY DEF TableSizeUpdate, PeerResizes
<1>3. /\ pc = "field" /\ pc' = "resize" /\ UNCHANGED <<sent, stored>>
      /\ dt_info'.max_size = v /\ dt_info'.count = dt_info.count
      /\ dt_info'.dirty = dt_info.dirty
  BY DEF TableSizeUpdate, AgreeInv, AccountInv, TypeOK, Info
<1>4. peer'.count = k /\ peer'.max = v /\ k \in Nat /\ k <= peer.count /\ peer.count \in Nat
  BY <1>2, Counters DEF AgreeInv, AccountInv
<1>5. Histories' /\ PendingIsNewest' /\ Aligned' /\ PeerHeld' /\ Settled' = Settled
  BY <1>3, <1>4, AgreeFrame
<1>6. Limits'
  <2>1. PeerSize(k) <= v
    <3>1. SentSize(Len(sent)) \in Nat /\ SentSize(Len(sent) - k) \in Nat
      <4>1. TypeOK /\ Len(sent) \in Nat /\ peer.count <= Len(sent)
        BY Counters DEF AgreeInv, AccountInv, PeerCounts
      <4>2. Len(sent) \in 0..Len(sent) /\ Len(sent) - k \in 0..Len(sent)
        BY <1>4, <4>1
      <4>3. QED
        BY <4>1, <4>2, SentSizeType
    <3>2. PeerSize(k) + 0 <= v
      BY <1>2 DEF PeerKeeps
    <3>3. PeerSize(k) \in Int
      BY <3>1 DEF PeerSize
    <3>4. QED
      BY <1>1, <3>2, <3>3
  <2>2. (PeerSize(peer.count))' = PeerSize(k)
    BY <1>3, <1>4 DEF PeerSize, SentSize
  <2>3. QED
    BY <1>1, <1>3, <1>4, <2>1, <2>2 DEF Limits
<1>7. QED
  BY <1>5, <1>6

\* An announcement never goes below what the peer's encoder works with.
LEMMA AgreeSettings ==
    ASSUME KeepsUp, AgreeInv, NEW v \in SettingsSizes, Settings(v)
    PROVE  /\ Limits' /\ Histories' /\ PendingIsNewest' /\ Aligned' /\ PeerHeld'
           /\ Settled' = Settled
<1>1. /\ UNCHANGED <<pc, ps, peer, sent, stored>>
      /\ dt_info'.max_size = v /\ dt_info'.count = dt_info.count
      /\ dt_info'.dirty = dt_info.dirty
  BY DEF Settings, AgreeInv, AccountInv, TypeOK, Info
<1>2. peer.count \in Nat
  BY Counters DEF AgreeInv, AccountInv
<1>3. Limits'
  BY <1>1 DEF KeepsUp, AgreeInv, Limits, PeerSize, SentSize
<1>4. QED
  BY <1>1, <1>2, <1>3, AgreeFrame

\* The other steps read, or end what is done.
LEMMA AgreeRest ==
    ASSUME AgreeInv, UNCHANGED <<dt_info, peer, sent, stored, ps>>,
           pc' = pc \/ EndResize
    PROVE  /\ Limits' /\ Histories' /\ PendingIsNewest' /\ Aligned' /\ PeerHeld'
           /\ Settled' = Settled
<1>1. peer.count \in Nat
  BY Counters DEF AgreeInv, AccountInv
<1>2. Limits'
  BY DEF AgreeInv, Limits, PeerSize, SentSize
<1>3. QED
  BY <1>1, <1>2, AgreeFrame DEF EndResize

\* A literal of an indexed name is added under the name the peer means, or not at all.
LEMMA AgreeAddIndexedName ==
    ASSUME KeepsUp, AgreeInv, AccountInv',
           NEW i \in PeerIndices, NEW v \in Values, NEW huff \in BOOLEAN,
           AddIndexedName(i, v, huff)
    PROVE  /\ Limits' /\ Histories' /\ PendingIsNewest' /\ Aligned' /\ PeerHeld'
           /\ pc' = "add" => Settled' = Settled
           /\ pc' # "add" => Settled' = Settled + 1 /\ pc' = pc /\ dt_info'.dirty = 1
<1> DEFINE f == [name |-> PeerField(i).name, val |-> v]
           name == IndexedName(i)
           len == IF name = NoName THEN 0 ELSE TrimLen(name)
           cut == huff /\ ValueLen[v] > FieldMaxLen
<1>1. f \in Field /\ f.name = PeerField(i).name /\ f.val = v
  BY PeerFieldType DEF AgreeInv, AccountInv, Field
<1>2. pc = "field" /\ PeerAdds(f) /\ StartAdd(name, len, CapturedName(i), f.val, cut)
  BY DEF AddIndexedName
<1>3. dt_info.dirty = 0 => name = f.name
  BY <1>1, <1>2, NamesRead
<1>4. name \in Names \cup {NoName}
  BY IndexedNameType DEF AgreeInv, AccountInv
<1>5. CASE dt_info.dirty = 0
  <2>1. name \in Names /\ name # NoName /\ name = f.name
    BY <1>1, <1>3, <1>5, ConstantsOK DEF Field
  <2>2. len \in Nat /\ len <= NameLen[f.name]
    BY <2>1, TrimLenType
  <2> HIDE DEF f, name, len, cut
  <2>3. QED
    BY <1>1, <1>2, <1>3, <2>2, AgreeStartAdd
<1>6. CASE dt_info.dirty = 1
  <2>1. StartAdd(NoName, 0, CapturedName(i), f.val, cut)
    BY <1>2, <1>6 DEF StartAdd
  <2> DEFINE none == NoName
             zero == 0
  <2>2. zero \in Nat /\ zero <= NameLen[f.name] /\ (dt_info.dirty = 0 => none = f.name)
    BY <1>1, <1>6, ConstantsOK DEF Field
  <2>3. StartAdd(none, zero, CapturedName(i), f.val, cut)
    BY <2>1
  <2> HIDE DEF f, name, len, cut, none, zero
  <2>4. QED
    BY <1>1, <1>2, <2>2, <2>3, AgreeStartAdd
<1>7. QED
  BY <1>5, <1>6, Counters DEF AgreeInv, AccountInv

\* A literal of a new name is added as it is.
LEMMA AgreeAddNewName ==
    ASSUME AgreeInv, AccountInv', NEW f \in Field, NEW huff \in BOOLEAN, AddNewName(f, huff)
    PROVE  /\ Limits' /\ Histories' /\ PendingIsNewest' /\ Aligned' /\ PeerHeld'
           /\ pc' = "add" => Settled' = Settled
           /\ pc' # "add" => Settled' = Settled + 1 /\ pc' = pc /\ dt_info'.dirty = 1
<1> DEFINE name == f.name
           len == NameLen[f.name]
           cid == IF f.name \in Patterns THEN f.name ELSE NoName
           cut == huff /\ (NameLen[f.name] > FieldMaxLen \/ ValueLen[f.val] > FieldMaxLen)
<1>1. NameLen[f.name] \in Nat
  BY ConstantsOK DEF Field
<1>2. len \in Nat /\ len <= NameLen[f.name] /\ (dt_info.dirty = 0 => name = f.name)
  BY <1>1
<1>3. pc = "field" /\ PeerAdds(f) /\ StartAdd(name, len, cid, f.val, cut)
  BY DEF AddNewName
<1> HIDE DEF name, len, cid, cut
<1>4. QED
  BY <1>2, <1>3, AgreeStartAdd

\* A new connection starts out in step, both tables being empty.
LEMMA AgreeInit == Init => AgreeInv
<1> SUFFICES ASSUME Init PROVE AgreeInv
  OBVIOUS
<1>1. AccountInv
  BY AccountInit
<1>2. /\ Len(sent) = 0 /\ Len(stored) = 0 /\ Settled = 0
      /\ dt_info.count = 0 /\ dt_info.dirty = 0 /\ dt_info.max_size = DefaultMaxSize
      /\ peer.count = 0 /\ peer.max = DefaultMaxSize /\ pc = "field"
  BY LenProperties DEF Init, Settled
<1>3. Limits
  BY <1>2, ConstantsOK DEF Limits, PeerSize, SentSize, SizeUpto
<1>4. Aligned
  <2>1. NoMoreRoom(0)
    BY <1>2 DEF NoMoreRoom, StoredSize, SentSize, SizeUpto
  <2>2. QED
    BY <1>2, <2>1 DEF Aligned
<1>5. QED
  BY <1>1, <1>2, <1>3, <1>4, ConstantsOK
  DEF AgreeInv, Histories, PendingIsNewest, PeerHeld, Lag

\* The race is won at every step.
LEMMA AgreeStep == KeepsUp /\ AgreeInv /\ [Next]_vars => AgreeInv'
<1> SUFFICES ASSUME KeepsUp, AgreeInv, [Next]_vars
             PROVE  AgreeInv'
  OBVIOUS
<1>0. AccountInv'
  BY AccountStep DEF AgreeInv
<1>1. CASE \E i \in PeerIndices : Indexed(i)
  BY <1>0, <1>1, AgreeRest DEF AgreeInv, Indexed, mirror
<1>2. CASE \/ \E i \in PeerIndices, v \in Values : LiteralIndexedName(i, v)
           \/ \E f \in Field : LiteralNewName(f)
  BY <1>0, <1>2, AgreeRest DEF AgreeInv, LiteralIndexedName, LiteralNewName, Literal, mirror
<1>3. CASE \E i \in PeerIndices, v \in Values, h \in BOOLEAN : AddIndexedName(i, v, h)
  BY <1>0, <1>3, AgreeAddIndexedName DEF AgreeInv
<1>4. CASE \E f \in Field, h \in BOOLEAN : AddNewName(f, h)
  BY <1>0, <1>4, AgreeAddNewName DEF AgreeInv
<1>5. CASE EvictOldest
  BY <1>0, <1>5, AgreeEvictOldest DEF AgreeInv
<1>6. CASE Insert
  BY <1>0, <1>6, AgreeInsert DEF AgreeInv
<1>7. CASE InsertFindsMapFull
  BY <1>7 DEF KeepsUp, InsertFindsMapFull
<1>8. CASE DropOversized
  BY <1>0, <1>8, AgreeDropOversized DEF AgreeInv
<1>9. CASE \E v \in PeerSizes : TableSizeUpdate(v)
  BY <1>0, <1>9, AgreeTableSizeUpdate DEF AgreeInv
<1>10. CASE \E v \in SettingsSizes : Settings(v)
  BY <1>0, <1>10, AgreeSettings DEF AgreeInv
<1>11. CASE EndResize \/ NextBlock \/ UNCHANGED vars
  BY <1>0, <1>11, AgreeRest DEF AgreeInv, EndResize, NextBlock, mirror, vars
<1>12. QED
  BY <1>1, <1>2, <1>3, <1>4, <1>5, <1>6, <1>7, <1>8, <1>9, <1>10, <1>11 DEF Next

\* The two sides stay in step for as long as the connection lasts.
LEMMA Agreement == ASSUME KeepsUp PROVE Spec => []AgreeInv
<1>1. Init => AgreeInv
  BY AgreeInit
<1>2. AgreeInv /\ [Next]_vars => AgreeInv'
  BY AgreeStep
<1>3. QED
  BY <1>1, <1>2, PTL DEF Spec

\* An index of the peer the mirror finds an entry for is the field the peer means by it.
THEOREM IndicesCorrect == ASSUME KeepsUp PROVE Spec => []IndicesAgree
<1>1. AgreeInv => IndicesAgree
  BY Understood DEF AgreeInv, IndicesAgree
<1>2. QED
  BY <1>1, Agreement, PTL

\* The mirror finds an entry for every index of the peer, until it says it has drifted.
THEOREM IndicesComplete == ASSUME KeepsUp PROVE Spec => []IndicesFound
<1>1. AgreeInv => IndicesFound
  BY Findable DEF AgreeInv, IndicesFound
<1>2. QED
  BY <1>1, Agreement, PTL

-----------------------------------------------------------------------------
(* What a block reports.                                                     *)

\* A match holds a value of its header in the block, or the slot of one, which is not
\* given to another entry.
Right(n, m) ==
    /\ m.source = "msg" => [name |-> n, val |-> m.val] \in block
    /\ m.source = "table" =>
          /\ m.idx < NextSlot
          /\ Stored(m.idx) => [name |-> n, val |-> StoredField(m.idx).val] \in block

Caught == \A n \in Patterns : Right(n, ms[n])
PendingOfBlock ==
    pc = "add" /\ ps.cid # NoName => [name |-> ps.cid, val |-> ps.val] \in block

CaptureInv == AgreeInv /\ Caught /\ PendingOfBlock

\* What a slot below the next one addresses stays as it is, or is evicted.
LEMMA SlotKept ==
    ASSUME AccountInv, AccountInv', [Next]_vars
    PROVE  \A idx \in Nat : idx < NextSlot =>
              /\ idx < NextSlot'
              /\ (Stored(idx))' =>
                    Stored(idx) /\ (StoredField(idx))' = StoredField(idx)
<1> SUFFICES ASSUME NEW idx \in Nat, idx < NextSlot
             PROVE  /\ idx < NextSlot'
                    /\ (Stored(idx))' =>
                          Stored(idx) /\ (StoredField(idx))' = StoredField(idx)
  OBVIOUS
<1>1. /\ Base \in Nat /\ Base = STATIC_TABLE_SIZE + 1 /\ STATIC_TABLE_SIZE \in Nat
      /\ Len(stored) \in Nat
      /\ NextSlot = Base + Len(stored)
  <2>1. /\ Len(stored) = dt_info.deleted + dt_info.count
        /\ dt_info.deleted \in Nat /\ dt_info.count \in Nat
    BY Counters DEF AccountInv, StoreIsWindow
  <2>2. QED
    BY <2>1, Counters DEF AccountInv, NextSlot
<1>2. NextSlot' = Base + Len(stored') /\ Len(stored') \in Nat
  <2>1. /\ Len(stored') = dt_info'.deleted + dt_info'.count
        /\ dt_info'.deleted \in Nat /\ dt_info'.count \in Nat
    BY DEF AccountInv, StoreIsWindow, TypeOK, Info
  <2>2. QED
    BY <1>1, <2>1 DEF NextSlot
<1>3. Len(stored') >= Len(stored)
  <2>1. CASE stored' = stored
    BY <1>1, <2>1
  <2>2. CASE Insert
    BY <1>1, <2>2, Inserted
  <2>3. stored' = stored \/ Insert
    BY DEF Next, vars, mirror, Indexed, LiteralIndexedName, LiteralNewName, Literal,
           AddIndexedName, AddNewName, StartAdd, EvictOldest, InsertFindsMapFull,
           DropOversized, TableSizeUpdate, EndResize, Settings, NextBlock
  <2>4. QED
    BY <2>1, <2>2, <2>3
<1>4. idx < NextSlot'
  BY <1>1, <1>2, <1>3
<1>5. ASSUME (Stored(idx))'
      PROVE  Stored(idx) /\ (StoredField(idx))' = StoredField(idx)
  <2>1. CASE idx \in 1..STATIC_TABLE_SIZE
    BY <1>1, <2>1 DEF Stored, StoredField
  <2>2. CASE idx \in DOMAIN dynamic_table'
    <3>1. IF idx \in DOMAIN dynamic_table
          THEN dynamic_table'[idx] = dynamic_table[idx]
          ELSE idx >= Base + Len(stored)
      BY <2>2, SlotsStep
    <3>2. idx \in DOMAIN dynamic_table /\ dynamic_table'[idx] = dynamic_table[idx]
      BY <1>1, <3>1
    <3>3. QED
      BY <3>2 DEF Stored, StoredField
  <2>3. QED
    BY <1>5, <2>1, <2>2 DEF Stored, STATIC_TABLE_SIZE
<1>6. QED
  BY <1>4, <1>5

\* Every match of a step is as good as it was, or newly right.
LEMMA CaughtStep ==
    ASSUME AccountInv, AccountInv', [Next]_vars, Caught, block \subseteq block',
           \A n \in Patterns :
              \/ ms'[n] = ms[n]
              \/ ms'[n].source = "msg" /\ [name |-> n, val |-> ms'[n].val] \in block'
              \/ /\ ms'[n].source = "table" /\ UNCHANGED mirror
                 /\ ms'[n].idx < NextSlot
                 /\ Stored(ms'[n].idx) =>
                      [name |-> n, val |-> StoredField(ms'[n].idx).val] \in block'
    PROVE  Caught'
<1> SUFFICES ASSUME NEW n \in Patterns
             PROVE  (Right(n, ms[n]))'
  BY DEF Caught
<1>1. CASE ms'[n] = ms[n]
  <2>1. Right(n, ms[n]) /\ ms[n] \in Match
    BY DEF Caught, AccountInv, TypeOK
  <2>2. CASE ms[n].source = "table"
    <3>1. /\ ms[n].idx \in Nat /\ ms[n].idx < NextSlot
          /\ Stored(ms[n].idx) => [name |-> n, val |-> StoredField(ms[n].idx).val] \in block
      BY <2>1, <2>2 DEF Right, Match
    <3>2. \A idx \in Nat : idx < NextSlot =>
              /\ idx < NextSlot'
              /\ (Stored(idx))' =>
                    Stored(idx) /\ (StoredField(idx))' = StoredField(idx)
      BY SlotKept
    <3>3. ms'[n].idx < NextSlot'
      BY <1>1, <3>1, <3>2
    <3>4. ASSUME (Stored(ms[n].idx))'
          PROVE  [name |-> n, val |-> (StoredField(ms[n].idx))'.val] \in block'
      BY <1>1, <3>1, <3>2, <3>4 DEF Stored, StoredField
    <3>5. QED
      BY <1>1, <2>2, <3>3, <3>4 DEF Right
  <2>3. CASE ms[n].source # "table"
    BY <1>1, <2>1, <2>3 DEF Right
  <2>4. QED
    BY <2>2, <2>3
<1>2. CASE ms'[n].source = "msg" /\ [name |-> n, val |-> ms'[n].val] \in block'
  BY <1>2 DEF Right
<1>3. CASE /\ ms'[n].source = "table" /\ UNCHANGED mirror
           /\ ms'[n].idx < NextSlot
           /\ Stored(ms'[n].idx) =>
                [name |-> n, val |-> StoredField(ms'[n].idx).val] \in block'
  BY <1>3 DEF Right, NextSlot, Stored, StoredField, mirror, STATIC_TABLE_SIZE
<1>4. QED
  BY <1>1, <1>2, <1>3

\* A value that is taken is right if the block has it.
LEMMA TakesRight ==
    ASSUME TypeOK, NEW cid \in Patterns \cup {NoName}, NEW v, TakeValue(cid, v),
           cid # NoName => [name |-> cid, val |-> v] \in block'
    PROVE  \A n \in Patterns :
              \/ ms'[n] = ms[n]
              \/ ms'[n].source = "msg" /\ [name |-> n, val |-> ms'[n].val] \in block'
<1> SUFFICES ASSUME NEW n \in Patterns
             PROVE  \/ ms'[n] = ms[n]
                    \/ ms'[n].source = "msg" /\ [name |-> n, val |-> ms'[n].val] \in block'
  OBVIOUS
<1>1. ms \in [Patterns -> Match]
  BY DEF TypeOK
<1>2. CASE cid = NoName
  BY <1>2 DEF TakeValue
<1>3. CASE cid # NoName /\ n # cid
  BY <1>1, <1>3 DEF TakeValue
<1>4. CASE cid # NoName /\ n = cid
  <2>1. ms'[n] = [source |-> "msg", idx |-> 0, val |-> v]
    BY <1>1, <1>4 DEF TakeValue
  <2>2. QED
    BY <1>4, <2>1
<1>5. QED
  BY <1>2, <1>3, <1>4

\* The name an index captures is the one the peer means.
LEMMA CapturesMeant ==
    ASSUME AgreeInv, pc # "add", NEW i \in PeerIndices, CapturedName(i) # NoName
    PROVE  /\ CapturedName(i) = PeerField(i).name /\ Finds(i)
           /\ Found(i).name = PeerField(i).name /\ Found(i).val = PeerField(i).val
<1>1. Finds(i) /\ CapturedName(i) = Found(i).name
  BY DEF CapturedName
<1>2. FieldOf(Found(i)) = FieldOf(PeerField(i))
  BY <1>1, Understood DEF AgreeInv
<1>3. QED
  BY <1>1, <1>2 DEF FieldOf

\* The slot an index is reported by addresses what it was found to mean.
LEMMA SlotMeant ==
    ASSUME AgreeInv, NEW i \in PeerIndices, Finds(i)
    PROVE  /\ Slot(i) \in Nat /\ Slot(i) < NextSlot
           /\ Stored(Slot(i)) => StoredField(Slot(i)) = Found(i)
<1>1. /\ i \in Nat /\ i > 0 /\ STATIC_TABLE_SIZE \in Nat /\ Base = STATIC_TABLE_SIZE + 1
      /\ dt_info.deleted \in Nat /\ dt_info.count \in Nat
      /\ NextSlot = Base + dt_info.count + dt_info.deleted
  BY Counters DEF AgreeInv, AccountInv, PeerIndices, NextSlot
<1>2. Slot(i) \in Nat
  BY SlotType DEF AgreeInv, AccountInv
<1>3. ~Stored(0) /\ 0 < NextSlot
  BY <1>1, Window DEF AgreeInv, AccountInv, Stored
<1>4. CASE i <= STATIC_TABLE_SIZE
  <2>1. Slot(i) = i \/ Slot(i) = 0
    BY <1>1, <1>4 DEF Slot
  <2>2. i < NextSlot /\ StoredField(i) = Found(i)
    BY <1>1, <1>4 DEF Found
  <2>3. QED
    BY <1>2, <1>3, <2>1, <2>2
<1>5. CASE i > STATIC_TABLE_SIZE
  <2> DEFINE s == _get_dynamic_table_index(i)
  <2>1. Slot(i) = s \/ Slot(i) = 0
    BY <1>1, <1>5 DEF Slot
  <2>2. s \in DOMAIN dynamic_table
    BY <1>5 DEF Finds
  <2>3. s < NextSlot
    BY <1>1, <2>2, Window DEF AgreeInv, AccountInv
  <2>4. StoredField(s) = Found(i)
    BY <1>1, <1>5 DEF Found
  <2>5. QED
    BY <1>2, <1>3, <2>1, <2>3, <2>4
<1>6. QED
  BY <1>1, <1>4, <1>5

\* Starting an addition takes its value, or keeps it for when it is done.
LEMMA CaptureStartAdd ==
    ASSUME CaptureInv, AgreeInv', [Next]_vars, pc = "field", NEW f \in Field,
           block' = block \cup {f}, NEW name, NEW len, NEW cut,
           NEW cid \in Patterns \cup {NoName}, cid # NoName => cid = f.name,
           StartAdd(name, len, cid, f.val, cut)
    PROVE  Caught' /\ PendingOfBlock'
<1>1. cid # NoName => [name |-> cid, val |-> f.val] \in block'
  <2>1. f = [name |-> f.name, val |-> f.val]
    BY DEF Field
  <2>2. QED
    BY <2>1
<1>2. CASE TakeValue(cid, f.val) /\ pc' = "field"
  BY <1>1, <1>2, TakesRight, CaughtStep
  DEF CaptureInv, AgreeInv, AccountInv, PendingOfBlock
<1>3. CASE /\ pc' = "add" /\ ms' = ms
           /\ ps' = [cid |-> cid, name |-> name, val |-> f.val,
                     size |-> len + ValueLen[f.val] + EntryOverhead]
  <2>1. Caught'
    BY <1>3, CaughtStep DEF CaptureInv, AgreeInv
  <2>2. ps'.cid = cid /\ ps'.val = f.val
    BY <1>3
  <2>3. QED
    BY <1>1, <1>3, <2>1, <2>2 DEF PendingOfBlock
<1>4. QED
  BY <1>2, <1>3 DEF StartAdd

\* Every step reports for a header what the block has for it.
LEMMA CaptureStep ==
    ASSUME CaptureInv, AgreeInv', [Next]_vars
    PROVE  CaptureInv'
<1> SUFFICES Caught' /\ PendingOfBlock'
  BY DEF CaptureInv
<1>0. AgreeInv /\ AccountInv /\ AccountInv' /\ TypeOK /\ Caught
  BY DEF CaptureInv, AgreeInv, AccountInv
<1>1. CASE \E i \in PeerIndices : Indexed(i)
  <2>1. PICK i \in PeerIndices : Indexed(i)
    BY <1>1
  <2> DEFINE f == [name |-> PeerField(i).name, val |-> PeerField(i).val]
             c == CapturedName(i)
  <2>2. /\ pc = "field" /\ pc' = "field" /\ UNCHANGED mirror
        /\ block' = block \cup {f}
        /\ ms' = IF c = NoName THEN ms
                 ELSE [ms EXCEPT ![c] = [source |-> "table", idx |-> Slot(i), val |-> NoValue]]
    BY <2>1 DEF Indexed
  <2>3. \A n \in Patterns :
          \/ ms'[n] = ms[n]
          \/ /\ ms'[n].source = "table" /\ UNCHANGED mirror
             /\ ms'[n].idx < NextSlot
             /\ Stored(ms'[n].idx) =>
                  [name |-> n, val |-> StoredField(ms'[n].idx).val] \in block'
    <3>1. TAKE n \in Patterns
    <3>2. ms \in [Patterns -> Match]
      BY <1>0 DEF TypeOK
    <3>3. CASE c = NoName \/ n # c
      BY <2>2, <3>2, <3>3
    <3>4. CASE c # NoName /\ n = c
      <4>1. c = PeerField(i).name /\ Finds(i) /\ Found(i).val = PeerField(i).val
        BY <1>0, <2>2, <3>4, CapturesMeant
      <4>2. /\ Slot(i) < NextSlot
            /\ Stored(Slot(i)) => StoredField(Slot(i)) = Found(i)
        BY <1>0, <4>1, SlotMeant
      <4>3. ms'[n] = [source |-> "table", idx |-> Slot(i), val |-> NoValue]
        BY <2>2, <3>2, <3>4
      <4>4. ms'[n].source = "table" /\ ms'[n].idx = Slot(i)
        BY <4>3
      <4>5. Stored(Slot(i)) => [name |-> n, val |-> StoredField(Slot(i)).val] = f
        BY <3>4, <4>1, <4>2
      <4>6. f \in block'
        BY <2>2
      <4> HIDE DEF f, c
      <4>7. QED
        BY <2>2, <4>2, <4>4, <4>5, <4>6
    <3>5. QED
      BY <3>3, <3>4
  <2>4. QED
    BY <1>0, <2>2, <2>3, CaughtStep DEF PendingOfBlock
<1>2. ASSUME NEW f \in Field, NEW cid \in Patterns \cup {NoName},
             cid # NoName => cid = f.name, Literal(f, cid)
      PROVE  Caught' /\ PendingOfBlock'
  <2>1. [name |-> f.name, val |-> f.val] \in block'
    BY <1>2 DEF Literal, Field
  <2>2. TakeValue(cid, f.val) /\ block \subseteq block' /\ pc' = "field"
    BY <1>2 DEF Literal
  <2>3. QED
    BY <1>0, <1>2, <2>1, <2>2, TakesRight, CaughtStep DEF PendingOfBlock
<1>3. CASE \E i \in PeerIndices, v \in Values : LiteralIndexedName(i, v)
  <2>1. PICK i \in PeerIndices, v \in Values : LiteralIndexedName(i, v)
    BY <1>3
  <2> DEFINE f == [name |-> PeerField(i).name, val |-> v]
  <2>2. f \in Field /\ f.name = PeerField(i).name
    BY <1>0, PeerFieldType DEF AccountInv, Field
  <2>3. CapturedName(i) \in Patterns \cup {NoName} /\ Literal(f, CapturedName(i))
    BY <2>1, CapturedNameType DEF LiteralIndexedName
  <2>4. CapturedName(i) # NoName => CapturedName(i) = f.name
    <3>1. pc = "field"
      BY <2>3 DEF Literal
    <3>2. QED
      BY <1>0, <2>2, <3>1, CapturesMeant
  <2> HIDE DEF f
  <2>5. QED
    BY <1>2, <2>2, <2>3, <2>4
<1>4. CASE \E f \in Field : LiteralNewName(f)
  BY <1>2, <1>4 DEF LiteralNewName
<1>5. CASE \E i \in PeerIndices, v \in Values, h \in BOOLEAN : AddIndexedName(i, v, h)
  <2>1. PICK i \in PeerIndices, v \in Values, h \in BOOLEAN : AddIndexedName(i, v, h)
    BY <1>5
  <2> DEFINE f == [name |-> PeerField(i).name, val |-> v]
             name == IndexedName(i)
             len == IF name = NoName THEN 0 ELSE TrimLen(name)
             cut == h /\ ValueLen[v] > FieldMaxLen
  <2>2. f \in Field /\ f.name = PeerField(i).name /\ f.val = v
    BY <1>0, PeerFieldType DEF AccountInv, Field
  <2>3. /\ pc = "field" /\ block' = block \cup {f}
        /\ StartAdd(name, len, CapturedName(i), f.val, cut)
    BY <2>1 DEF AddIndexedName
  <2>4. /\ CapturedName(i) \in Patterns \cup {NoName}
        /\ CapturedName(i) # NoName => CapturedName(i) = f.name
    BY <1>0, <2>2, <2>3, CapturedNameType, CapturesMeant
  <2> HIDE DEF f, name, len, cut
  <2>5. QED
    BY <2>2, <2>3, <2>4, CaptureStartAdd
<1>6. CASE \E f \in Field, h \in BOOLEAN : AddNewName(f, h)
  <2>1. PICK f \in Field, h \in BOOLEAN : AddNewName(f, h)
    BY <1>6
  <2> DEFINE cid == IF f.name \in Patterns THEN f.name ELSE NoName
             cut == h /\ (NameLen[f.name] > FieldMaxLen \/ ValueLen[f.val] > FieldMaxLen)
  <2>2. /\ pc = "field" /\ block' = block \cup {f}
        /\ StartAdd(f.name, NameLen[f.name], cid, f.val, cut)
    BY <2>1 DEF AddNewName
  <2>3. cid \in Patterns \cup {NoName} /\ (cid # NoName => cid = f.name)
    OBVIOUS
  <2> HIDE DEF cid, cut
  <2>4. QED
    BY <2>2, <2>3, CaptureStartAdd
<1>7. CASE Insert \/ InsertFindsMapFull \/ DropOversized
  <2>1. EndAdd /\ pc = "add"
    BY <1>7 DEF Insert, InsertFindsMapFull, DropOversized
  <2>2. /\ ps.cid \in Patterns \cup {NoName} /\ TakeValue(ps.cid, ps.val)
        /\ block' = block /\ pc' = "field"
    BY <1>0, <2>1 DEF EndAdd, TypeOK, Pending
  <2>3. ps.cid # NoName => [name |-> ps.cid, val |-> ps.val] \in block'
    BY <2>1, <2>2 DEF CaptureInv, PendingOfBlock
  <2>4. QED
    BY <1>0, <2>2, <2>3, TakesRight, CaughtStep DEF PendingOfBlock
<1>8. CASE NextBlock
  BY <1>8 DEF NextBlock, Caught, Right, NoMatch, PendingOfBlock
<1>9. CASE UNCHANGED <<ms, block>> /\ (UNCHANGED <<pc, ps>> \/ pc' # "add")
  BY <1>0, <1>9, CaughtStep DEF CaptureInv, PendingOfBlock
<1>10. QED
  BY <1>1, <1>3, <1>4, <1>5, <1>6, <1>7, <1>8, <1>9
  DEF Next, vars, EvictOldest, TableSizeUpdate, EndResize, Settings

\* A value reported for a header is one the peer sent for it in the block.
THEOREM NeverWrong == ASSUME KeepsUp PROVE Spec => []NeverWrongHeader
<1>1. Init => CaptureInv
  BY AgreeInit DEF CaptureInv, Init, Caught, Right, NoMatch, PendingOfBlock
<1>2. CaptureInv /\ [Next]_vars => CaptureInv'
  BY AgreeStep, CaptureStep DEF CaptureInv
<1>3. CaptureInv => NeverWrongHeader
  BY DEF CaptureInv, Caught, Right, NeverWrongHeader, Reported
<1>4. QED
  BY <1>1, <1>2, <1>3, PTL DEF Spec

-----------------------------------------------------------------------------
(* That the mirrored table implements SuffixMirror: whatever it does, what   *)
(* it answers from is the newest end of the peer's additions.                *)

\* The refinement mapping: the additions the mirror is done with, and the entries it
\* answers from, oldest first.
Added == [j \in 1..Settled |-> FieldOf(sent[j])]
Held == IF dt_info.dirty = 1 THEN <<>>
        ELSE [j \in 1..dt_info.count |-> FieldOf(dynamic_table[Oldest + j - 1])]

\* A function on the first n numbers is a sequence of n elements.
LEMMA FunctionIsSeq ==
    ASSUME NEW S, NEW n \in Nat, NEW s \in [1..n -> S]
    PROVE  s \in Seq(S) /\ Len(s) = n
<1>1. s \in Seq(S)
  BY SeqDef
<1>2. DOMAIN s = 1..n /\ DOMAIN s = 1..Len(s) /\ Len(s) \in Nat
  BY <1>1, LenProperties
<1>3. QED
  BY <1>1, <1>2

\* The end of a sequence from its second element on, and all of it, are suffixes.
LEMMA SuffixFacts ==
    ASSUME NEW S, NEW s \in Seq(S)
    PROVE  /\ s \in Abs!Suffixes(s)
           /\ <<>> \in Abs!Suffixes(s)
           /\ s # <<>> => Tail(s) \in Abs!Suffixes(s)
<1>1. Len(s) \in Nat
  BY LenProperties
<1>2. SubSeq(s, 1, Len(s)) = s /\ 1 \in 1..(Len(s) + 1)
  BY <1>1, SubSeqFull
<1>3. SubSeq(s, Len(s) + 1, Len(s)) = <<>> /\ Len(s) + 1 \in 1..(Len(s) + 1)
  BY <1>1, SubSeqEmpty
<1>4. ASSUME s # <<>>
      PROVE  Tail(s) = SubSeq(s, 2, Len(s)) /\ 2 \in 1..(Len(s) + 1)
  <2>1. Tail(s) = SubSeq(s, 2, Len(s))
    BY <1>4, TailIsSubSeq
  <2>2. Len(s) \in Nat \ {0}
    BY <1>4, EmptySeq
  <2>3. QED
    BY <2>1, <2>2
<1>5. QED
  BY <1>2, <1>3, <1>4 DEF Abs!Suffixes

\* Both are sequences of fields.
MappingOK ==
    /\ Added \in Seq(Field) /\ Len(Added) = Settled /\ Settled \in Nat
    /\ \A j \in 1..Settled : Added[j] = FieldOf(sent[j])
    /\ Held \in Seq(Field)
    /\ dt_info.dirty = 1 => Held = <<>>
    /\ dt_info.dirty = 0 => /\ Len(Held) = dt_info.count
                            /\ \A j \in 1..dt_info.count :
                                 Held[j] = FieldOf(dynamic_table[Oldest + j - 1])

\* They are in every state the invariant describes.
LEMMA MappingType == AgreeInv => MappingOK
<1> SUFFICES ASSUME AgreeInv PROVE MappingOK
  OBVIOUS
<1> USE DEF MappingOK, AgreeInv
<1>1. /\ Settled \in Nat /\ Settled <= Len(sent) /\ Len(sent) \in Nat
      /\ dt_info.count \in Nat /\ dt_info.deleted \in Nat /\ dt_info.dirty \in {0, 1}
      /\ Base \in Nat /\ Oldest = Base + dt_info.deleted
  BY SettledType, Counters DEF AccountInv, Oldest
<1>2. Added \in [1..Settled -> Field]
  <2>1. SUFFICES ASSUME NEW j \in 1..Settled
                 PROVE  FieldOf(sent[j]) \in Field
    BY DEF Added
  <2>2. sent[j] \in Sent
    BY <1>1, ElementOfSeq DEF AccountInv, TypeOK
  <2>3. QED
    BY <2>2 DEF Sent, Field, FieldOf
<1>3. Added \in Seq(Field) /\ Len(Added) = Settled
  BY <1>1, <1>2, FunctionIsSeq
<1>4. CASE dt_info.dirty = 1
  <2>1. Held = <<>> /\ <<>> \in Seq(Field)
    BY <1>4, EmptySeq DEF Held
  <2>2. QED
    BY <1>1, <1>3, <1>4, <2>1 DEF Added
<1>5. CASE dt_info.dirty = 0
  <2>1. Held = [j \in 1..dt_info.count |-> FieldOf(dynamic_table[Oldest + j - 1])]
    BY <1>5 DEF Held
  <2>2. Held \in [1..dt_info.count -> Field]
    <3>1. SUFFICES ASSUME NEW j \in 1..dt_info.count
                   PROVE  FieldOf(dynamic_table[Oldest + j - 1]) \in Field
      BY <2>1
    <3>2. Oldest + j - 1 \in DOMAIN dynamic_table
      BY <1>1, Window DEF AccountInv
    <3>3. dynamic_table[Oldest + j - 1] \in Entry
      BY <3>2 DEF AccountInv, TypeOK
    <3>4. QED
      BY <3>3 DEF Entry, Field, FieldOf
  <2>3. Held \in Seq(Field) /\ Len(Held) = dt_info.count
    BY <1>1, <2>2, FunctionIsSeq
  <2>4. QED
    BY <1>1, <1>3, <1>5, <2>1, <2>3 DEF Added
<1>6. QED
  BY <1>1, <1>4, <1>5

\* So are they in the next one.
LEMMA MappingTypeNext == AgreeInv' => MappingOK'
  BY MappingType, PTL

\* No addition is settled: the mirror's additions are the same.
LEMMA AddedSame ==
    ASSUME Settled' = Settled, \A j \in 1..Settled : sent'[j] = sent[j]
    PROVE  Added' = Added
  BY DEF Added

\* An addition is settled.
LEMMA AddedGrows ==
    ASSUME AgreeInv, AgreeInv', Settled' = Settled + 1,
           \A j \in 1..Settled : sent'[j] = sent[j]
    PROVE  /\ FieldOf(sent'[Settled + 1]) \in Field
           /\ Added' = Append(Added, FieldOf(sent'[Settled + 1]))
<1> DEFINE f == FieldOf(sent'[Settled + 1])
<1>1. MappingOK /\ MappingOK'
  BY MappingType, MappingTypeNext
<1>2. f \in Field
  <2>1. Settled' \in 1..Len(Added')
    BY <1>1 DEF MappingOK
  <2>2. Added'[Settled'] \in Field
    BY <1>1, <2>1, ElementOfSeq DEF MappingOK
  <2>3. QED
    BY <1>1, <2>1, <2>2 DEF MappingOK
<1>3. /\ Append(Added, f) \in Seq(Field) /\ Len(Append(Added, f)) = Settled + 1
      /\ Append(Added, f)[Settled + 1] = f
      /\ \A j \in 1..Settled : Append(Added, f)[j] = Added[j]
  <2>1. Added \in Seq(Field) /\ Len(Added) = Settled
    BY <1>1 DEF MappingOK
  <2> HIDE DEF f
  <2>2. QED
    BY <1>2, <2>1, AppendProperties
<1>4. Added' \in Seq(Field) /\ Len(Added') = Settled + 1
  BY <1>1 DEF MappingOK
<1>5. \A j \in 1..(Settled + 1) : Added'[j] = Append(Added, f)[j]
  <2>1. TAKE j \in 1..(Settled + 1)
  <2>2. Added'[j] = FieldOf(sent'[j])
    BY <1>1 DEF MappingOK
  <2>3. CASE j = Settled + 1
    BY <1>3, <2>2, <2>3
  <2>4. CASE j \in 1..Settled
    BY <1>1, <1>3, <2>2, <2>4 DEF MappingOK
  <2>5. QED
    BY <1>1, <2>3, <2>4 DEF MappingOK
<1>6. Added' = Append(Added, f)
  <2> HIDE DEF f
  <2>1. QED
    BY <1>3, <1>4, <1>5, SeqEqual
<1>7. QED
  BY <1>2, <1>6

\* An addition the mirror gives up on for good: it answers from nothing any more.
LEMMA GivesUp ==
    ASSUME AgreeInv, AgreeInv', Settled' = Settled + 1,
           \A j \in 1..Settled : sent'[j] = sent[j], Held' = <<>>
    PROVE  Abs!Next
<1> DEFINE f == FieldOf(sent'[Settled + 1])
<1>1. f \in Field /\ Added' = Append(Added, f)
  BY AddedGrows
<1>2. Append(Held, f) \in Seq(Field)
  <2>1. Held \in Seq(Field)
    BY MappingType DEF MappingOK
  <2> HIDE DEF f
  <2>2. QED
    BY <1>1, <2>1, AppendProperties
<1>3. Held' \in Abs!Suffixes(Append(Held, f))
  <2> HIDE DEF f
  <2>1. QED
    BY <1>2, SuffixFacts
<1> HIDE DEF f
<1>4. Abs!Add(f)
  BY <1>1, <1>3 DEF Abs!Add, Added, Held
<1>5. QED
  BY <1>1, <1>4 DEF Abs!Next

\* An insertion adds to both ends.
LEMMA InsertAdds ==
    ASSUME AgreeInv, AgreeInv', Insert
    PROVE  Abs!Next
<1> DEFINE f == FieldOf(sent'[Settled + 1])
           c == dt_info.count
           app == Append(Held, f)
<1>1. /\ pc = "add" /\ pc' = "field" /\ sent' = sent /\ dt_info.dirty = 0 /\ dt_info'.dirty = 0
      /\ dt_info'.count = c + 1 /\ dt_info'.deleted = dt_info.deleted
      /\ c \in Nat /\ dt_info.deleted \in Nat /\ Base \in Nat /\ Len(sent) \in Nat
      /\ Settled = Len(sent) - 1 /\ Settled' = Len(sent)
      /\ FieldOf(ps) = FieldOf(sent[Len(sent)])
  BY Counters
  DEF Insert, EndAdd, AgreeInv, AccountInv, TypeOK, Info, PendingIsNewest, Settled
<1>2. f \in Field /\ Added' = Append(Added, f)
  BY <1>1, AddedGrows
<1>3. f = FieldOf(ps)
  BY <1>1
<1>4. MappingOK /\ MappingOK'
  BY MappingType, MappingTypeNext
<1>5. /\ app \in Seq(Field) /\ Len(app) = c + 1 /\ app[c + 1] = f
      /\ \A j \in 1..c : app[j] = Held[j]
  <2>1. Held \in Seq(Field) /\ Len(Held) = c
    BY <1>1, <1>4 DEF MappingOK
  <2> HIDE DEF f
  <2>2. QED
    BY <1>2, <2>1, AppendProperties
<1>6. /\ Held' \in Seq(Field) /\ Len(Held') = c + 1
      /\ \A j \in 1..(c + 1) : Held'[j] = FieldOf(dynamic_table'[Oldest + j - 1])
  BY <1>1, <1>4 DEF MappingOK, Oldest
<1>7. \A j \in 1..(c + 1) : Held'[j] = app[j]
  <2>1. TAKE j \in 1..(c + 1)
  <2>2. CASE j = c + 1
    <3>1. Oldest + j - 1 = NextSlot
      BY <1>1, <2>2 DEF Oldest, NextSlot
    <3>2. FieldOf(dynamic_table'[NextSlot]) = FieldOf(ps)
      BY DEF Insert, FieldOf
    <3>3. QED
      BY <1>3, <1>5, <1>6, <2>2, <3>1, <3>2
  <2>3. CASE j \in 1..c
    <3>1. Oldest + j - 1 \in DOMAIN dynamic_table /\ Oldest + j - 1 # NextSlot
      <4> DEFINE o == Oldest + j - 1
      <4>1. /\ o \in Nat /\ Base + dt_info.deleted <= o
            /\ o < Base + dt_info.deleted + dt_info.count
        BY <1>1, <2>3 DEF Oldest
      <4>2. o # NextSlot
        BY <1>1, <4>1 DEF NextSlot
      <4> HIDE DEF o
      <4>3. o \in DOMAIN dynamic_table
        BY <4>1, Window DEF AgreeInv, AccountInv
      <4>4. QED
        BY <4>2, <4>3 DEF o
    <3>2. dynamic_table'[Oldest + j - 1] = dynamic_table[Oldest + j - 1]
      BY <3>1 DEF Insert
    <3>3. Held[j] = FieldOf(dynamic_table[Oldest + j - 1])
      BY <1>1, <1>4, <2>3 DEF MappingOK
    <3>4. QED
      BY <1>5, <1>6, <2>3, <3>2, <3>3
  <2>4. j = c + 1 \/ j \in 1..c
    BY <1>1
  <2>5. QED
    BY <2>2, <2>3, <2>4
<1>8. Held' = app
  <2> HIDE DEF app
  <2>1. QED
    BY <1>5, <1>6, <1>7, SeqEqual
<1>9. Held' \in Abs!Suffixes(Append(Held, f))
  <2> HIDE DEF f
  <2>1. QED
    BY <1>5, <1>8, SuffixFacts
<1> HIDE DEF f, app
<1>10. Abs!Add(f)
  BY <1>2, <1>9 DEF Abs!Add, Added, Held
<1>11. QED
  BY <1>2, <1>10 DEF Abs!Next

\* An eviction forgets the oldest entry, or none that the mirror still answers from.
LEMMA EvictOldestForgets ==
    ASSUME AgreeInv, AgreeInv', EvictOldest
    PROVE  Abs!Next
<1> DEFINE c == dt_info.count
<1>1. /\ UNCHANGED <<sent, pc>> /\ dt_info'.dirty = dt_info.dirty
      /\ dt_info'.count = c - 1 /\ dt_info'.deleted = dt_info.deleted + 1
      /\ c \in Nat /\ c > 0 /\ dt_info.deleted \in Nat /\ Base \in Nat
      /\ dt_info.dirty \in {0, 1}
  BY Counters DEF EvictOldest, EvictsMore, AgreeInv, AccountInv, TypeOK, Info
<1>2. Added' = Added
  BY <1>1, AddedSame DEF Settled
<1>3. MappingOK /\ MappingOK'
  BY MappingType, MappingTypeNext
<1>4. CASE dt_info.dirty = 1
  <2>1. Held = <<>> /\ Held' = <<>>
    BY <1>1, <1>3, <1>4 DEF MappingOK
  <2>2. Held' \in Abs!Suffixes(Held)
    BY <1>3, <2>1, SuffixFacts DEF MappingOK
  <2>3. Abs!Forget
    BY <1>2, <2>2 DEF Abs!Forget, Added, Held
  <2>4. QED
    BY <2>3 DEF Abs!Next
<1>5. CASE dt_info.dirty = 0
  <2>1. /\ Held \in Seq(Field) /\ Len(Held) = c
        /\ \A j \in 1..c : Held[j] = FieldOf(dynamic_table[Oldest + j - 1])
    BY <1>3, <1>5 DEF MappingOK
  <2>2. /\ Held' \in Seq(Field) /\ Len(Held') = c - 1
        /\ \A j \in 1..(c - 1) : Held'[j] = FieldOf(dynamic_table'[(Oldest + 1) + j - 1])
    <3>1. Oldest' = Oldest + 1
      BY <1>1 DEF Oldest
    <3>2. QED
      BY <1>1, <1>3, <1>5, <3>1 DEF MappingOK
  <2>3. Held # <<>>
    BY <1>1, <2>1, EmptySeq
  <2>4. /\ Tail(Held) \in Seq(Field) /\ Len(Tail(Held)) = c - 1
        /\ \A j \in 1..(c - 1) : Tail(Held)[j] = Held[j + 1]
    BY <2>1, <2>3, HeadTailProperties
  <2>5. \A j \in 1..(c - 1) : Held'[j] = Tail(Held)[j]
    <3>1. TAKE j \in 1..(c - 1)
    <3>2. /\ (Oldest + 1) + j - 1 = Oldest + (j + 1) - 1 /\ j + 1 \in 1..c
          /\ Oldest + (j + 1) - 1 # Oldest
          /\ Oldest + (j + 1) - 1 \in DOMAIN dynamic_table
      BY <1>1, Window DEF AgreeInv, AccountInv, Oldest
    <3>3. dynamic_table'[Oldest + (j + 1) - 1] = dynamic_table[Oldest + (j + 1) - 1]
      BY <3>2 DEF EvictOldest
    <3>4. QED
      BY <2>1, <2>2, <2>4, <3>2, <3>3
  <2>6. Held' = Tail(Held)
    BY <2>2, <2>4, <2>5, SeqEqual
  <2>7. Held' \in Abs!Suffixes(Held)
    BY <2>1, <2>3, <2>6, SuffixFacts
  <2>8. Abs!Forget
    BY <1>2, <2>7 DEF Abs!Forget, Added, Held
  <2>9. QED
    BY <2>8 DEF Abs!Next
<1>6. QED
  BY <1>1, <1>4, <1>5

\* An oversized field leaves nothing to answer from.
LEMMA DropOversizedGivesUp ==
    ASSUME AgreeInv, AgreeInv', DropOversized
    PROVE  Abs!Next
<1>1. /\ pc = "add" /\ pc' = "field" /\ UNCHANGED <<sent, dt_info>>
      /\ dt_info.dirty = 0 /\ dt_info.count = 0
  BY AgreeDropOversized DEF DropOversized, mirror, EndAdd, AgreeInv, PendingIsNewest
<1>2. Settled' = Settled + 1
  BY <1>1, Counters DEF AgreeInv, AccountInv, Settled
<1>3. Held' = <<>>
  <2>1. Held' \in Seq(Field) /\ Len(Held') = 0
    BY <1>1, MappingTypeNext DEF MappingOK
  <2>2. QED
    BY <2>1, EmptySeq
<1>4. QED
  BY <1>1, <1>2, <1>3, GivesUp

\* A step that leaves the table as it is, and settles nothing, is none of the mirror's.
LEMMA SameMirror ==
    ASSUME Settled' = Settled, \A j \in 1..Settled : sent'[j] = sent[j],
           dynamic_table' = dynamic_table, dt_info'.dirty = dt_info.dirty,
           dt_info'.count = dt_info.count, dt_info'.deleted = dt_info.deleted
    PROVE  Added' = Added /\ Held' = Held
  BY AddedSame DEF Held, Oldest

\* A literal to be added: the mirror is in the middle of it, or gives up on it.
LEMMA StartOfAdd ==
    ASSUME KeepsUp, AgreeInv, AgreeInv',
           \/ \E i \in PeerIndices, v \in Values, h \in BOOLEAN : AddIndexedName(i, v, h)
           \/ \E f \in Field, h \in BOOLEAN : AddNewName(f, h)
    PROVE  Abs!Next \/ (Added' = Added /\ Held' = Held)
<1>1. PICK f \in Field : PeerAdds(f)
  <2>1. \A i \in PeerIndices, v \in Values : [name |-> PeerField(i).name, val |-> v] \in Field
    BY PeerFieldType DEF AgreeInv, AccountInv, Field
  <2>2. QED
    BY <2>1 DEF AddIndexedName, AddNewName
<1>2. /\ pc = "field"
      /\ pc' = "add" => Settled' = Settled
      /\ pc' # "add" => Settled' = Settled + 1 /\ dt_info'.dirty = 1
  <2>1. AccountInv'
    BY DEF AgreeInv
  <2>2. QED
    BY <2>1, AgreeAddIndexedName, AgreeAddNewName DEF AddIndexedName, AddNewName
<1>3. Settled = Len(sent) /\ \A j \in 1..Settled : sent'[j] = sent[j]
  BY <1>1, <1>2, PeerAddsFacts DEF AgreeInv, Settled
<1>4. CASE pc' = "add"
  <2>1. UNCHANGED mirror
    BY <1>2, <1>4 DEF AddIndexedName, AddNewName, StartAdd
  <2>2. QED
    BY <1>2, <1>3, <1>4, <2>1, SameMirror DEF mirror
<1>5. CASE pc' # "add"
  <2>1. Held' = <<>>
    BY <1>2, <1>5, MappingTypeNext DEF MappingOK
  <2>2. QED
    BY <1>2, <1>3, <1>5, <2>1, GivesUp
<1>6. QED
  BY <1>4, <1>5

\* Every step of the table is one of SuffixMirror, or none.
LEMMA MirrorStep ==
    ASSUME KeepsUp, AgreeInv, AgreeInv', [Next]_vars
    PROVE  Abs!Next \/ (Added' = Added /\ Held' = Held)
<1>1. CASE \/ \E i \in PeerIndices, v \in Values, h \in BOOLEAN : AddIndexedName(i, v, h)
           \/ \E f \in Field, h \in BOOLEAN : AddNewName(f, h)
  BY <1>1, StartOfAdd
<1>2. CASE EvictOldest
  BY <1>2, EvictOldestForgets
<1>3. CASE Insert
  BY <1>3, InsertAdds
<1>4. CASE InsertFindsMapFull
  BY <1>4 DEF KeepsUp, InsertFindsMapFull
<1>5. CASE DropOversized
  BY <1>5, DropOversizedGivesUp
<1>6. CASE /\ UNCHANGED <<dynamic_table, sent>>
           /\ \/ pc' = pc
              \/ pc # "add" /\ pc' # "add"
           /\ dt_info'.dirty = dt_info.dirty /\ dt_info'.count = dt_info.count
           /\ dt_info'.deleted = dt_info.deleted
  BY <1>6, SameMirror DEF Settled
<1>7. CASE \E v \in PeerSizes : TableSizeUpdate(v)
  <2>1. /\ dt_info'.dirty = dt_info.dirty /\ dt_info'.count = dt_info.count
        /\ dt_info'.deleted = dt_info.deleted
    BY <1>7 DEF TableSizeUpdate, AgreeInv, AccountInv, TypeOK, Info
  <2>2. QED
    BY <1>6, <1>7, <2>1 DEF TableSizeUpdate
<1>8. CASE \E v \in SettingsSizes : Settings(v)
  <2>1. /\ dt_info'.dirty = dt_info.dirty /\ dt_info'.count = dt_info.count
        /\ dt_info'.deleted = dt_info.deleted
    BY <1>8 DEF Settings, AgreeInv, AccountInv, TypeOK, Info
  <2>2. QED
    BY <1>6, <1>8, <2>1 DEF Settings
<1>9. CASE \/ \E i \in PeerIndices : Indexed(i)
           \/ \E i \in PeerIndices, v \in Values : LiteralIndexedName(i, v)
           \/ \E f \in Field : LiteralNewName(f)
           \/ EndResize \/ NextBlock \/ UNCHANGED vars
  BY <1>6, <1>9
  DEF Indexed, LiteralIndexedName, LiteralNewName, Literal, EndResize, NextBlock, vars, mirror
<1>10. QED
  BY <1>1, <1>2, <1>3, <1>4, <1>5, <1>7, <1>8, <1>9 DEF Next

\* Both histories start out empty.
LEMMA MirrorInit == Init => Abs!Init
<1> SUFFICES ASSUME Init PROVE Added = <<>> /\ Held = <<>>
  BY DEF Abs!Init, Added, Held
<1>1. MappingOK
  BY AgreeInit, MappingType
<1>2. Settled = 0 /\ dt_info.dirty = 0 /\ dt_info.count = 0
  BY EmptySeq DEF Init, Settled
<1>3. /\ Added \in Seq(Field) /\ Len(Added) = 0
      /\ Held \in Seq(Field) /\ Len(Held) = 0
  BY <1>1, <1>2 DEF MappingOK
<1>4. QED
  BY <1>3, EmptySeq

\* What the mirror answers from is the newest end of the peer's additions, at every
\* step: no step drops an addition in the middle.
THEOREM Refinement == ASSUME KeepsUp PROVE Spec => Mirrors
<1>1. Init => Abs!Init
  BY MirrorInit
<1>2. AgreeInv /\ AgreeInv' /\ [Next]_vars => [Abs!Next]_<<Added, Held>>
  BY MirrorStep
<1>3. AgreeInv /\ AgreeInv' /\ [Next]_vars
        => [Abs!Next]_<<[j \in 1..Settled |-> FieldOf(sent[j])],
                        IF dt_info.dirty = 1 THEN <<>>
                        ELSE [j \in 1..dt_info.count |->
                                 FieldOf(dynamic_table[Oldest + j - 1])]>>
  BY <1>2 DEF Added, Held
<1>4. QED
  BY <1>1, <1>3, Agreement, PTL DEF Spec, Mirrors, Abs!Spec
=============================================================================
