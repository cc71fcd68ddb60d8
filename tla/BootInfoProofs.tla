--------------------------- MODULE BootInfoProofs ---------------------------
(***************************************************************************)
(* Proofs about BootInfo, for every layout of tags that LaidOut allows:    *)
(* any number of tags of any size, memory maps of any length and entry     *)
(* size, several of them included.                                         *)
(***************************************************************************)
EXTENDS BootInfo, FiniteSetTheorems, TLAPS

Slots == [0 .. MaxSlots -> Entries \cup {Blank, Counters}]

\* the slots of the first n entries of a map that are available
AvailableIn(map, n) == {k \in 0 .. n - 1 : map[k + 1] \in Available}

Typing ==
  /\ pc \in {"start", "returned", "walk", "copy", "parsed"}
  /\ info \in Infos
  /\ gmdsc \in [e820 : Slots, e820_num : Nat, e820_available_size : Nat]
  /\ pc \in {"walk", "copy"} => tag \in DOMAIN info

\* What gmdsc holds of a map that was copied: all of it that lies in the array,
\* and behind the array all but what the two counters went over.
Holds(map) ==
  /\ gmdsc.e820_num = Len(map)
  /\ \A k \in 0 .. Len(map) - 1 :
       IF k = MaxE820 THEN gmdsc.e820[k] = Counters
                      ELSE gmdsc.e820[k] = map[k + 1]
  /\ gmdsc.e820_available_size = Cardinality(AvailableIn(map, Len(map)))

\* the last map in front of an offset
IsLast(o, end) == /\ o \in Maps(info) /\ o < end
                  /\ \A m \in Maps(info) : m < end => m <= o

\* gmdsc holds the last map in front of an offset, or nothing
HoldsUpTo(end) ==
  \/ \E o \in Maps(info) : IsLast(o, end) /\ Holds(info[o].entries)
  \/ /\ \A m \in Maps(info) : m >= end
     /\ gmdsc.e820_num = 0 /\ gmdsc.e820_available_size = 0

Walking == pc = "walk" => HoldsUpTo(tag)

\* In the middle of a map: the entries so far are copied and counted.
Copying ==
  pc = "copy" =>
    /\ Tag.type = "mmap" /\ i \in 0 .. Len(Tag.entries)
    /\ entry = tag + MmapHeader + i * Tag.entry_size
    /\ \A k \in 0 .. i - 1 : gmdsc.e820[k] = Tag.entries[k + 1]
    /\ available_size = Cardinality(AvailableIn(Tag.entries, i))

\* At the end: the last map of all, or nothing.
Parsed ==
  pc \in {"start", "parsed"} =>
    \/ /\ gmdsc.e820_num = 0 /\ gmdsc.e820_available_size = 0
       /\ pc = "parsed" => Maps(info) = {}
    \/ /\ pc = "parsed"
       /\ \E o \in Maps(info) : /\ \A m \in Maps(info) : m <= o
                                /\ Holds(info[o].entries)

IInv == Typing /\ Walking /\ Copying /\ Parsed

-----------------------------------------------------------------------------
(* Tags and entries.                                                       *)

\* What LaidOut says of the tag at an offset.
LEMMA TagFacts ==
  ASSUME info \in Infos, NEW o \in DOMAIN info
  PROVE  /\ o \in Nat /\ o >= TAG_ALIGN /\ TAG_ALIGN \in DOMAIN info
         /\ info[o].size \in Nat /\ info[o].type \in {"mmap", "other", "end"}
         /\ info[o].type = "end" => \A p \in DOMAIN info : p <= o
         /\ info[o].type # "end" =>
              /\ Next8(o, info[o].size) \in DOMAIN info
              /\ \A p \in DOMAIN info : p > o => p >= Next8(o, info[o].size)
BY InfosAssumption DEF LaidOut, Next8

\* What it says of a memory map.
LEMMA MapFacts ==
  ASSUME info \in Infos, NEW o \in Maps(info)
  PROVE  /\ o \in DOMAIN info /\ info[o].type = "mmap" /\ info[o].entry_size \in Nat
         /\ info[o].entry_size >= 1 /\ info[o].entries \in Seq(Entries)
         /\ info[o].size = MmapHeader + info[o].entry_size * Len(info[o].entries)
         /\ Len(info[o].entries) <= MaxSlots
BY InfosAssumption DEF LaidOut, Maps

\* The next tag lies behind the tag.
LEMMA NextIsBehind ==
  ASSUME info \in Infos, NEW o \in DOMAIN info PROVE Next8(o, info[o].size) > o
<1>1. info[o].size \in Nat /\ info[o].size >= 8 /\ o \in Nat
  BY InfosAssumption DEF LaidOut
<1>2. QED
  BY <1>1 DEF Next8, RoundUp

\* The i-th entry lies in the tag if and only if the map has that many.
LEMMA EntryFacts ==
  ASSUME IInv, pc = "copy"
  PROVE  /\ InMap <=> i < Len(Tag.entries)
         /\ (entry - tag - MmapHeader) % Tag.entry_size = 0
         /\ i = (entry - tag - MmapHeader) \div Tag.entry_size
         /\ i < Len(Tag.entries) => Entry = Tag.entries[i + 1]
<1> DEFINE s == Tag.entry_size
           n == Len(Tag.entries)
<1>1. /\ tag \in Nat /\ s \in Nat /\ s >= 1 /\ n \in Nat /\ i \in 0 .. n
      /\ Tag.size = MmapHeader + s * n
      /\ entry = tag + MmapHeader + i * s
  <2>1. tag \in DOMAIN info /\ tag \in Maps(info) /\ info \in Infos
    BY DEF IInv, Typing, Copying, Maps, Tag
  <2>2. tag \in Nat /\ s \in Nat /\ s >= 1 /\ n \in Nat /\ Tag.size = MmapHeader + s * n
    BY <2>1, TagFacts, MapFacts DEF Tag
  <2>3. QED
    BY <2>2 DEF IInv, Copying
<1> HIDE DEF s, n
<1>2. i * s \in Int /\ entry - tag - MmapHeader = i * s
  BY <1>1 DEF MmapHeader
<1>3. (i * s) % s = 0 /\ (i * s) \div s = i
  <2>1. (i * s) \div s = i
    BY <1>1
  <2>2. (i * s) % s = 0
    BY <1>1
  <2>3. QED
    BY <2>1, <2>2
<1>4. InMap <=> i * s < n * s
  BY <1>1, <1>2 DEF InMap, MmapHeader
<1>5. i * s < n * s <=> i < n
  <2>1. n - i \in Nat /\ (n - i) * s = n * s - i * s
    BY <1>1
  <2>2. n - i >= 1 => (n - i) * s >= 1
    BY <1>1
  <2>3. n - i = 0 => (n - i) * s = 0
    BY <1>1
  <2>4. n * s \in Int /\ i * s \in Int
    BY <1>1
  <2>5. QED
    BY <1>1, <2>1, <2>2, <2>3, <2>4
<1>6. QED
  BY <1>2, <1>3, <1>4, <1>5 DEF Entry, s, n

\* One more entry is one more slot to count, if it is available.
LEMMA OneMore ==
  ASSUME NEW map, NEW n \in Nat
  PROVE  /\ Cardinality(AvailableIn(map, 0)) = 0
         /\ Cardinality(AvailableIn(map, n)) \in Nat
         /\ Cardinality(AvailableIn(map, n + 1)) =
              IF map[n + 1] \in Available THEN Cardinality(AvailableIn(map, n)) + 1
                                          ELSE Cardinality(AvailableIn(map, n))
<1>1. AvailableIn(map, 0) = {}
  BY DEF AvailableIn
<1>2. IsFiniteSet(AvailableIn(map, n))
  <2>1. AvailableIn(map, n) \subseteq 0 .. n - 1
    BY DEF AvailableIn
  <2>2. IsFiniteSet(0 .. n - 1)
    BY FS_Interval
  <2>3. QED
    BY <2>1, <2>2, FS_Subset
<1>3. n \notin AvailableIn(map, n)
  BY DEF AvailableIn
<1>4. CASE map[n + 1] \in Available
  <2>1. AvailableIn(map, n + 1) = AvailableIn(map, n) \cup {n}
    BY <1>4 DEF AvailableIn
  <2>2. Cardinality(AvailableIn(map, n + 1)) = Cardinality(AvailableIn(map, n)) + 1
    BY <1>2, <1>3, <2>1, FS_AddElement
  <2>3. Cardinality(AvailableIn(map, 0)) = 0
    BY <1>1, FS_EmptySet
  <2>4. Cardinality(AvailableIn(map, n)) \in Nat
    BY <1>2, FS_CardinalityType
  <2>5. QED
    BY <1>4, <2>2, <2>3, <2>4
<1>5. CASE map[n + 1] \notin Available
  <2>1. AvailableIn(map, n + 1) = AvailableIn(map, n)
    BY <1>5 DEF AvailableIn
  <2>2. QED
    BY <1>1, <1>2, <1>5, <2>1, FS_EmptySet, FS_CardinalityType
<1>6. QED
  BY <1>4, <1>5

-----------------------------------------------------------------------------
(* The steps.                                                              *)

\* gmdsc is empty at first.
LEMMA InitIInv == Init => IInv
<1> SUFFICES ASSUME Init PROVE IInv
  OBVIOUS
<1>1. [k \in 0 .. MaxSlots |-> Blank] \in Slots
  BY DEF Slots
<1>2. QED
  BY <1>1 DEF Init, IInv, Typing, Walking, Copying, Parsed

\* What a tag other than the end is followed by: no map lies in between.
LEMMA NoneBetween ==
  ASSUME info \in Infos, NEW o \in DOMAIN info, info[o].type # "end",
         NEW m \in Maps(info)
  PROVE  m < Next8(o, info[o].size) <=> m <= o
<1>1. /\ o \in Nat /\ m \in Nat /\ m \in DOMAIN info /\ info[o].size \in Nat
      /\ m > o => m >= Next8(o, info[o].size)
  BY TagFacts DEF Maps
<1>2. Next8(o, info[o].size) > o /\ Next8(o, info[o].size) \in Nat
  BY <1>1, NextIsBehind, TagFacts
<1>3. QED
  BY <1>1, <1>2

\* The walk starts with nothing behind it.
LEMMA ParseStep == ASSUME IInv, parse_sys_info PROVE IInv'
<1>1. /\ pc = "start" /\ pc' = "walk" /\ tag' = TAG_ALIGN
      /\ UNCHANGED <<info, gmdsc>> /\ info \in Infos
  BY DEF parse_sys_info, boot, IInv, Typing
<1>2. TAG_ALIGN \in DOMAIN info /\ \A m \in Maps(info) : m >= TAG_ALIGN
  BY <1>1, InfosAssumption DEF LaidOut, Maps
<1>3. gmdsc.e820_num = 0 /\ gmdsc.e820_available_size = 0
  BY <1>1 DEF IInv, Parsed
<1>4. HoldsUpTo(tag)'
  BY <1>1, <1>2, <1>3 DEF HoldsUpTo, Maps
<1>5. QED
  BY <1>1, <1>2, <1>4 DEF IInv, Typing, Walking, Copying, Parsed

\* A tag that is skipped is no map.
LEMMA SkipStep == ASSUME IInv, SkipTag PROVE IInv'
<1>1. /\ pc = "walk" /\ pc' = "walk" /\ info[tag].type = "other"
      /\ tag' = Next8(tag, info[tag].size)
      /\ UNCHANGED <<info, gmdsc>> /\ info \in Infos /\ tag \in DOMAIN info
  BY DEF SkipTag, boot, IInv, Typing, Tag
<1>2. tag' \in DOMAIN info
  BY <1>1, TagFacts
<1>3. \A m \in Maps(info) : m < tag' <=> m < tag
  <2> SUFFICES ASSUME NEW m \in Maps(info) PROVE m < tag' <=> m < tag
    OBVIOUS
  <2>1. m < tag' <=> m <= tag
    BY <1>1, NoneBetween
  <2>2. m # tag /\ m \in Nat /\ tag \in Nat
    BY <1>1, TagFacts DEF Maps
  <2>3. QED
    BY <2>1, <2>2
<1>4. \A m \in Maps(info) : m >= tag' <=> m >= tag
  <2>1. tag \in Nat /\ tag' \in Nat /\ \A m \in Maps(info) : m \in Nat
    BY <1>1, <1>2, TagFacts DEF Maps
  <2>2. QED
    BY <1>3, <2>1
<1>5. HoldsUpTo(tag)'
  <2>1. HoldsUpTo(tag)
    BY <1>1 DEF IInv, Walking
  <2>2. CASE \E o \in Maps(info) : IsLast(o, tag) /\ Holds(info[o].entries)
    <3>1. PICK o \in Maps(info) : IsLast(o, tag) /\ Holds(info[o].entries)
      BY <2>2
    <3>2. IsLast(o, tag)' /\ o \in Maps(info)'
      BY <1>1, <1>3, <3>1 DEF IsLast, Maps
    <3>3. Holds(info[o].entries)'
      BY <1>1, <3>1 DEF Holds
    <3>4. QED
      BY <3>2, <3>3 DEF HoldsUpTo
  <2>3. CASE /\ \A m \in Maps(info) : m >= tag
             /\ gmdsc.e820_num = 0 /\ gmdsc.e820_available_size = 0
    BY <1>1, <1>4, <2>3 DEF HoldsUpTo, Maps
  <2>4. QED
    BY <2>1, <2>2, <2>3 DEF HoldsUpTo
<1>6. QED
  BY <1>1, <1>2, <1>5 DEF IInv, Typing, Walking, Copying, Parsed

\* _init_memory starts with no entry.
LEMMA EnterStep == ASSUME IInv, EnterMap PROVE IInv'
<1>1. /\ pc = "walk" /\ pc' = "copy" /\ info[tag].type = "mmap" /\ tag' = tag
      /\ entry' = tag + MmapHeader /\ i' = 0 /\ available_size' = 0
      /\ UNCHANGED <<info, gmdsc>> /\ info \in Infos /\ tag \in DOMAIN info
  BY DEF EnterMap, boot, IInv, Typing, Tag
<1>2. Tag' = info[tag]
  BY <1>1 DEF Tag
<1>3. Len(info[tag].entries) \in Nat /\ info[tag].entry_size \in Nat /\ tag \in Nat
  BY <1>1, MapFacts, TagFacts DEF Maps
<1>4. Cardinality(AvailableIn(info[tag].entries, 0)) = 0
  BY OneMore
<1>5. Copying'
  BY <1>1, <1>2, <1>3, <1>4 DEF Copying, MmapHeader, AvailableIn
<1>6. QED
  BY <1>1, <1>5 DEF IInv, Typing, Walking, Parsed

\* An entry is copied into the next slot and counted.
LEMMA CopyStep == ASSUME IInv, CopyEntry PROVE IInv'
<1>1. /\ pc = "copy" /\ pc' = "copy" /\ tag' = tag /\ info' = info
      /\ info \in Infos /\ tag \in DOMAIN info /\ InMap
      /\ gmdsc' = [gmdsc EXCEPT !.e820[i] = Entry]
      /\ available_size' = IF Entry \in Available THEN available_size + 1
                                                  ELSE available_size
      /\ i' = i + 1 /\ entry' = entry + Tag.entry_size
  BY DEF CopyEntry, boot, IInv, Typing, IsAvailable
<1> DEFINE map == Tag.entries
<1>2. /\ Tag.type = "mmap" /\ i \in 0 .. Len(map) /\ entry = tag + MmapHeader + i * Tag.entry_size
      /\ \A k \in 0 .. i - 1 : gmdsc.e820[k] = map[k + 1]
      /\ available_size = Cardinality(AvailableIn(map, i))
  BY <1>1 DEF IInv, Copying
<1>3. /\ map \in Seq(Entries) /\ Len(map) <= MaxSlots /\ tag \in Nat
      /\ Tag.entry_size \in Nat
  BY <1>1, <1>2, MapFacts, TagFacts DEF Tag, Maps
<1>4. i \in Nat /\ i < Len(map) /\ Len(map) \in Nat /\ Entry = map[i + 1]
  BY <1>1, <1>2, <1>3, EntryFacts
<1>5. i \in 0 .. MaxSlots /\ Entry \in Entries
  BY <1>3, <1>4, E820Assumption DEF MaxSlots
<1>6. Tag' = Tag
  BY <1>1 DEF Tag
<1> HIDE DEF map
<1>7. /\ gmdsc.e820 \in Slots /\ gmdsc.e820_num \in Nat
      /\ gmdsc.e820_available_size \in Nat
      /\ gmdsc = [e820 |-> gmdsc.e820, e820_num |-> gmdsc.e820_num,
                  e820_available_size |-> gmdsc.e820_available_size]
  BY DEF IInv, Typing
<1>8. /\ gmdsc' = [e820 |-> [gmdsc.e820 EXCEPT ![i] = Entry],
                   e820_num |-> gmdsc.e820_num,
                   e820_available_size |-> gmdsc.e820_available_size]
  BY <1>1, <1>7
<1>9. [gmdsc.e820 EXCEPT ![i] = Entry] \in Slots
  BY <1>5, <1>7 DEF Slots
<1>10. gmdsc' \in [e820 : Slots, e820_num : Nat, e820_available_size : Nat]
  BY <1>7, <1>8, <1>9
<1>11. \A k \in 0 .. i : gmdsc'.e820[k] = map[k + 1]
  <2>1. gmdsc'.e820 = [gmdsc.e820 EXCEPT ![i] = Entry] /\ DOMAIN gmdsc.e820 = 0 .. MaxSlots
    BY <1>7, <1>8 DEF Slots
  <2>2. \A k \in 0 .. i : k \in 0 .. MaxSlots /\ (k = i \/ k \in 0 .. i - 1)
    BY <1>4, <1>5, E820Assumption DEF MaxSlots
  <2>3. QED
    BY <1>2, <1>4, <1>5, <2>1, <2>2 DEF map
<1>12. available_size' = Cardinality(AvailableIn(map, i + 1))
  BY <1>1, <1>2, <1>4, OneMore DEF map
<1>13. entry' = tag + MmapHeader + (i + 1) * Tag.entry_size
  <2>1. (i + 1) * Tag.entry_size = i * Tag.entry_size + Tag.entry_size
    BY <1>3, <1>4
  <2>2. i * Tag.entry_size \in Int
    BY <1>3, <1>4
  <2>3. QED
    BY <1>1, <1>2, <1>3, <2>1, <2>2 DEF MmapHeader
<1>14. Copying'
  <2>1. i' \in 0 .. Len(map) /\ i' - 1 = i
    BY <1>1, <1>4
  <2>2. Tag'.entries = map /\ Tag'.type = "mmap" /\ Tag'.entry_size = Tag.entry_size
    BY <1>2, <1>6 DEF map
  <2>3. QED
    BY <1>1, <1>11, <1>12, <1>13, <2>1, <2>2 DEF Copying, AvailableIn
<1>15. QED
  BY <1>1, <1>10, <1>14 DEF IInv, Typing, Walking, Parsed

\* The map is in gmdsc when _init_memory returns.
LEMMA LeaveStep == ASSUME IInv, LeaveMap PROVE IInv'
<1>1. /\ pc = "copy" /\ pc' = "walk" /\ tag' = Next8(tag, Tag.size) /\ info' = info
      /\ info \in Infos /\ tag \in DOMAIN info /\ ~InMap
      /\ gmdsc' = Closed(gmdsc.e820, i, available_size)
  BY DEF LeaveMap, boot, IInv, Typing
<1> DEFINE map == Tag.entries
<1>2. /\ Tag.type = "mmap" /\ i \in 0 .. Len(map)
      /\ \A k \in 0 .. i - 1 : gmdsc.e820[k] = map[k + 1]
      /\ available_size = Cardinality(AvailableIn(map, i))
  BY <1>1 DEF IInv, Copying
<1>3. /\ tag \in Maps(info) /\ map \in Seq(Entries) /\ Len(map) <= MaxSlots
      /\ info[tag].type # "end" /\ tag \in Nat
  BY <1>1, <1>2, MapFacts, TagFacts DEF Tag, Maps
<1>4. i = Len(map) /\ i \in Nat /\ MaxE820 \in Nat
  BY <1>1, <1>2, <1>3, EntryFacts, E820Assumption
<1>5. tag' \in DOMAIN info /\ tag' > tag
  BY <1>1, <1>3, TagFacts, NextIsBehind DEF Tag
<1>6. gmdsc.e820 \in Slots /\ available_size \in Nat
  BY <1>2, <1>4, OneMore DEF IInv, Typing
<1> HIDE DEF map
<1> DEFINE e820 == IF i > MaxE820 THEN [gmdsc.e820 EXCEPT ![MaxE820] = Counters]
                                  ELSE gmdsc.e820
<1>7. gmdsc' = [e820 |-> e820, e820_num |-> i, e820_available_size |-> available_size]
  BY <1>1 DEF Closed
<1>8. e820 \in Slots
  BY <1>6 DEF Slots
<1>9. \A k \in 0 .. i - 1 : IF k = MaxE820 THEN e820[k] = Counters
                                             ELSE e820[k] = map[k + 1]
  <2> SUFFICES ASSUME NEW k \in 0 .. i - 1
               PROVE  IF k = MaxE820 THEN e820[k] = Counters ELSE e820[k] = map[k + 1]
    OBVIOUS
  <2>1. DOMAIN gmdsc.e820 = 0 .. MaxSlots /\ k \in 0 .. MaxSlots
    BY <1>3, <1>4, <1>6, E820Assumption DEF Slots, MaxSlots, map
  <2>2. gmdsc.e820[k] = map[k + 1]
    BY <1>2 DEF map
  <2>3. k = MaxE820 => i > MaxE820
    BY <1>4
  <2>4. QED
    BY <2>1, <2>2, <2>3
<1> HIDE DEF e820
<1>10. /\ gmdsc'.e820 = e820 /\ gmdsc'.e820_num = i
       /\ gmdsc'.e820_available_size = available_size
       /\ gmdsc' \in [e820 : Slots, e820_num : Nat, e820_available_size : Nat]
  BY <1>4, <1>6, <1>7, <1>8
<1>11. PICK o : o = tag
  OBVIOUS
<1>12. Holds(info[o].entries)'
  <2>1. PICK c : c = map
    OBVIOUS
  <2>2. Holds(c)'
    BY <1>2, <1>4, <1>9, <1>10, <2>1 DEF Holds, AvailableIn, map
  <2>3. c = info'[o].entries
    BY <1>1, <1>11, <2>1 DEF map, Tag
  <2>4. QED
    BY <2>2, <2>3
<1>13. IsLast(o, tag)' /\ o \in Maps(info)'
  <2>1. \A m \in Maps(info) : m < tag' => m <= o
    BY <1>1, <1>3, <1>11, NoneBetween DEF Tag
  <2>2. QED
    BY <1>1, <1>3, <1>5, <1>11, <2>1 DEF IsLast, Maps
<1>14. HoldsUpTo(tag)'
  BY <1>12, <1>13 DEF HoldsUpTo
<1>15. QED
  BY <1>1, <1>5, <1>10, <1>14 DEF IInv, Typing, Walking, Copying, Parsed

\* No map lies behind the end tag.
LEMMA EndStep == ASSUME IInv, EndTag PROVE IInv'
<1>1. /\ pc = "walk" /\ pc' = "parsed" /\ info[tag].type = "end" /\ tag' = tag
      /\ UNCHANGED <<info, gmdsc>> /\ info \in Infos /\ tag \in DOMAIN info
  BY DEF EndTag, boot, IInv, Typing, Tag
<1>2. \A m \in Maps(info) : m \in Nat /\ tag \in Nat /\ m < tag
  <2> SUFFICES ASSUME NEW m \in Maps(info) PROVE m \in Nat /\ tag \in Nat /\ m < tag
    OBVIOUS
  <2>1. m \in DOMAIN info /\ m # tag
    BY <1>1 DEF Maps
  <2>2. m \in Nat /\ tag \in Nat /\ m <= tag
    BY <1>1, <2>1, TagFacts
  <2>3. QED
    BY <2>1, <2>2
<1>3. HoldsUpTo(tag)
  BY <1>1 DEF IInv, Walking
<1>4. Parsed'
  <2>1. CASE \E o \in Maps(info) : IsLast(o, tag) /\ Holds(info[o].entries)
    <3>1. PICK o \in Maps(info) : IsLast(o, tag) /\ Holds(info[o].entries)
      BY <2>1
    <3>2. o \in Maps(info)' /\ \A m \in Maps(info)' : m <= o
      BY <1>1, <1>2, <3>1 DEF IsLast, Maps
    <3>3. Holds(info[o].entries)'
      BY <1>1, <3>1 DEF Holds
    <3>4. QED
      BY <1>1, <3>2, <3>3 DEF Parsed
  <2>2. CASE /\ \A m \in Maps(info) : m >= tag
             /\ gmdsc.e820_num = 0 /\ gmdsc.e820_available_size = 0
    <3>1. Maps(info) = {}
      BY <1>2, <2>2
    <3>2. QED
      BY <1>1, <2>2, <3>1 DEF Parsed, Maps
  <2>3. QED
    BY <1>3, <2>1, <2>2 DEF HoldsUpTo
<1>5. QED
  BY <1>1, <1>4 DEF IInv, Typing, Walking, Copying

\* Every step keeps the invariant.
LEMMA Invariance == Spec => []IInv
<1>1. IInv /\ [Next]_vars => IInv'
  <2> SUFFICES ASSUME IInv, [Next]_vars PROVE IInv'
    OBVIOUS
  <2>1. CASE UNCHANGED vars
    <3>1. UNCHANGED <<pc, info, tag, entry, i, available_size, gmdsc>>
      BY <2>1 DEF vars, boot
    <3>2. Tag' = Tag /\ Maps(info)' = Maps(info)
      BY <3>1 DEF Tag, Maps
    <3>3. Typing' /\ Copying'
      BY <3>1, <3>2 DEF IInv, Typing, Copying, AvailableIn
    <3>4. Walking'
      BY <3>1, <3>2 DEF IInv, Walking, HoldsUpTo, IsLast, Holds, AvailableIn
    <3>5. Parsed'
      BY <3>1, <3>2 DEF IInv, Parsed, Holds, AvailableIn
    <3>6. QED
      BY <3>3, <3>4, <3>5 DEF IInv
  <2>2. CASE Refuse
    BY <2>2 DEF Refuse, boot, IInv, Typing, Walking, Copying, Parsed
  <2>3. QED
    BY <2>1, <2>2, ParseStep, SkipStep, EnterStep, CopyStep, LeaveStep, EndStep
       DEF Next, Halted
<1>2. QED
  BY <1>1, InitIInv, PTL DEF Spec

-----------------------------------------------------------------------------
(* The theorems.                                                           *)

\* parse_sys_info steps from tag to tag and _init_memory from entry to entry,
\* whatever the sizes.
THEOREM TagsAndEntriesRead == Spec => []ReadsTagsAndEntries
<1>1. ASSUME IInv PROVE ReadsTagsAndEntries
  <2>1. pc \in {"walk", "copy"} => tag \in DOMAIN info
    BY <1>1 DEF IInv, Typing
  <2>2. pc = "copy" => i <= Len(Tag.entries)
    BY <1>1 DEF IInv, Copying
  <2>3. QED
    BY <1>1, <2>1, <2>2, EntryFacts DEF ReadsTagsAndEntries
<1>2. QED
  BY <1>1, Invariance, PTL

\* A map in the information block has a last one.
LEMMA LastMap ==
  ASSUME info \in Infos, NEW o \in Maps(info), \A m \in Maps(info) : m <= o
  PROVE  MapOf(info) = info[o].entries
<1>1. \A m \in Maps(info) : m \in Nat
  BY TagFacts DEF Maps
<1> DEFINE last == CHOOSE k \in Maps(info) : \A m \in Maps(info) : m <= k
<1>2. last \in Maps(info) /\ \A m \in Maps(info) : m <= last
  OBVIOUS
<1>3. last = o
  <2> HIDE DEF last
  <2>1. last <= o /\ o <= last /\ last \in Nat /\ o \in Nat
    BY <1>1, <1>2
  <2>2. QED
    BY <2>1
<1>4. QED
  BY <1>3 DEF MapOf

\* init_memory finds the last map of the block, as far as the array reaches.
THEOREM MapIsCopied == Spec => []MapCopied
<1>1. ASSUME IInv, pc = "parsed", Maps(info) # {}
      PROVE  /\ gmdsc.e820_num = Len(MapOf(info))
             /\ \A k \in 0 .. gmdsc.e820_num - 1 :
                  k < MaxE820 => gmdsc.e820[k] = MapOf(info)[k + 1]
  <2>1. PICK o \in Maps(info) : /\ \A m \in Maps(info) : m <= o
                                /\ Holds(info[o].entries)
    BY <1>1 DEF IInv, Parsed
  <2>2. MapOf(info) = info[o].entries
    BY <1>1, <2>1, LastMap DEF IInv, Typing
  <2>3. \A k \in 0 .. Len(info[o].entries) - 1 : k < MaxE820 => k # MaxE820
    BY E820Assumption
  <2>4. QED
    BY <2>1, <2>2, <2>3 DEF Holds
<1>2. QED
  BY <1>1, Invariance, PTL DEF MapCopied

\* There is a zone for every available entry that construct_mem_struct sees,
\* and no more unless the map is longer than the array.
THEOREM ZonesAreEnough == Spec => []ZonesSuffice
<1> DEFINE filled == {k \in 0 .. gmdsc.e820_num - 1 : gmdsc.e820[k] \in Available}
<1>1. ASSUME IInv, pc = "parsed"
      PROVE  /\ Cardinality(filled) <= gmdsc.e820_available_size
             /\ gmdsc.e820_num <= MaxE820 =>
                  Cardinality(filled) = gmdsc.e820_available_size
  <2>1. CASE gmdsc.e820_num = 0 /\ gmdsc.e820_available_size = 0
    <3>1. filled = {}
      BY <2>1
    <3>2. QED
      BY <2>1, <3>1, FS_EmptySet
  <2>2. CASE \E o \in Maps(info) : Holds(info[o].entries)
    <3>1. PICK o \in Maps(info) : Holds(info[o].entries)
      BY <2>2
    <3> DEFINE map == info[o].entries
               all == AvailableIn(map, Len(map))
    <3>2. Len(map) \in Nat
      BY <1>1, MapFacts DEF IInv, Typing
    <3>3. filled \subseteq all
      BY <3>1, E820Assumption DEF Holds, AvailableIn
    <3>4. gmdsc.e820_num <= MaxE820 => filled = all
      <4>1. ASSUME gmdsc.e820_num <= MaxE820 PROVE filled = all
        <5>1. \A k \in 0 .. Len(map) - 1 : k # MaxE820
          BY <3>1, <3>2, <4>1, E820Assumption DEF Holds
        <5>2. QED
          BY <3>1, <5>1 DEF Holds, AvailableIn
      <4>2. QED
        BY <4>1
    <3>5. IsFiniteSet(all)
      <4>1. IsFiniteSet(0 .. Len(map) - 1)
        BY <3>2, FS_Interval
      <4>2. all \subseteq 0 .. Len(map) - 1
        BY DEF AvailableIn
      <4>3. QED
        BY <4>1, <4>2, FS_Subset
    <3>6. Cardinality(filled) <= Cardinality(all)
      BY <3>3, <3>5, FS_Subset
    <3>7. gmdsc.e820_available_size = Cardinality(all)
      BY <3>1 DEF Holds
    <3>8. QED
      BY <3>4, <3>6, <3>7
  <2>3. QED
    BY <1>1, <2>1, <2>2 DEF IInv, Parsed
<1>2. IInv => ZonesSuffice
  BY <1>1 DEF ZonesSuffice
<1>3. QED
  BY <1>2, Invariance, PTL
=============================================================================
