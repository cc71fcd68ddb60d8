------------------------------ MODULE BootInfo ------------------------------
(***************************************************************************)
(* kernel_start of HelloOS up to the memory manager (kernel/kernel.c): the *)
(* check of what the boot loader left, parse_sys_info's walk over the      *)
(* multiboot2 tags and _init_memory's copy of the memory map into          *)
(* gmdsc.e820, one entry at a time.                                        *)
(*                                                                         *)
(* Positions are byte offsets into the information block, which is the     *)
(* function from the offsets at which a tag begins to the tags.  A map     *)
(* entry is a model value; which of them are available is a constant.      *)
(* e820 reaches past its MaxE820 slots: the fields of gmdsc that follow it *)
(* in memory are written as if they were entries, and the first of them    *)
(* holds the two counters that _init_memory stores last.  As an entry they *)
(* make less than a page, which is not available.                          *)
(***************************************************************************)
EXTENDS Integers, Sequences, FiniteSets

CONSTANTS
  Infos,      \* what the boot loader may hand over: tags by offset
  Entries,    \* memory-map entries
  Available,  \* those of type E820_TYPE_AVAILABLE
  MaxE820,    \* slots of gmdsc.e820 (32)
  Blank,      \* what e820 holds at first
  Counters    \* what the two counters look like as an entry

TAG_ALIGN == 8                      \* MULTIBOOT_TAG_ALIGN
MmapHeader == 16                    \* offset of entries in multiboot_tag_mmap

\* a tag of the type MMAP; any other tag only has a size
Mmap(entry_size, entries) ==
  [type |-> "mmap", size |-> MmapHeader + entry_size * Len(entries),
   entry_size |-> entry_size, entries |-> entries]
Other(size) ==
  [type |-> "other", size |-> size, entry_size |-> 0, entries |-> <<>>]
End == [type |-> "end", size |-> 8, entry_size |-> 0, entries |-> <<>>]

\* (size + 7) & ~7
RoundUp(size) == ((size + 7) \div 8) * 8

\* bound: how far a map may reach over the memory behind e820
MaxSlots == 2 * MaxE820

\* The loader puts the first tag at TAG_ALIGN and every other one at the next
\* multiple of 8 behind the one before it; the end tag comes last.
LaidOut(tags) ==
  /\ TAG_ALIGN \in DOMAIN tags /\ \A o \in DOMAIN tags : o \in Nat /\ o >= TAG_ALIGN
  /\ \A o \in DOMAIN tags :
       /\ tags[o].type \in {"mmap", "other", "end"}
       /\ tags[o].size \in Nat /\ tags[o].size >= 8
       /\ tags[o].type = "end" => \A p \in DOMAIN tags : p <= o
       /\ tags[o].type # "end" =>
            /\ o + RoundUp(tags[o].size) \in DOMAIN tags
            /\ \A p \in DOMAIN tags : p > o => p >= o + RoundUp(tags[o].size)
       /\ tags[o].type = "mmap" =>
            /\ tags[o].entry_size \in Nat \ {0} /\ tags[o].entries \in Seq(Entries)
            /\ tags[o].size = MmapHeader + tags[o].entry_size * Len(tags[o].entries)
            /\ Len(tags[o].entries) <= MaxSlots

ASSUME InfosAssumption == \A tags \in Infos : LaidOut(tags)
ASSUME E820Assumption ==
  MaxE820 \in Nat \ {0} /\ Available \subseteq Entries /\ Counters \notin Available

VARIABLES
  pc,     \* where kernel_start is
  mb2_magic, mb2_info,  \* what the loader left in the two registers
  info,   \* the tags in memory
  tag,    \* offset of the tag the walk is at
  entry,  \* offset of the map entry to copy
  i,      \* slot it goes to
  available_size,   \* local counter of _init_memory
  gmdsc   \* e820, e820_num, e820_available_size

boot == <<mb2_magic, mb2_info, info>>
vars == <<pc, boot, tag, entry, i, available_size, gmdsc>>

Tag == info[tag]

\* the map entry at an offset of the current tag
Entry == Tag.entries[(entry - tag - MmapHeader) \div Tag.entry_size + 1]

Init ==
  /\ pc = "start" /\ info \in Infos
  /\ mb2_magic \in {"multiboot2", "other"} /\ mb2_info \in {8, 12}
  /\ tag = 0 /\ entry = 0 /\ i = 0 /\ available_size = 0
  /\ gmdsc = [e820 |-> [k \in 0 .. MaxSlots |-> Blank],
              e820_num |-> 0, e820_available_size |-> 0]

Refused == mb2_magic # "multiboot2" \/ mb2_info % 8 # 0

\* return -1, to nobody: the boot code left no return address
Refuse ==
  /\ pc = "start" /\ Refused /\ pc' = "returned"
  /\ UNCHANGED <<boot, tag, entry, i, available_size, gmdsc>>

\* clear_screen, load_TR, and the first tag
parse_sys_info ==
  /\ pc = "start" /\ ~Refused /\ pc' = "walk"
  /\ tag' = TAG_ALIGN
  /\ UNCHANGED <<boot, entry, i, available_size, gmdsc>>

\* Faulty variant of Next8: the size is added as it is.
Next8_Raw(offset, size) == offset + size
\* the next tag begins at the next multiple of 8
Next8(offset, size) == offset + RoundUp(size)

SkipTag ==
  /\ pc = "walk" /\ Tag.type = "other"
  /\ tag' = Next8(tag, Tag.size)
  /\ UNCHANGED <<pc, boot, entry, i, available_size, gmdsc>>

\* _init_memory is called
EnterMap ==
  /\ pc = "walk" /\ Tag.type = "mmap" /\ pc' = "copy"
  /\ entry' = tag + MmapHeader /\ i' = 0 /\ available_size' = 0
  /\ UNCHANGED <<boot, tag, gmdsc>>

\* (uint8_t*)entry < (uint8_t*)mmap + mmap->size
InMap == entry < tag + Tag.size

\* Faulty variant of IsAvailable: entries of any type are counted.
IsAvailable_Any(e) == e \in Entries
\* type == E820_TYPE_AVAILABLE
IsAvailable(e) == e \in Available

CopyEntry ==
  /\ pc = "copy" /\ InMap
  /\ gmdsc' = [gmdsc EXCEPT !.e820[i] = Entry]
  /\ available_size' = IF IsAvailable(Entry) THEN available_size + 1
                                             ELSE available_size
  /\ i' = i + 1 /\ entry' = entry + Tag.entry_size
  /\ UNCHANGED <<pc, boot, tag>>

\* Faulty variant of Closed: e820_num is the last index.
Closed_Last(e820, num, available) ==
  [e820 |-> e820, e820_num |-> num - 1, e820_available_size |-> available]
\* the two counters lie right behind the array
Closed(e820, num, available) ==
  [e820 |-> IF num > MaxE820 THEN [e820 EXCEPT ![MaxE820] = Counters] ELSE e820,
   e820_num |-> num, e820_available_size |-> available]

LeaveMap ==
  /\ pc = "copy" /\ ~InMap /\ pc' = "walk"
  /\ gmdsc' = Closed(gmdsc.e820, i, available_size)
  /\ tag' = Next8(tag, Tag.size)
  /\ UNCHANGED <<boot, entry, i, available_size>>

\* the end tag: init_memory is next
EndTag ==
  /\ pc = "walk" /\ Tag.type = "end" /\ pc' = "parsed"
  /\ UNCHANGED <<boot, tag, entry, i, available_size, gmdsc>>

Halted == pc \in {"returned", "parsed"} /\ UNCHANGED vars

Next == Refuse \/ parse_sys_info \/ SkipTag \/ EnterMap \/ CopyEntry
        \/ LeaveMap \/ EndTag \/ Halted

Spec == Init /\ [][Next]_vars

-----------------------------------------------------------------------------
(* Properties.                                                             *)

\* The walk only ever looks at the beginning of a tag, whatever the sizes of
\* the tags in front of it, and the copy at the beginning of an entry that
\* lies inside its tag.
ReadsTagsAndEntries ==
  /\ pc \in {"walk", "copy"} => tag \in DOMAIN info
  /\ pc = "copy" => /\ (entry - tag - MmapHeader) % Tag.entry_size = 0
                    /\ i = (entry - tag - MmapHeader) \div Tag.entry_size
                    /\ i <= Len(Tag.entries)

\* the memory map of an information block
Maps(tags) == {k \in DOMAIN tags : tags[k].type = "mmap"}
MapOf(tags) == tags[CHOOSE k \in Maps(tags) : \A m \in Maps(tags) : m <= k].entries

\* What init_memory finds is the boot loader's map, entry for entry, up to a
\* map that fills the array; the last slot in use is the last entry, from which
\* init_memory takes the size of memory.  Nothing stops a longer map: its
\* entries go over the fields behind the array, those inside it stay right.
MapCopied ==
  pc = "parsed" /\ Maps(info) # {} =>
    /\ gmdsc.e820_num = Len(MapOf(info))
    /\ \A k \in 0 .. gmdsc.e820_num - 1 :
         k < MaxE820 => gmdsc.e820[k] = MapOf(info)[k + 1]

\* zones_struct has e820_available_size elements and construct_mem_struct
\* fills one for every available entry among the first e820_num: they are
\* enough, and all of them are used unless the map is longer than the array.
\* The slots are taken as the copy leaves them: what init_memory stores in the
\* fields behind the array before it reads them is not part of this.
ZonesSuffice ==
  pc = "parsed" =>
    LET filled == {k \in 0 .. gmdsc.e820_num - 1 : gmdsc.e820[k] \in Available}
    IN  /\ Cardinality(filled) <= gmdsc.e820_available_size
        /\ gmdsc.e820_num <= MaxE820 =>
             Cardinality(filled) = gmdsc.e820_available_size
=============================================================================
