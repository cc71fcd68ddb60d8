------------------------------ MODULE PageAlloc ------------------------------
(***************************************************************************)
(* The physical page manager of HelloOS: init_memory and page_init of      *)
(* mm/mm.c and alloc_pages of mm/alloc.c.                                  *)
(*                                                                         *)
(* A bitmap (page_bits, one bit per 4K frame, 1 = not available), an array *)
(* of page descriptors (pages_struct) and an array of zones (zones_struct, *)
(* one per usable E820 range) are laid out in memory behind the kernel     *)
(* image.  Pages are allocated in runs; the kernel never frees one.        *)
(*                                                                         *)
(* Abstractions.  Addresses the code shifts right by PAGE_4K_SHIFT are     *)
(* page numbers here.  The bitmap is the set of the indexes of its 1 bits; *)
(* the word that follows it in memory, which alloc_pages also reads and    *)
(* nobody initialises, is part of that set.  A page attribute is a set of  *)
(* PG_ names.  pages_struct has an entry at index -1: the 40 bytes in      *)
(* front of the array, which alloc_pages can reach and nobody initialises. *)
(* A null zone pointer leads to three words of low memory, kept in `low`.  *)
(* A write that leaves the bitmap and its next word, or goes through a     *)
(* zone pointer that is neither null nor a zone the code stored, may       *)
(* change anything: it is a step to "lost", and what comes after is not    *)
(* followed.  The run that finds free bits is one step, every page_init    *)
(* that follows is one step.                                               *)
(***************************************************************************)
EXTENDS Integers, Sequences, FiniteSets

CONSTANTS
  PageSize,    \* bytes in a page (4096)
  ByteBits,    \* bits in a byte (8)
  SizeofWord,  \* sizeof(uint_t) (8)
  SizeofPage,  \* sizeof(mm_page_t) (40)
  SizeofZone,  \* sizeof(mm_zone_t) (72)
  BootInfos,   \* what the boot loader may hand over: E820 map, kernel bounds
  AllocFlags,  \* the attribute sets alloc_pages is called with
  Strays,      \* what the memory in front of pages_struct may hold
  GapWords,    \* what the word behind the bitmap may hold (sets of 1 bits)
  MaxAllocs    \* bound: successful allocations in a behaviour

VARIABLES
  pc,            \* where the memory manager is
  boot,          \* the boot information
  page_bits,     \* gmdsc.page_bits
  pages_struct,  \* gmdsc.pages_struct
  zones_struct,  \* gmdsc.zones_struct
  low,           \* what was counted at a null zone's addresses, 48 to 71
  idx,           \* i of the two loops of construct_mem_struct
  zone_idx,      \* zone_idx of construct_mem_struct
  req,           \* the run alloc_pages found and is initialising
  grants         \* history: the runs handed out, the kernel's own first

vars == <<pc, boot, page_bits, pages_struct, zones_struct, low, idx, zone_idx,
          req, grants>>

-----------------------------------------------------------------------------
(* Layout of the memory-management structures (init_memory).               *)

PG == {"PTable_Maped", "Kernel_Init", "Active", "Kernel",
       "Referenced", "K_Share_To_U"}

KernelFlags == {"PTable_Maped", "Kernel_Init", "Active", "Kernel"}

NULL == -1                          \* a null zone pointer
WILD == -2                          \* a zone pointer that nobody stored

W == ByteBits * SizeofWord          \* bits in a bitmap word (64)

PAGE_4K_ALIGN(a) == ((a + PageSize - 1) \div PageSize) * PageSize

EntryStart(e) == PAGE_4K_ALIGN(e.addr) \div PageSize

EntryEnd(e) == (e.addr + e.len) \div PageSize

Usable(e) == e.type = "available" /\ EntryStart(e) < EntryEnd(e)

\* total_mem >> PAGE_4K_SHIFT, the number of pages the structures cover
NPages(b) == EntryEnd(b.e820[Len(b.e820)])

page_bits_length(b) ==
  LET bytes == (NPages(b) + W - 1) \div ByteBits
  IN  bytes - (bytes % SizeofWord)

NBits(b) == page_bits_length(b) * ByteBits

\* e820_available_size: every available entry has a slot in zones_struct
NZones(b) ==
  Cardinality({i \in DOMAIN b.e820 : b.e820[i].type = "available"})

KernelStart(b) == b.kstart \div PageSize

\* page_bits is a uint_t*, so page_bits + page_bits_length advances by words
KernelEnd(b) ==
  LET bits  == PAGE_4K_ALIGN(b.kend)
      pages == PAGE_4K_ALIGN(bits + page_bits_length(b) * SizeofWord)
      zones == PAGE_4K_ALIGN(pages + NPages(b) * SizeofPage)
  IN  PAGE_4K_ALIGN(zones + NZones(b) * SizeofZone) \div PageSize

(* What the code takes for granted about the map: the entries are sorted,  *)
(* so none reaches past the last one; the last page is not usable memory   *)
(* (a PC map ends with the firmware's reserved range); the kernel and its  *)
(* structures lie inside the map; a zone that does not begin on a bitmap   *)
(* word begins well below the top.                                         *)
BootInfoOK(b) ==
  /\ b.e820 \in Seq([addr : Nat, len : Nat, type : {"available", "reserved"}])
  /\ Len(b.e820) > 0
  /\ NPages(b) \in Nat /\ NZones(b) \in Nat \ {0}
  /\ NBits(b) \in Nat /\ NBits(b) >= NPages(b) /\ NBits(b) % W = 0
  /\ \A i \in DOMAIN b.e820 :
       LET e == b.e820[i] IN
       Usable(e) =>
         /\ EntryStart(e) \in Nat /\ EntryEnd(e) \in Nat
         /\ EntryEnd(e) < NPages(b)
         /\ EntryStart(e) % W = 0 \/ EntryStart(e) + 2 * W < NPages(b)
  /\ KernelStart(b) \in Nat /\ KernelEnd(b) \in Nat
  /\ KernelStart(b) < KernelEnd(b)
  /\ KernelEnd(b) <= NPages(b)

ASSUME SizesAssumption == W \in Nat \ {0}
ASSUME BootAssumption == \A b \in BootInfos : BootInfoOK(b)
ASSUME FlagsAssumption == \A f \in AllocFlags : f \subseteq PG /\ f # {}
ASSUME StraysAssumption ==
  Strays \subseteq [phy : Nat, attribute : SUBSET PG, ref_count : Nat,
                    zone : {NULL, WILD}]
ASSUME GapAssumption == GapWords \subseteq SUBSET (0 .. W - 1)
ASSUME MaxAllocsAssumption == MaxAllocs \in Nat

Pages == 0 .. NPages(boot) - 1
Zones == 0 .. NZones(boot) - 1

ZeroPage == [phy |-> 0, attribute |-> {}, ref_count |-> 0, zone |-> NULL]
ZeroZone == [start |-> 0, end |-> 0, using |-> 0, free |-> 0, link |-> 0]
NoReq == [page |-> 0, n |-> 0, flags |-> {}, l |-> 0, aligned |-> TRUE]

-----------------------------------------------------------------------------
(* Boot: parse_sys_info has filled boot; the descriptors do not exist yet. *)

Init ==
  /\ pc = "boot"
  /\ boot \in BootInfos
  /\ \E gap \in GapWords :
       page_bits = {NBits(boot) + g : g \in gap}
  /\ \E s \in Strays :
       pages_struct = [x \in Pages \cup {-1} |-> IF x = -1 THEN s ELSE ZeroPage]
  /\ zones_struct = [z \in Zones |-> ZeroZone]
  /\ low = [using |-> 0, free |-> 0, link |-> 0]
  /\ idx = 0 /\ zone_idx = 0
  /\ req = NoReq
  /\ grants = <<>>

\* page_bitmap_init, pages_struct_init, zones_struct_init: the three memsets
init_memory ==
  /\ pc = "boot"
  /\ page_bits' = page_bits \cup (0 .. NBits(boot) - 1)
  /\ pages_struct' = [x \in DOMAIN pages_struct |->
                        IF x \in Pages THEN ZeroPage ELSE pages_struct[x]]
  /\ zones_struct' = [z \in Zones |-> ZeroZone]
  /\ idx' = 1
  /\ pc' = "zones"
  /\ UNCHANGED <<boot, low, zone_idx, req, grants>>

\* p->... = ... for the pages of the zone that runs from start to end
ZonePages(start, end) ==
  [x \in DOMAIN pages_struct |->
     IF x \in start .. end - 1
       THEN [phy |-> x, attribute |-> {}, ref_count |-> 0, zone |-> zone_idx]
       ELSE pages_struct[x]]

\* *(gmdsc.page_bits + ...) ^= 1UL << ...
Toggle(bits, S) == (bits \ S) \cup (S \ bits)

\* an iteration of construct_mem_struct that builds a zone
BuildZone ==
  /\ pc = "zones" /\ idx <= Len(boot.e820)
  /\ LET e == boot.e820[idx]
         start == EntryStart(e)
         end   == EntryEnd(e)
     IN  /\ Usable(e)
         /\ zones_struct' = [zones_struct EXCEPT ![zone_idx] =
              [start |-> start, end |-> end,
               using |-> 0, free |-> end - start, link |-> 0]]
         /\ pages_struct' = ZonePages(start, end)
         /\ page_bits' = Toggle(page_bits, start .. end - 1)
  /\ zone_idx' = zone_idx + 1
  /\ idx' = idx + 1
  /\ UNCHANGED <<pc, boot, low, req, grants>>

\* an iteration that skips a reserved or less-than-a-page entry
SkipEntry ==
  /\ pc = "zones" /\ idx <= Len(boot.e820)
  /\ ~Usable(boot.e820[idx])
  /\ idx' = idx + 1
  /\ UNCHANGED <<pc, boot, page_bits, pages_struct, zones_struct, low,
                 zone_idx, req, grants>>

ZonesDone ==
  /\ pc = "zones" /\ idx > Len(boot.e820)
  /\ pc' = "kernel"
  /\ idx' = KernelStart(boot)
  /\ UNCHANGED <<boot, page_bits, pages_struct, zones_struct, low, zone_idx,
                 req, grants>>

-----------------------------------------------------------------------------
(* page_init.                                                              *)

Shares(attribute) == attribute \cap {"Referenced", "K_Share_To_U"} # {}

\* Faulty variant of SetBit: ^= for |=, as in construct_mem_struct.
SetBit_Xor(bits, page) == Toggle(bits, {page.phy})

\* *(gmdsc.page_bits + ...) |= 1UL << ...
SetBit(bits, page) == bits \cup {page.phy}

\* page_using_count++, page_free_count--: only a page's first user counts
CountUse(zone) ==
  [zone EXCEPT !.using = @ + 1, !.free = @ - 1, !.link = @ + 1]

\* Faulty variants of CountLink: the shared path counts a use; it counts nothing.
CountLink_Uses(zone) == CountUse(zone)
CountLink_Forgets(zone) == zone

CountLink(zone) == [zone EXCEPT !.link = @ + 1]

\* page->zone->...: through a null zone pointer the counters are in low memory
Count(z, Op(_)) ==
  IF z = NULL
    THEN low' = Op(low) /\ UNCHANGED zones_struct
    ELSE zones_struct' = [zones_struct EXCEPT ![z] = Op(@)] /\ UNCHANGED low

\* the branches of page_init that set the bit, and those that count
Marks(page, flags) ==
  page.attribute = {} \/ ~(Shares(page.attribute) \/ Shares(flags))
Counts(page, flags) ==
  page.attribute = {} \/ Shares(page.attribute) \/ Shares(flags)

\* The bit is not one of the bitmap or its next word; the zone is no zone.
Astray(page, flags) ==
  \/ Marks(page, flags) /\ page.phy >= NBits(boot) + W
  \/ Counts(page, flags) /\ page.zone = WILD

page_init(x, flags) ==
  LET page == pages_struct[x] IN
  /\ ~Astray(page, flags)
  /\ \/ /\ page.attribute = {}
        /\ page_bits' = SetBit(page_bits, page)
        /\ pages_struct' = [pages_struct EXCEPT ![x].attribute = flags,
                                                ![x].ref_count = @ + 1]
        /\ Count(page.zone, CountUse)
     \/ /\ page.attribute # {}
        /\ Shares(page.attribute) \/ Shares(flags)
        /\ pages_struct' = [pages_struct EXCEPT ![x].attribute = @ \cup flags,
                                                ![x].ref_count = @ + 1]
        /\ Count(page.zone, CountLink)
        /\ UNCHANGED page_bits
     \/ /\ page.attribute # {}
        /\ ~Shares(page.attribute) /\ ~Shares(flags)
        /\ page_bits' = SetBit(page_bits, page)
        /\ pages_struct' = [pages_struct EXCEPT ![x].attribute = @ \cup flags]
        /\ UNCHANGED <<zones_struct, low>>

\* the last loop of construct_mem_struct: the kernel's pages are taken
ReserveKernelPage ==
  /\ pc = "kernel" /\ idx < KernelEnd(boot)
  /\ page_init(idx, KernelFlags)
  /\ idx' = idx + 1
  /\ UNCHANGED <<pc, boot, zone_idx, req, grants>>

KernelReserved ==
  /\ pc = "kernel" /\ idx >= KernelEnd(boot)
  /\ pc' = "ready"
  /\ grants' = <<[page |-> KernelStart(boot),
                  n |-> KernelEnd(boot) - KernelStart(boot),
                  aligned |-> TRUE]>>
  /\ UNCHANGED <<boot, page_bits, pages_struct, zones_struct, low, idx,
                 zone_idx, req>>

-----------------------------------------------------------------------------
(* alloc_pages.                                                            *)

\* ZONE_DMA_INDEX, ZONE_NORMAL_INDEX and ZONE_UNMAPED_INDEX are never assigned
ZoneRange(zone_select) ==
  CASE zone_select \in {"DMA", "NORMAL"} -> 0 .. 0
    [] zone_select = "UNMAPED"           -> Zones
    [] OTHER                             -> {}

\* The values j takes: the zone's first page, then every word boundary up to
\* and including the zone's end.
Scanned(z) == {j \in z.start .. z.end : j = z.start \/ j % W = 0}

\* Faulty variant of WindowFree: the mask is 1UL << n, without the - 1.
WindowFree_OneBit(j, k, n) ==
  LET word == j - (j % W) IN
  /\ word + k + n \notin page_bits
  /\ k = 0 => word + W + n \notin page_bits

\* The n bits from bit k of j's word on.  When k = 0 the other operand,
\* *(p + 1) << (64 - k), is shifted by 64, which the processor takes as 0:
\* the next word's low bits are tested as well.
WindowFree(j, k, n) ==
  LET word == j - (j % W) IN
  \A b \in 0 .. n - 1 : /\ word + k + b \notin page_bits
                        /\ k = 0 => word + W + b \notin page_bits

Hits(z, n) ==
  {h \in Scanned(z) \X (0 .. W - 1) :
     /\ h[2] >= h[1] % W /\ h[2] < W - (h[1] % W)
     /\ WindowFree(h[1], h[2], n)}

\* the hit the two loops reach first
IsFirstHit(h, z, n) ==
  /\ h \in Hits(z, n)
  /\ \A g \in Hits(z, n) : h[1] < g[1] \/ (h[1] = g[1] /\ h[2] <= g[2])

Suits(z, n) == zones_struct[z].free >= n /\ Hits(zones_struct[z], n) # {}

\* Faulty variant of FirstPage: the run starts one page too early.
FirstPage_Early(h) == h[1] + h[2] - 2

\* page = j + k - 1
FirstPage(h) == h[1] + h[2] - 1

alloc_pages(zone_select, n, flags) ==
  /\ pc = "ready" /\ Len(grants) <= MaxAllocs
  /\ \E z \in ZoneRange(zone_select) :
       /\ Suits(z, n)
       /\ \A y \in ZoneRange(zone_select) : y < z => ~Suits(y, n)
       /\ \E h \in Hits(zones_struct[z], n) :
            /\ IsFirstHit(h, zones_struct[z], n)
            /\ req' = [page |-> FirstPage(h), n |-> n, flags |-> flags,
                       l |-> 0, aligned |-> zones_struct[z].start % W = 0]
  /\ pc' = "pages"
  /\ UNCHANGED <<boot, page_bits, pages_struct, zones_struct, low, idx,
                 zone_idx, grants>>

\* return NULL: no zone suits, or zone_select is not a zone
alloc_pages_NULL(zone_select, n) ==
  /\ pc = "ready"
  /\ \A z \in ZoneRange(zone_select) : ~Suits(z, n)
  /\ UNCHANGED vars

InitRunPage ==
  /\ pc = "pages"
  /\ page_init(req.page + req.l, req.flags)
  /\ IF req.l + 1 < req.n
       THEN /\ req' = [req EXCEPT !.l = @ + 1]
            /\ UNCHANGED <<pc, grants>>
       ELSE /\ pc' = "ready"
            /\ req' = NoReq
            /\ grants' = Append(grants, [page |-> req.page, n |-> req.n,
                                         aligned |-> req.aligned])
  /\ UNCHANGED <<boot, idx, zone_idx>>

\* the page that page_init is called for next, and the attribute it gets
Initialising == IF pc = "kernel" THEN idx ELSE req.page + req.l
Flags == IF pc = "kernel" THEN KernelFlags ELSE req.flags

\* page_init is about to write somewhere else
InitAstray ==
  /\ pc \in {"kernel", "pages"}
  /\ pc = "kernel" => idx < KernelEnd(boot)
  /\ Astray(pages_struct[Initialising], Flags)
  /\ pc' = "lost"
  /\ UNCHANGED <<boot, page_bits, pages_struct, zones_struct, low, idx,
                 zone_idx, req, grants>>

\* whatever the kernel does now
Lost == pc = "lost" /\ UNCHANGED vars

Selects == {"DMA", "NORMAL", "UNMAPED", "other"}

Next ==
  \/ init_memory \/ BuildZone \/ SkipEntry \/ ZonesDone
  \/ ReserveKernelPage \/ KernelReserved
  \/ \E s \in Selects, n \in 1 .. W :
       \/ \E f \in AllocFlags : alloc_pages(s, n, f)
       \/ alloc_pages_NULL(s, n)
  \/ InitRunPage \/ InitAstray \/ Lost

Spec == Init /\ [][Next]_vars

-----------------------------------------------------------------------------
(* Properties.                                                             *)

\* The only slot outside the array that page_init is ever called for is the
\* one in front of it, and only that slot can make it write where no variable
\* is (pc = "lost"): a described page has a bit in the bitmap and a zone
\* pointer that is null or a zone.  No counter of a zone goes below zero.
TypeOK ==
  /\ pc \in {"boot", "zones", "kernel", "ready", "pages", "lost"}
  /\ boot \in BootInfos
  /\ page_bits \subseteq 0 .. NBits(boot) + W - 1
  /\ pages_struct \in
       [Pages \cup {-1} -> [phy : Nat, attribute : SUBSET PG,
                            ref_count : Nat, zone : Zones \cup {NULL, WILD}]]
  /\ zones_struct \in
       [Zones -> [start : Nat, end : Nat, using : Nat, free : Nat, link : Nat]]
  /\ low \in [using : Int, free : Int, link : Int]
  /\ idx \in Nat /\ zone_idx \in Nat
  /\ req.page \in Int /\ req.n \in 0 .. W /\ req.l \in Nat
  /\ req.flags \subseteq PG /\ req.aligned \in BOOLEAN
  /\ pc = "pages" => req.page + req.l \in Pages \cup {-1}
  /\ pc = "lost" => req.n > 0 /\ req.page + req.l = -1
  /\ grants \in Seq([page : Int, n : Nat, aligned : BOOLEAN])

\* A clear bit is an invitation to allocate.  Whatever the boot map, boot
\* prefix and sequence of allocations, a page whose bit is clear lies in a
\* zone and has never been given an attribute: the XOR that opens the zones,
\* the kernel reservation and every page_init keep bitmap and descriptors in
\* step, the pages alloc_pages re-initialises by mistake included.
FreeBitMeansFreePage ==
  pc # "boot" =>
    \A x \in Pages :
      x \notin page_bits => /\ pages_struct[x].zone # NULL
                            /\ pages_struct[x].attribute = {}

UsedIn(z) == {x \in Pages : /\ pages_struct[x].zone = z
                            /\ pages_struct[x].attribute # {}}

\* page_free_count is the only thing alloc_pages asks before it scans a zone,
\* and it is unsigned: it must never run below zero nor drift from the
\* descriptors, although page_init may see a page many times.
CountersExact ==
  \A z \in Zones :
    /\ zones_struct[z].using = Cardinality(UsedIn(z))
    /\ zones_struct[z].free =
         zones_struct[z].end - zones_struct[z].start - zones_struct[z].using

\* f[0] + ... + f[n - 1]
SumBelow(f, n) ==
  LET sum[k \in 0 .. n] == IF k = 0 THEN 0 ELSE sum[k - 1] + f[k - 1]
  IN  sum[n]

RefsTo(z) ==
  [x \in Pages |-> IF pages_struct[x].zone = z THEN pages_struct[x].ref_count
                                               ELSE 0]

\* total_pages_link of a zone is the number of references to its pages: every
\* path of page_init that counts a reference counts it in both places, a page
\* that overlapping runs initialise again included.
LinksExact ==
  \A z \in Zones : zones_struct[z].link = SumBelow(RefsTo(z), NPages(boot))

Run(g) == g.page .. g.page + g.n - 1

\* Two runs handed out of word-aligned zones (the kernel's own pages count as
\* the first run) have at most one page in common: the first page of the
\* later run.  This is exactly how far page = j + k - 1 lets them overlap.
OverlapOnlyFirst ==
  \A a, b \in DOMAIN grants :
    a < b /\ grants[b].aligned =>
      Run(grants[a]) \cap Run(grants[b]) \subseteq {grants[b].page}

\* What the label find_free_pages promises: no page is handed out twice.
\* The code breaks it in the plainest of zones, one that begins on a bitmap
\* word, see the run pagealloc_disjoint.
RunsDisjoint ==
  \A a, b \in DOMAIN grants :
    a < b => Run(grants[a]) \cap Run(grants[b]) \cap Pages = {}
=============================================================================
