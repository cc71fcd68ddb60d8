----------------------------- MODULE TaskProofs ------------------------------
(***************************************************************************)
(* Proofs about PageAlloc and about Task, which composes it with           *)
(* task_init.                                                              *)
(*                                                                         *)
(* The page manager first: for every word and page size, every boot map    *)
(* that satisfies BootInfoOK, every set of attributes and any number of    *)
(* allocations.  Nothing there uses what Task assumes of its constants.    *)
(*                                                                         *)
(* Then the tasks.  task_init drives the page manager only through its     *)
(* operations, so all that is shown of the manager holds here too; the     *)
(* invariant adds where task_init is and what it has built.                *)
(***************************************************************************)
EXTENDS Task, FiniteSetTheorems, WellFoundedInduction, TLAPS

-----------------------------------------------------------------------------
(* The page manager: the parts of its invariant.                           *)

Attr(x) == pages_struct[x].attribute
ZoneOf(x) == pages_struct[x].zone

\* The zones describe pages below the last one; a zone that starts inside a
\* bitmap word starts two words below the top (BootInfoOK).
ZonesInMap ==
  \A z \in Zones :
    /\ zones_struct[z].start <= zones_struct[z].end
    /\ zones_struct[z].end < NPages(boot)
    /\ \/ zones_struct[z].start % W = 0
       \/ zones_struct[z].start + 2 * W < NPages(boot)

\* A page's zone pointer leads to a zone that contains the page, and its
\* address to a bit of the bitmap; the entry in front of the array is in no
\* zone.
PagesInZones ==
  /\ ZoneOf(-1) \in {NULL, WILD}
  /\ \A x \in Pages : ZoneOf(x) # WILD /\ pages_struct[x].phy \in Pages
  /\ \A x \in Pages :
       ZoneOf(x) # NULL =>
         /\ ZoneOf(x) < zone_idx
         /\ x \in zones_struct[ZoneOf(x)].start .. zones_struct[ZoneOf(x)].end - 1
         /\ pages_struct[x].phy = x

\* The bitmap: the page on top of the map and the padding behind it are
\* never free, nor is a page outside all zones or with an attribute.
BitsSet ==
  /\ NPages(boot) - 1 .. NBits(boot) - 1 \subseteq page_bits
  /\ \A x \in Pages : ZoneOf(x) = NULL \/ Attr(x) # {} => x \in page_bits

\* Before the kernel's pages are reserved no page has an attribute, and the
\* zones built so far are no more than the available entries seen so far.
AvailBelow(i) ==
  {k \in DOMAIN boot.e820 : k < i /\ boot.e820[k].type = "available"}

Building ==
  /\ pc \in {"boot", "zones"} => \A x \in Pages : Attr(x) = {}
  /\ pc = "boot" => zone_idx = 0
  /\ pc = "zones" => /\ idx >= 1
                     /\ zone_idx <= Cardinality(AvailBelow(idx))
  /\ pc = "kernel" =>
       /\ idx \in KernelStart(boot) .. KernelEnd(boot)
       /\ \A x \in KernelStart(boot) .. idx - 1 : Attr(x) # {}
  /\ pc \in {"boot", "zones", "kernel"} => grants = <<>>

\* Every page handed out is described and has an attribute.
Granted ==
  \A a \in DOMAIN grants :
    \A x \in Run(grants[a]) : x \in Pages \cup {-1} /\ Attr(x) # {}

\* The run being initialised: it lies in the array or starts at the entry in
\* front of it, its pages so far have an attribute, and all but its first
\* page are new if its zone is word-aligned.
Requested ==
  pc = "pages" =>
    /\ req.flags # {} /\ req.l < req.n
    /\ req.page >= -1 /\ req.page + req.n <= NPages(boot)
    /\ \A x \in req.page .. req.page + req.l - 1 : Attr(x) # {}
    /\ req.aligned =>
         \A a \in DOMAIN grants :
           \A x \in Run(grants[a]) :
             x \notin req.page + 1 .. req.page + req.n - 1

IInv ==
  /\ TypeOK /\ ZonesInMap /\ PagesInZones /\ (pc # "boot" => BitsSet)
  /\ Building /\ CountersExact /\ Granted /\ Requested /\ OverlapOnlyFirst

-----------------------------------------------------------------------------
(* Facts about the constants.                                              *)

PageT == [phy : Nat, attribute : SUBSET PG, ref_count : Nat,
          zone : Zones \cup {NULL, WILD}]
ZoneT == [start : Nat, end : Nat, using : Nat, free : Nat, link : Nat]

\* What BootInfoOK says of the map in use, without the layout's formulas.
LEMMA BootFacts ==
  ASSUME boot \in BootInfos
  PROVE  /\ NPages(boot) \in Nat /\ NPages(boot) >= 1
         /\ NBits(boot) \in Nat /\ NBits(boot) >= NPages(boot)
         /\ NBits(boot) % W = 0
         /\ NZones(boot) \in Nat /\ NZones(boot) >= 1
         /\ W \in Nat /\ W >= 1
         /\ KernelStart(boot) \in Nat /\ KernelEnd(boot) \in Nat
         /\ KernelStart(boot) < KernelEnd(boot)
         /\ KernelEnd(boot) <= NPages(boot)
<1>1. BootInfoOK(boot)
  BY BootAssumption
<1>2. QED
  BY <1>1, SizesAssumption DEF BootInfoOK

\* What BootInfoOK says of an entry that becomes a zone.
LEMMA EntryFacts ==
  ASSUME boot \in BootInfos, NEW i \in DOMAIN boot.e820, Usable(boot.e820[i])
  PROVE  LET start == EntryStart(boot.e820[i])
             end   == EntryEnd(boot.e820[i])
         IN  /\ start \in Nat /\ end \in Nat /\ start < end
             /\ end < NPages(boot)
             /\ start % W = 0 \/ start + 2 * W < NPages(boot)
<1>1. BootInfoOK(boot)
  BY BootAssumption
<1>2. QED
  BY <1>1 DEF BootInfoOK, Usable

\* A word of the bitmap that begins below NBits ends below NBits.
LEMMA WordFits ==
  ASSUME NEW w \in Nat, w >= 1, NEW j \in Nat, NEW m \in Nat,
         j % w = 0, m % w = 0, j < m
  PROVE  j + w <= m
<1> DEFINE q == j \div w
           r == m \div w
<1>1. q \in Int /\ j = w * q
  OBVIOUS
<1>2. r \in Int /\ m = w * r
  OBVIOUS
<1> HIDE DEF q, r
<1>3. q < r
  BY <1>1, <1>2
<1>4. w * q + w <= w * r
  <2>1. PICK d \in Nat : r = q + 1 + d
    <3>1. r - q - 1 \in Nat /\ r = q + 1 + (r - q - 1)
      BY <1>1, <1>2, <1>3
    <3>2. QED
      BY <3>1
  <2>2. w * d >= 0
    OBVIOUS
  <2>3. w * r = w * q + w + w * d
    BY <1>1, <2>1
  <2>4. QED
    BY <1>1, <1>2, <2>1, <2>2, <2>3
<1>5. QED
  BY <1>1, <1>2, <1>4

-----------------------------------------------------------------------------
(* page_init.                                                              *)

\* A page that page_init finds no fault with: its bit is one of the bitmap and
\* its zone, if it counts in it, a zone or null.
LEMMA NotAstray ==
  ASSUME TypeOK, NEW x \in Pages \cup {-1}, NEW flags,
         page_init(x, flags)
  PROVE  /\ Marks(pages_struct[x], flags) =>
              pages_struct[x].phy \in 0 .. NBits(boot) + W - 1
         /\ Counts(pages_struct[x], flags) => ZoneOf(x) \in Zones \cup {NULL}
<1>1. pages_struct[x] \in PageT /\ NBits(boot) \in Nat /\ W \in Nat
  BY BootFacts DEF TypeOK, PageT
<1>2. ~Astray(pages_struct[x], flags)
  BY DEF page_init
<1>3. pages_struct[x].phy \in Nat /\ ZoneOf(x) \in Zones \cup {NULL, WILD}
  BY <1>1 DEF PageT, ZoneOf
<1>4. QED
  BY <1>1, <1>2, <1>3 DEF Astray, ZoneOf

\* No page of the array is astray.
LEMMA PagesNotAstray ==
  ASSUME TypeOK, PagesInZones, NEW x \in Pages, NEW flags
  PROVE  ~Astray(pages_struct[x], flags)
<1>1. pages_struct[x].phy \in Pages /\ pages_struct[x].zone # WILD
  BY DEF PagesInZones, ZoneOf
<1>2. /\ NBits(boot) \in Nat /\ NPages(boot) \in Nat /\ W \in Nat
      /\ NBits(boot) >= NPages(boot) /\ W >= 1
  BY BootFacts DEF TypeOK
<1>3. pages_struct[x].phy \in Nat /\ pages_struct[x].phy < NPages(boot)
  BY <1>1, <1>2 DEF Pages
<1>4. QED
  BY <1>1, <1>2, <1>3 DEF Astray

\* What page_init does to the descriptors, whichever branch it takes.
LEMMA PageInitPages ==
  ASSUME TypeOK, NEW x \in Pages \cup {-1}, NEW flags \in SUBSET PG,
         flags # {}, page_init(x, flags)
  PROVE  /\ pages_struct' \in [Pages \cup {-1} -> PageT]
         /\ pages_struct'[x].attribute = Attr(x) \cup flags
         /\ \A p \in Pages \cup {-1} :
              /\ pages_struct'[p].zone = ZoneOf(p)
              /\ pages_struct'[p].phy = pages_struct[p].phy
              /\ p # x => pages_struct'[p].attribute = Attr(p)
<1>1. pages_struct \in [Pages \cup {-1} -> PageT]
  BY DEF TypeOK, PageT
<1>2. /\ pages_struct[x] \in PageT
      /\ pages_struct[x].attribute \cup flags \in SUBSET PG
      /\ pages_struct[x].ref_count + 1 \in Nat
      /\ pages_struct[x].ref_count \in Nat
  BY <1>1 DEF PageT
<1>3. PICK c \in Nat :
        pages_struct' = [pages_struct EXCEPT ![x] =
           [@ EXCEPT !.attribute = pages_struct[x].attribute \cup flags,
                     !.ref_count = c]]
  <2>1. CASE pages_struct[x].attribute = {}
    BY <1>1, <1>2, <2>1 DEF page_init, PageT
  <2>2. CASE /\ pages_struct[x].attribute # {}
             /\ Shares(pages_struct[x].attribute) \/ Shares(flags)
    BY <1>1, <1>2, <2>2 DEF page_init, PageT
  <2>3. CASE /\ pages_struct[x].attribute # {}
             /\ ~Shares(pages_struct[x].attribute) /\ ~Shares(flags)
    BY <1>1, <1>2, <2>3 DEF page_init, PageT
  <2>4. QED
    BY <2>1, <2>2, <2>3
<1>4. QED
  BY <1>1, <1>2, <1>3 DEF PageT, Attr, ZoneOf

\* What it does to the bitmap.
LEMMA PageInitBits ==
  ASSUME TypeOK, NEW x \in Pages \cup {-1}, NEW flags \in SUBSET PG,
         page_init(x, flags)
  PROVE  /\ page_bits' \subseteq 0 .. NBits(boot) + W - 1
         /\ page_bits \subseteq page_bits'
         /\ Attr(x) = {} /\ pages_struct[x].phy = x /\ x \in Pages
              => x \in page_bits'
<1>1. \/ page_bits' = page_bits
      \/ /\ page_bits' = SetBit(page_bits, pages_struct[x])
         /\ pages_struct[x].phy \in 0 .. NBits(boot) + W - 1
  BY NotAstray DEF page_init, Marks
<1>2. Attr(x) = {} => page_bits' = SetBit(page_bits, pages_struct[x])
  BY DEF page_init, Attr
<1>3. x \in Pages => x \in 0 .. NBits(boot) + W - 1
  BY BootFacts DEF TypeOK, Pages
<1>4. QED
  BY <1>1, <1>2, <1>3 DEF SetBit, TypeOK

\* The zones as page_init leaves them when it does, and does not, count a use.
LEMMA PageInitZones ==
  ASSUME TypeOK, PagesInZones, CountersExact, NEW x \in Pages \cup {-1},
         NEW flags \in SUBSET PG, page_init(x, flags)
  PROVE  \A z \in Zones :
           /\ DOMAIN zones_struct' = Zones
           /\ \E k \in Nat :
                IF Attr(x) = {} /\ ZoneOf(x) = z
                  THEN zones_struct'[z] =
                         [zones_struct[z] EXCEPT !.using = @ + 1,
                                                 !.free = @ - 1, !.link = k]
                  ELSE zones_struct'[z] = [zones_struct[z] EXCEPT !.link = k]
<1>1. zones_struct \in [Zones -> ZoneT]
  BY DEF TypeOK, ZoneT
<1>2. /\ Counts(pages_struct[x], flags) => ZoneOf(x) \in Zones \cup {NULL}
      /\ NULL \notin Zones
  BY NotAstray DEF Zones, NULL
<1> SUFFICES ASSUME NEW z \in Zones
    PROVE /\ DOMAIN zones_struct' = Zones
          /\ \E k \in Nat :
               IF Attr(x) = {} /\ ZoneOf(x) = z
                 THEN zones_struct'[z] =
                        [zones_struct[z] EXCEPT !.using = @ + 1,
                                                !.free = @ - 1, !.link = k]
                 ELSE zones_struct'[z] = [zones_struct[z] EXCEPT !.link = k]
  OBVIOUS
<1>3. /\ zones_struct[z].link \in Nat /\ zones_struct[z].link + 1 \in Nat
      /\ [zones_struct[z] EXCEPT !.link = zones_struct[z].link]
           = zones_struct[z]
  BY <1>1 DEF ZoneT
<1>4. CASE Attr(x) = {}
  <2>1. Count(ZoneOf(x), CountUse)
    BY <1>4 DEF page_init, Attr, ZoneOf
  <2>2. CASE ZoneOf(x) = NULL
    BY <1>1, <1>2, <1>3, <2>1, <2>2 DEF Count
  <2>3. CASE ZoneOf(x) \in Zones
    <3>1. zones_struct' = [zones_struct EXCEPT ![ZoneOf(x)] =
            [zones_struct[ZoneOf(x)] EXCEPT !.using = @ + 1, !.free = @ - 1,
                                            !.link = @ + 1]]
      BY <1>2, <2>1, <2>3 DEF Count, CountUse
    <3>2. CASE ZoneOf(x) = z
      BY <1>1, <1>3, <1>4, <3>1, <3>2 DEF ZoneT
    <3>3. CASE ZoneOf(x) # z
      BY <1>1, <1>3, <3>1, <3>3
    <3>4. QED
      BY <3>2, <3>3
  <2>4. Counts(pages_struct[x], flags)
    BY <1>4 DEF Counts, Attr
  <2>5. QED
    BY <1>2, <2>2, <2>3, <2>4
<1>5. CASE Attr(x) # {}
  <2>1. \/ zones_struct' = zones_struct
        \/ /\ Count(ZoneOf(x), CountLink)
           /\ ZoneOf(x) \in Zones \cup {NULL}
    BY <1>2, <1>5 DEF page_init, Counts, Attr, ZoneOf
  <2>2. CASE zones_struct' = zones_struct
    BY <1>1, <1>3, <1>5, <2>2
  <2>3. CASE Count(ZoneOf(x), CountLink) /\ ZoneOf(x) \in Zones
    <3>1. zones_struct' = [zones_struct EXCEPT ![ZoneOf(x)] =
            [zones_struct[ZoneOf(x)] EXCEPT !.link = @ + 1]]
      BY <1>2, <2>3 DEF Count, CountLink
    <3>2. QED
      BY <1>1, <1>3, <1>5, <3>1
  <2>4. CASE Count(ZoneOf(x), CountLink) /\ ZoneOf(x) = NULL
    BY <1>1, <1>3, <1>5, <2>4 DEF Count
  <2>5. QED
    BY <2>1, <2>2, <2>3, <2>4
<1>6. QED
  BY <1>4, <1>5

\* The pages in use in a zone are pages of the zone, and finitely many.
LEMMA UsedInZone ==
  ASSUME TypeOK, PagesInZones, NEW z \in Zones
  PROVE  /\ IsFiniteSet(UsedIn(z))
         /\ Cardinality(UsedIn(z)) \in Nat
         /\ UsedIn(z) \subseteq zones_struct[z].start .. zones_struct[z].end - 1
<1>1. NULL \notin Zones
  BY BootFacts DEF TypeOK, Zones, NULL
<1>2. UsedIn(z) \subseteq zones_struct[z].start .. zones_struct[z].end - 1
  BY <1>1 DEF UsedIn, PagesInZones, ZoneOf
<1>3. IsFiniteSet(Pages)
  BY BootFacts, FS_Interval DEF TypeOK, Pages
<1>4. UsedIn(z) \subseteq Pages
  BY DEF UsedIn
<1>5. IsFiniteSet(UsedIn(z))
  BY <1>3, <1>4, FS_Subset
<1>6. QED
  BY <1>2, <1>5, FS_CardinalityType

\* What page_init counts elsewhere are numbers.
LEMMA PageInitLow ==
  ASSUME TypeOK, NEW x \in Pages \cup {-1}, NEW flags, page_init(x, flags)
  PROVE  low' \in [using : Int, free : Int, link : Int]
<1>1. low \in [using : Int, free : Int, link : Int]
  BY DEF TypeOK
<1>2. CountUse(low) \in [using : Int, free : Int, link : Int]
  <2>1. \A r \in [using : Int, free : Int, link : Int], n \in Int :
          /\ [r EXCEPT !.using = n] \in [using : Int, free : Int, link : Int]
          /\ [r EXCEPT !.free = n] \in [using : Int, free : Int, link : Int]
          /\ [r EXCEPT !.link = n] \in [using : Int, free : Int, link : Int]
    OBVIOUS
  <2>2. low.using + 1 \in Int /\ low.free - 1 \in Int /\ low.link + 1 \in Int
    BY <1>1
  <2>3. QED
    BY <1>1, <2>1, <2>2, Zenon DEF CountUse
<1>3. CountLink(low) \in [using : Int, free : Int, link : Int]
  BY <1>1 DEF CountLink
<1>4. \/ low' = low \/ low' = CountUse(low) \/ low' = CountLink(low)
  BY DEF page_init, Count
<1>5. QED
  BY <1>1, <1>2, <1>3, <1>4

\* The counters stay exact, and a zone with an unused page has a free count
\* to take from: page_free_count does not run below zero.
LEMMA PageInitCounters ==
  ASSUME TypeOK, ZonesInMap, PagesInZones, CountersExact, boot' = boot,
         NEW x \in Pages \cup {-1}, NEW flags \in SUBSET PG, flags # {},
         page_init(x, flags)
  PROVE  /\ zones_struct' \in [Zones -> ZoneT]
         /\ \A z \in Zones : /\ zones_struct'[z].start = zones_struct[z].start
                             /\ zones_struct'[z].end = zones_struct[z].end
         /\ CountersExact'
<1> DEFINE Good(z) ==
      /\ zones_struct'[z] \in ZoneT
      /\ zones_struct'[z].start = zones_struct[z].start
      /\ zones_struct'[z].end = zones_struct[z].end
      /\ zones_struct'[z].using = Cardinality(UsedIn(z)')
      /\ zones_struct'[z].free = zones_struct'[z].end - zones_struct'[z].start
                                   - zones_struct'[z].using
<1>1. zones_struct' = [z \in Zones |-> zones_struct'[z]]
  <2>1. zones_struct \in [Zones -> ZoneT]
    BY DEF TypeOK, ZoneT
  <2>2. \E f : zones_struct' = [zones_struct EXCEPT ![ZoneOf(x)] = f]
               \/ zones_struct' = zones_struct
    <3>1. zones_struct' = zones_struct
            \/ Count(ZoneOf(x), CountUse) \/ Count(ZoneOf(x), CountLink)
      BY DEF page_init, ZoneOf
    <3>2. QED
      BY <3>1 DEF Count
  <2>3. QED
    BY <2>1, <2>2
<1>2. ASSUME NEW z \in Zones PROVE Good(z)
  <2>1. PICK k \in Nat :
          IF Attr(x) = {} /\ ZoneOf(x) = z
            THEN zones_struct'[z] =
                   [zones_struct[z] EXCEPT !.using = @ + 1,
                                           !.free = @ - 1, !.link = k]
            ELSE zones_struct'[z] = [zones_struct[z] EXCEPT !.link = k]
    BY PageInitZones
  <2>2. zones_struct[z] \in ZoneT
    BY DEF TypeOK, ZoneT
  <2>3. /\ zones_struct[z].using = Cardinality(UsedIn(z))
        /\ zones_struct[z].free = zones_struct[z].end - zones_struct[z].start
                                    - zones_struct[z].using
    BY DEF CountersExact
  <2>4. UsedIn(z)' = {p \in Pages : /\ pages_struct'[p].zone = z
                                    /\ pages_struct'[p].attribute # {}}
    BY DEF UsedIn, Pages
  <2>5. CASE Attr(x) = {} /\ ZoneOf(x) = z
    <3>1. x \in Pages
      BY <2>5, BootFacts DEF PagesInZones, Zones, NULL, WILD, TypeOK
    <3>2. UsedIn(z)' = UsedIn(z) \cup {x}
      BY <2>4, <2>5, <3>1, PageInitPages DEF UsedIn, Attr, ZoneOf
    <3>3. x \notin UsedIn(z)
      BY <2>5 DEF UsedIn, Attr
    <3>4. Cardinality(UsedIn(z)') = Cardinality(UsedIn(z)) + 1
      BY <3>2, <3>3, UsedInZone, FS_AddElement
    <3>5. UsedIn(z) \cup {x} \subseteq
            zones_struct[z].start .. zones_struct[z].end - 1
      <4>1. z # NULL
        BY BootFacts DEF Zones, NULL, TypeOK
      <4>2. QED
        BY <2>5, <3>1, <4>1, UsedInZone DEF PagesInZones
    <3>6. Cardinality(UsedIn(z)) + 1 <= zones_struct[z].end - zones_struct[z].start
      <4> DEFINE I == zones_struct[z].start .. zones_struct[z].end - 1
      <4>1. /\ IsFiniteSet(I)
            /\ Cardinality(I) = zones_struct[z].end - zones_struct[z].start
        <5>1. zones_struct[z].start <= zones_struct[z].end
          BY DEF ZonesInMap
        <5>2. /\ zones_struct[z].start \in Int /\ zones_struct[z].end - 1 \in Int
              /\ zones_struct[z].end \in Int
          BY <2>2 DEF ZoneT
        <5>3. /\ IsFiniteSet(I)
              /\ Cardinality(I) =
                   IF zones_struct[z].start > zones_struct[z].end - 1 THEN 0
                   ELSE (zones_struct[z].end - 1) - zones_struct[z].start + 1
          BY <5>2, FS_Interval
        <5> HIDE DEF I
        <5>4. QED
          BY <5>1, <5>2, <5>3
      <4> HIDE DEF I
      <4>2. Cardinality(UsedIn(z)') <= Cardinality(I)
        BY <3>2, <3>5, <4>1, FS_Subset DEF I
      <4>3. QED
        BY <3>4, <4>1, <4>2
    <3>7. zones_struct'[z] = [zones_struct[z] EXCEPT !.using = @ + 1,
                                           !.free = @ - 1, !.link = k]
      BY <2>1, <2>5
    <3>8. /\ zones_struct'[z].start = zones_struct[z].start
          /\ zones_struct'[z].end = zones_struct[z].end
          /\ zones_struct'[z].using = zones_struct[z].using + 1
          /\ zones_struct'[z].free = zones_struct[z].free - 1
      BY <2>2, <3>7 DEF ZoneT
    <3>9. zones_struct[z].using + 1 \in Nat /\ zones_struct[z].free - 1 \in Nat
      BY <2>2, <2>3, <3>6 DEF ZoneT
    <3>10. zones_struct'[z] \in ZoneT
      BY <2>2, <3>7, <3>9 DEF ZoneT
    <3>11. QED
      BY <2>2, <2>3, <3>4, <3>8, <3>10 DEF ZoneT
  <2>6. CASE ~(Attr(x) = {} /\ ZoneOf(x) = z)
    <3>1. UsedIn(z)' = UsedIn(z)
      BY <2>4, <2>6, PageInitPages DEF UsedIn, Attr, ZoneOf
    <3>2. QED
      BY <2>1, <2>2, <2>3, <2>6, <3>1 DEF ZoneT
  <2>7. QED
    BY <2>5, <2>6
<1>3. CountersExact'
  BY <1>2 DEF CountersExact, Zones
<1>4. zones_struct' \in [Zones -> ZoneT]
  BY <1>1, <1>2
<1>5. QED
  BY <1>2, <1>3, <1>4

\* The structures as a whole.
Structures ==
  /\ page_bits \subseteq 0 .. NBits(boot) + W - 1
  /\ pages_struct \in [Pages \cup {-1} -> PageT]
  /\ zones_struct \in [Zones -> ZoneT]
  /\ low \in [using : Int, free : Int, link : Int]
  /\ ZonesInMap /\ PagesInZones /\ BitsSet /\ CountersExact

\* page_init keeps them, and no page ever loses its attribute.
LEMMA PageInitKeeps ==
  ASSUME IInv, pc # "boot", boot' = boot, zone_idx' = zone_idx,
         NEW x \in Pages \cup {-1}, NEW flags \in SUBSET PG, flags # {},
         page_init(x, flags)
  PROVE  /\ Structures'
         /\ \A p \in Pages \cup {-1} : Attr(p) # {} \/ p = x => Attr(p)' # {}
<1>1. /\ TypeOK /\ ZonesInMap /\ PagesInZones /\ BitsSet /\ CountersExact
  BY DEF IInv
<1>2. Pages' = Pages /\ Zones' = Zones
  BY DEF Pages, Zones
<1>3. /\ pages_struct' \in [Pages \cup {-1} -> PageT]
      /\ Attr(x)' = Attr(x) \cup flags
      /\ \A p \in Pages \cup {-1} :
           /\ ZoneOf(p)' = ZoneOf(p)
           /\ pages_struct'[p].phy = pages_struct[p].phy
           /\ p # x => Attr(p)' = Attr(p)
  BY <1>1, PageInitPages DEF Attr, ZoneOf
<1>4. /\ page_bits' \subseteq 0 .. NBits(boot) + W - 1
      /\ page_bits \subseteq page_bits'
      /\ Attr(x) = {} /\ pages_struct[x].phy = x /\ x \in Pages
           => x \in page_bits'
  BY <1>1, PageInitBits
<1>5. /\ zones_struct' \in [Zones -> ZoneT]
      /\ \A z \in Zones : /\ zones_struct'[z].start = zones_struct[z].start
                          /\ zones_struct'[z].end = zones_struct[z].end
      /\ CountersExact'
  BY <1>1, PageInitCounters
<1>6. PageT' = PageT
  BY <1>2 DEF PageT
<1>7. ZonesInMap'
  BY <1>1, <1>2, <1>5 DEF ZonesInMap
<1>8. PagesInZones'
  <2>1. /\ ZoneOf(-1)' \in {NULL, WILD}
        /\ \A p \in Pages : ZoneOf(p)' # WILD /\ pages_struct'[p].phy \in Pages
    BY <1>1, <1>3 DEF PagesInZones
  <2>2. ASSUME NEW p \in Pages, ZoneOf(p)' # NULL
        PROVE  /\ ZoneOf(p)' < zone_idx'
               /\ p \in zones_struct'[ZoneOf(p)'].start ..
                          zones_struct'[ZoneOf(p)'].end - 1
               /\ pages_struct'[p].phy = p
    <3>1. ZoneOf(p)' = ZoneOf(p) /\ pages_struct'[p].phy = pages_struct[p].phy
      BY <1>3
    <3>2. ZoneOf(p) \in Zones
      BY <1>1, <2>2, <3>1 DEF TypeOK, ZoneOf, PagesInZones
    <3>3. QED
      BY <1>1, <1>5, <2>2, <3>1, <3>2 DEF PagesInZones
  <2>3. QED
    BY <1>2, <2>1, <2>2 DEF PagesInZones, ZoneOf
<1>9. BitsSet'
  <2>1. ASSUME NEW p \in Pages, ZoneOf(p)' = NULL \/ Attr(p)' # {}
        PROVE  p \in page_bits'
    <3>1. CASE ZoneOf(p) = NULL \/ Attr(p) # {}
      BY <1>1, <1>4, <3>1 DEF BitsSet
    <3>2. CASE ZoneOf(p) # NULL /\ Attr(p) = {}
      <4>1. p = x
        BY <1>3, <2>1, <3>2
      <4>2. QED
        BY <1>1, <1>4, <3>2, <4>1 DEF PagesInZones
    <3>3. QED
      BY <3>1, <3>2
  <2>2. QED
    BY <1>1, <1>2, <1>4, <2>1 DEF BitsSet, Attr, ZoneOf
<1>10. QED
  <2>1. \A p \in Pages \cup {-1} : Attr(p) # {} \/ p = x => Attr(p)' # {}
    BY <1>3
  <2>2. Structures'
    BY <1>1, <1>2, <1>3, <1>4, <1>5, <1>6, <1>7, <1>8, <1>9, PageInitLow
    DEF Structures, ZoneT
  <2>3. QED
    BY <2>1, <2>2

-----------------------------------------------------------------------------
(* Initialisation.                                                         *)

\* The state the boot loader leaves satisfies the invariant.
LEMMA InitIInv == Init => IInv
<1> SUFFICES ASSUME Init PROVE IInv
  OBVIOUS
<1>1. boot \in BootInfos /\ Zones = 0 .. NZones(boot) - 1 /\ NULL = -1
  BY DEF Init, Zones, NULL
<1> USE BootFacts
<1>2. page_bits \subseteq 0 .. NBits(boot) + W - 1
  <2>1. PICK gap \in GapWords : page_bits = {NBits(boot) + g : g \in gap}
    BY DEF Init
  <2>2. gap \subseteq 0 .. W - 1
    BY <2>1, GapAssumption
  <2>3. QED
    BY <1>1, <2>1, <2>2
<1>3. /\ pages_struct \in [Pages \cup {-1} -> PageT]
      /\ ZoneOf(-1) \in {NULL, WILD}
      /\ \A x \in Pages : /\ ZoneOf(x) = NULL /\ Attr(x) = {}
                         /\ pages_struct[x].phy = 0
  <2>1. PICK s \in Strays :
          pages_struct = [x \in Pages \cup {-1} |->
                            IF x = -1 THEN s ELSE ZeroPage]
    BY DEF Init
  <2>2. s \in PageT /\ s.zone \in {NULL, WILD}
    BY <2>1, StraysAssumption DEF PageT
  <2>3. /\ ZeroPage \in PageT /\ ZeroPage.zone = NULL
        /\ ZeroPage.attribute = {} /\ ZeroPage.phy = 0
    BY DEF ZeroPage, PageT
  <2>4. -1 \notin Pages
    BY <1>1 DEF Pages
  <2>5. QED
    BY <2>1, <2>2, <2>3, <2>4 DEF Attr, ZoneOf
<1>4. /\ zones_struct \in [Zones -> ZoneT]
      /\ \A z \in Zones : /\ zones_struct[z].start = 0
                          /\ zones_struct[z].end = 0
                          /\ zones_struct[z].using = 0
                          /\ zones_struct[z].free = 0
  BY DEF Init, ZeroZone, ZoneT
<1>5. TypeOK
  <2>1. /\ req.page \in Int /\ req.n \in 0 .. W /\ req.l \in Nat
        /\ req.flags \subseteq PG /\ req.aligned \in BOOLEAN
    BY <1>1 DEF Init, NoReq
  <2>2. /\ grants \in Seq([page : Int, n : Nat, aligned : BOOLEAN])
        /\ idx \in Nat /\ zone_idx \in Nat /\ pc = "boot"
        /\ low \in [using : Int, free : Int, link : Int]
    BY DEF Init
  <2>3. QED
    BY <1>1, <1>2, <1>3, <1>4, <2>1, <2>2 DEF TypeOK, PageT, ZoneT
<1>6. ZonesInMap
  <2>1. 0 % W = 0
    BY <1>1
  <2>2. QED
    BY <1>1, <1>4, <2>1 DEF ZonesInMap
<1>7. CountersExact
  <2>1. \A z \in Zones : UsedIn(z) = {}
    BY <1>3 DEF UsedIn, Attr
  <2>2. \A z \in Zones : Cardinality(UsedIn(z)) = 0
    BY <2>1, FS_EmptySet
  <2>3. QED
    BY <1>4, <2>2 DEF CountersExact
<1>8. PagesInZones
  <2>1. 0 \in Pages /\ NULL # WILD
    BY <1>1 DEF Pages, NULL, WILD
  <2>2. QED
    BY <1>3, <2>1 DEF PagesInZones
<1>9. Building
  BY <1>3 DEF Building, Init
<1>10. Granted /\ Requested /\ OverlapOnlyFirst
  BY DEF Init, Granted, Requested, OverlapOnlyFirst
<1>11. QED
  BY <1>5, <1>6, <1>7, <1>8, <1>9, <1>10 DEF IInv, Init

\* The three memsets.
LEMMA InitMemoryIInv == ASSUME IInv, init_memory PROVE IInv'
<1>1. TypeOK /\ PagesInZones /\ Building /\ pc = "boot" /\ boot \in BootInfos
  BY DEF IInv, init_memory, TypeOK
<1> USE BootFacts
<1>2. boot' = boot /\ Pages' = Pages /\ Zones' = Zones /\ PageT' = PageT
  BY DEF init_memory, Pages, Zones, PageT
<1>3. page_bits' \subseteq 0 .. NBits(boot) + W - 1
  <2>1. 0 .. NBits(boot) - 1 \subseteq 0 .. NBits(boot) + W - 1
    BY <1>1
  <2>2. page_bits \subseteq 0 .. NBits(boot) + W - 1
    BY <1>1 DEF TypeOK
  <2>3. page_bits' = page_bits \cup (0 .. NBits(boot) - 1)
    BY DEF init_memory
  <2>4. QED
    BY <2>1, <2>2, <2>3
<1>4. /\ pages_struct' \in [Pages \cup {-1} -> PageT]
      /\ ZoneOf(-1)' \in {NULL, WILD}
      /\ \A x \in Pages : /\ ZoneOf(x)' = NULL /\ Attr(x)' = {}
                         /\ pages_struct'[x].phy = 0
  <2>1. /\ ZeroPage \in PageT /\ ZeroPage.zone = NULL
        /\ ZeroPage.attribute = {} /\ ZeroPage.phy = 0
    BY DEF ZeroPage, PageT
  <2>2. /\ DOMAIN pages_struct = Pages \cup {-1}
        /\ pages_struct[-1] \in PageT /\ pages_struct[-1].zone \in {NULL, WILD}
    BY <1>1 DEF TypeOK, PageT, PagesInZones, ZoneOf
  <2>3. -1 \notin Pages
    BY <1>1 DEF Pages
  <2>4. pages_struct' = [x \in Pages \cup {-1} |->
                           IF x \in Pages THEN ZeroPage ELSE pages_struct[x]]
    BY <2>2 DEF init_memory
  <2>5. QED
    BY <2>1, <2>2, <2>3, <2>4 DEF Attr, ZoneOf
<1>5. /\ zones_struct' \in [Zones -> ZoneT]
      /\ \A z \in Zones : /\ zones_struct'[z].start = 0
                          /\ zones_struct'[z].end = 0
                          /\ zones_struct'[z].using = 0
                          /\ zones_struct'[z].free = 0
  BY DEF init_memory, ZeroZone, ZoneT
<1>6. TypeOK'
  BY <1>1, <1>2, <1>3, <1>4, <1>5 DEF TypeOK, PageT, ZoneT, init_memory
<1>7. ZonesInMap'
  <2>1. 0 % W = 0
    BY <1>1
  <2>2. QED
    BY <1>1, <1>2, <1>5, <2>1 DEF ZonesInMap
<1>8. CountersExact'
  <2>1. \A z \in Zones : UsedIn(z)' = {}
    BY <1>2, <1>4 DEF UsedIn, Attr
  <2>2. \A z \in Zones : Cardinality(UsedIn(z)') = 0
    BY <2>1, FS_EmptySet
  <2>3. QED
    BY <1>2, <1>5, <2>2 DEF CountersExact
<1>9. PagesInZones'
  <2>1. 0 \in Pages /\ NULL # WILD
    BY <1>1 DEF Pages, NULL, WILD
  <2>2. QED
    BY <1>2, <1>4, <2>1 DEF PagesInZones, ZoneOf
<1>10. BitsSet'
  BY <1>1, <1>2 DEF BitsSet, init_memory, Pages
<1>11. Building'
  <2>1. AvailBelow(1) = {}
    <3>1. boot.e820 \in Seq([addr : Nat, len : Nat,
                             type : {"available", "reserved"}])
      BY <1>1, BootAssumption DEF BootInfoOK
    <3>2. QED
      BY <3>1 DEF AvailBelow
  <2>2. AvailBelow(1)' = {}
    BY <1>2, <2>1 DEF AvailBelow
  <2>3. Cardinality(AvailBelow(idx)') = 0
    BY <2>2, FS_EmptySet DEF init_memory
  <2>4. QED
    BY <1>1, <1>2, <1>4, <2>3 DEF Building, init_memory, Attr
<1>12. Granted' /\ Requested' /\ OverlapOnlyFirst'
  BY <1>1 DEF init_memory, Granted, Requested, OverlapOnlyFirst, Building
<1>13. QED
  BY <1>6, <1>7, <1>8, <1>9, <1>10, <1>11, <1>12 DEF IInv

\* The available entries below an index: finitely many, one more per
\* available entry passed, never more than there are zones.
LEMMA AvailCount ==
  ASSUME boot \in BootInfos, NEW i \in DOMAIN boot.e820
  PROVE  /\ i \in Nat /\ i >= 1
         /\ Cardinality(AvailBelow(i)) \in Nat
         /\ Cardinality(AvailBelow(i + 1)) \in Nat
         /\ Cardinality(AvailBelow(i)) <= Cardinality(AvailBelow(i + 1))
         /\ Cardinality(AvailBelow(i + 1)) <= NZones(boot)
         /\ boot.e820[i].type = "available" =>
              Cardinality(AvailBelow(i + 1)) = Cardinality(AvailBelow(i)) + 1
<1> DEFINE A == {k \in DOMAIN boot.e820 : boot.e820[k].type = "available"}
<1>1. /\ boot.e820 \in Seq([addr : Nat, len : Nat,
                            type : {"available", "reserved"}])
      /\ Len(boot.e820) \in Nat /\ DOMAIN boot.e820 = 1 .. Len(boot.e820)
  BY BootAssumption DEF BootInfoOK
<1>2. IsFiniteSet(A)
  <2>1. IsFiniteSet(DOMAIN boot.e820)
    <3>1. 1 \in Int /\ Len(boot.e820) \in Int
      BY <1>1
    <3>2. IsFiniteSet(1 .. Len(boot.e820))
      BY <3>1, FS_Interval
    <3>3. QED
      BY <1>1, <3>2
  <2>2. A \subseteq DOMAIN boot.e820
    OBVIOUS
  <2>3. QED
    BY <2>1, <2>2, FS_Subset
<1>3. AvailBelow(i) \subseteq A /\ AvailBelow(i + 1) \subseteq A
  BY DEF AvailBelow
<1>4. /\ IsFiniteSet(AvailBelow(i)) /\ IsFiniteSet(AvailBelow(i + 1))
      /\ Cardinality(AvailBelow(i + 1)) <= Cardinality(A)
  BY <1>2, <1>3, FS_Subset
<1>5. NZones(boot) = Cardinality(A)
  BY DEF NZones
<1>6. /\ boot.e820[i].type = "available" =>
           AvailBelow(i + 1) = AvailBelow(i) \cup {i}
      /\ i \notin AvailBelow(i)
      /\ AvailBelow(i) \subseteq AvailBelow(i + 1)
  BY <1>1 DEF AvailBelow
<1> HIDE DEF A
<1>7. boot.e820[i].type = "available" =>
        Cardinality(AvailBelow(i + 1)) = Cardinality(AvailBelow(i)) + 1
  BY <1>4, <1>6, FS_AddElement
<1>8. Cardinality(AvailBelow(i)) <= Cardinality(AvailBelow(i + 1))
  BY <1>4, <1>6, FS_Subset
<1>9. QED
  BY <1>1, <1>4, <1>5, <1>7, <1>8, FS_CardinalityType

\* An iteration that builds a zone: the zone has a slot, its pages were in no
\* zone of that number before, and only bits of its pages are toggled.
LEMMA BuildZoneIInv == ASSUME IInv, BuildZone PROVE IInv'
<1>1. /\ TypeOK /\ ZonesInMap /\ PagesInZones /\ BitsSet /\ Building
      /\ CountersExact /\ pc = "zones" /\ boot \in BootInfos
  BY DEF IInv, BuildZone, TypeOK
<1>2. /\ boot' = boot /\ Pages' = Pages /\ Zones' = Zones /\ PageT' = PageT
      /\ pc' = pc /\ req' = req /\ grants' = grants
      /\ zone_idx' = zone_idx + 1 /\ idx' = idx + 1 /\ low' = low
  BY DEF BuildZone, Pages, Zones, PageT
<1>3. idx \in DOMAIN boot.e820
  <2>1. boot.e820 \in Seq([addr : Nat, len : Nat,
                           type : {"available", "reserved"}])
    BY <1>1, BootAssumption DEF BootInfoOK
  <2>2. QED
    BY <1>1, <2>1 DEF Building, BuildZone, TypeOK
<1> DEFINE e == boot.e820[idx]
           start == EntryStart(e)
           end == EntryEnd(e)
<1>4. /\ Usable(e)
      /\ zones_struct' = [zones_struct EXCEPT ![zone_idx] =
           [start |-> start, end |-> end,
            using |-> 0, free |-> end - start, link |-> 0]]
      /\ pages_struct' = ZonePages(start, end)
      /\ page_bits' = Toggle(page_bits, start .. end - 1)
  BY DEF BuildZone
<1>5. /\ start \in Nat /\ end \in Nat /\ start < end /\ end < NPages(boot)
      /\ start % W = 0 \/ start + 2 * W < NPages(boot)
  BY <1>1, <1>3, <1>4, EntryFacts
<1>6. /\ zone_idx \in Zones /\ zone_idx # NULL
      /\ zone_idx + 1 <= Cardinality(AvailBelow(idx + 1))
  <2>1. e.type = "available"
    BY <1>4 DEF Usable
  <2>2. /\ Cardinality(AvailBelow(idx)) \in Nat /\ zone_idx \in Nat
        /\ zone_idx <= Cardinality(AvailBelow(idx))
    BY <1>1, <1>3, AvailCount DEF Building, TypeOK
  <2>3. Cardinality(AvailBelow(idx + 1)) = Cardinality(AvailBelow(idx)) + 1
    BY <1>1, <1>3, <2>1, AvailCount
  <2>4. QED
    BY <1>1, <1>3, <2>1, <2>2, <2>3, AvailCount, BootFacts DEF Zones, NULL
<1> HIDE DEF e, start, end
<1> USE BootFacts
<1>7. start .. end - 1 \subseteq Pages /\ -1 \notin start .. end - 1
  BY <1>1, <1>5 DEF Pages
<1>8. /\ pages_struct' \in [Pages \cup {-1} -> PageT]
      /\ \A x \in start .. end - 1 :
           /\ ZoneOf(x)' = zone_idx /\ Attr(x)' = {}
           /\ pages_struct'[x].phy = x
      /\ \A x \in Pages \cup {-1} :
           x \notin start .. end - 1 => pages_struct'[x] = pages_struct[x]
  <2>1. pages_struct \in [Pages \cup {-1} -> PageT]
    BY <1>1 DEF TypeOK, PageT
  <2>2. \A x \in start .. end - 1 :
          [phy |-> x, attribute |-> {}, ref_count |-> 0, zone |-> zone_idx]
            \in PageT
    BY <1>5, <1>6 DEF PageT
  <2>3. pages_struct' = [x \in Pages \cup {-1} |->
          IF x \in start .. end - 1
            THEN [phy |-> x, attribute |-> {}, ref_count |-> 0,
                  zone |-> zone_idx]
            ELSE pages_struct[x]]
    BY <1>4, <2>1 DEF ZonePages
  <2>4. QED
    BY <1>7, <2>1, <2>2, <2>3 DEF Attr, ZoneOf
<1>9. \A x \in Pages : Attr(x)' = {}
  BY <1>1, <1>8 DEF Building, Attr
<1>10. /\ zones_struct' \in [Zones -> ZoneT]
       /\ zones_struct'[zone_idx].start = start
       /\ zones_struct'[zone_idx].end = end
       /\ zones_struct'[zone_idx].using = 0
       /\ zones_struct'[zone_idx].free = end - start
       /\ \A z \in Zones : z # zone_idx => zones_struct'[z] = zones_struct[z]
  <2>1. zones_struct \in [Zones -> ZoneT]
    BY <1>1 DEF TypeOK, ZoneT
  <2>2. [start |-> start, end |-> end, using |-> 0, free |-> end - start,
         link |-> 0] \in ZoneT
    BY <1>5 DEF ZoneT
  <2>3. QED
    BY <1>4, <1>6, <2>1, <2>2
<1>11. page_bits' \subseteq 0 .. NBits(boot) + W - 1
  <2>1. start .. end - 1 \subseteq 0 .. NBits(boot) + W - 1
    BY <1>1, <1>5
  <2>2. page_bits \subseteq 0 .. NBits(boot) + W - 1
    BY <1>1 DEF TypeOK
  <2>3. QED
    BY <1>4, <2>1, <2>2 DEF Toggle
<1>12. TypeOK'
  <2>1. idx' \in Nat /\ zone_idx' \in Nat /\ pc' = "zones" /\ boot' \in BootInfos
    BY <1>1, <1>2 DEF TypeOK
  <2>2. /\ pages_struct' \in [Pages' \cup {-1} -> PageT']
        /\ zones_struct' \in [Zones' -> ZoneT]
        /\ page_bits' \subseteq 0 .. NBits(boot') + W - 1
    BY <1>2, <1>8, <1>10, <1>11
  <2>3. QED
    BY <1>1, <1>2, <2>1, <2>2 DEF TypeOK, PageT, ZoneT
<1>13. ZonesInMap'
  BY <1>1, <1>2, <1>5, <1>10 DEF ZonesInMap
<1>14. PagesInZones'
  <2>1. /\ ZoneOf(-1)' \in {NULL, WILD}
        /\ \A x \in Pages : ZoneOf(x)' # WILD /\ pages_struct'[x].phy \in Pages
    <3>1. zone_idx # WILD
      BY <1>1 DEF TypeOK, WILD
    <3>2. QED
      BY <1>1, <1>7, <1>8, <3>1 DEF PagesInZones, ZoneOf
  <2>2. ASSUME NEW x \in Pages, ZoneOf(x)' # NULL
        PROVE  /\ ZoneOf(x)' < zone_idx'
               /\ x \in zones_struct'[ZoneOf(x)'].start ..
                          zones_struct'[ZoneOf(x)'].end - 1
               /\ pages_struct'[x].phy = x
    <3>1. CASE x \in start .. end - 1
      <4>1. ZoneOf(x)' = zone_idx /\ pages_struct'[x].phy = x
        BY <1>8, <3>1
      <4>2. zone_idx < zone_idx'
        BY <1>1, <1>2 DEF TypeOK
      <4>3. x \in zones_struct'[zone_idx].start .. zones_struct'[zone_idx].end - 1
        BY <1>10, <3>1
      <4>4. QED
        BY <4>1, <4>2, <4>3
    <3>2. CASE x \notin start .. end - 1
      <4>1. pages_struct'[x] = pages_struct[x] /\ ZoneOf(x)' = ZoneOf(x)
        BY <1>8, <3>2 DEF ZoneOf
      <4>2. /\ ZoneOf(x) \in Zones /\ ZoneOf(x) < zone_idx
            /\ x \in zones_struct[ZoneOf(x)].start ..
                       zones_struct[ZoneOf(x)].end - 1
            /\ pages_struct[x].phy = x
        BY <1>1, <2>1, <2>2, <4>1 DEF PagesInZones, TypeOK, ZoneOf
      <4>3. ZoneOf(x) # zone_idx /\ ZoneOf(x) < zone_idx + 1
        <5>1. zone_idx \in Nat
          BY <1>1 DEF TypeOK
        <5>2. ZoneOf(x) \in Int
          BY <4>2 DEF Zones
        <5>3. QED
          BY <4>2, <5>1, <5>2
      <4>4. QED
        BY <1>2, <1>10, <4>1, <4>2, <4>3
    <3>3. QED
      BY <3>1, <3>2
  <2>3. QED
    BY <1>2, <2>1, <2>2 DEF PagesInZones, ZoneOf
<1>15. BitsSet'
  <2>1. \A x \in 0 .. NBits(boot) + W - 1 :
          x \notin start .. end - 1 /\ x \in page_bits => x \in page_bits'
    BY <1>4 DEF Toggle
  <2>2. NPages(boot) - 1 .. NBits(boot) - 1 \subseteq page_bits'
    <3>1. ASSUME NEW x \in NPages(boot) - 1 .. NBits(boot) - 1
          PROVE  x \in page_bits'
      <4>1. x \notin start .. end - 1 /\ x \in 0 .. NBits(boot) + W - 1
        BY <1>1, <1>5
      <4>2. QED
        BY <1>1, <2>1, <4>1 DEF BitsSet
    <3>2. QED
      BY <3>1
  <2>3. ASSUME NEW x \in Pages, ZoneOf(x)' = NULL \/ Attr(x)' # {}
        PROVE  x \in page_bits'
    <3>1. x \notin start .. end - 1
      BY <1>6, <1>8, <1>9, <2>3
    <3>2. ZoneOf(x) = NULL /\ x \in 0 .. NBits(boot) + W - 1
      BY <1>1, <1>8, <1>9, <2>3, <3>1 DEF ZoneOf, Pages
    <3>3. QED
      BY <1>1, <2>1, <3>1, <3>2 DEF BitsSet
  <2>4. QED
    BY <1>2, <2>2, <2>3 DEF BitsSet, Attr, ZoneOf
<1>16. CountersExact'
  <2>1. \A z \in Zones : UsedIn(z)' = {} /\ UsedIn(z) = {}
    BY <1>1, <1>2, <1>9 DEF UsedIn, Attr, Building
  <2>2. \A z \in Zones : /\ Cardinality(UsedIn(z)') = 0
                         /\ Cardinality(UsedIn(z)) = 0
    BY <2>1, FS_EmptySet
  <2>3. \A z \in Zones :
          /\ zones_struct'[z].using = 0
          /\ zones_struct'[z].free =
               zones_struct'[z].end - zones_struct'[z].start - 0
    BY <1>1, <1>5, <1>6, <1>10, <2>2 DEF CountersExact
  <2>4. QED
    BY <1>2, <2>2, <2>3 DEF CountersExact
<1>17. Building'
  BY <1>1, <1>2, <1>6, <1>9 DEF Building, TypeOK, AvailBelow
<1>18. Granted' /\ Requested' /\ OverlapOnlyFirst'
  BY <1>1, <1>2 DEF Granted, Requested, OverlapOnlyFirst, Building
<1>19. QED
  BY <1>12, <1>13, <1>14, <1>15, <1>16, <1>17, <1>18 DEF IInv

\* Steps that leave the structures alone keep what is said about them.
LEMMA StructuresUnchanged ==
  ASSUME IInv, UNCHANGED <<boot, page_bits, pages_struct, zones_struct, zone_idx>>
  PROVE  /\ Pages' = Pages /\ Zones' = Zones /\ PageT' = PageT
         /\ ZonesInMap' /\ PagesInZones' /\ CountersExact'
         /\ \A x : Attr(x)' = Attr(x)
         /\ BitsSet => BitsSet'
BY DEF IInv, Pages, Zones, PageT, ZonesInMap, PagesInZones, CountersExact,
       UsedIn, BitsSet, Attr, ZoneOf

\* An iteration that skips an entry.
LEMMA SkipEntryIInv == ASSUME IInv, SkipEntry PROVE IInv'
<1>1. /\ TypeOK /\ BitsSet /\ Building /\ pc = "zones" /\ boot \in BootInfos
  BY DEF IInv, SkipEntry, TypeOK
<1>2. /\ UNCHANGED <<boot, page_bits, pages_struct, zones_struct, zone_idx>>
      /\ pc' = pc /\ req' = req /\ grants' = grants /\ idx' = idx + 1
      /\ low' = low
  BY DEF SkipEntry
<1>3. idx \in DOMAIN boot.e820
  <2>1. boot.e820 \in Seq([addr : Nat, len : Nat,
                           type : {"available", "reserved"}])
    BY <1>1, BootAssumption DEF BootInfoOK
  <2>2. QED
    BY <1>1, <2>1 DEF Building, SkipEntry, TypeOK
<1>4. zone_idx <= Cardinality(AvailBelow(idx + 1))
  BY <1>1, <1>3, AvailCount DEF Building, TypeOK
<1>5. TypeOK'
  BY <1>1, <1>2, StructuresUnchanged DEF TypeOK, PageT
<1>6. Building'
  BY <1>1, <1>2, <1>4, StructuresUnchanged
  DEF Building, TypeOK, AvailBelow
<1>7. Granted' /\ Requested' /\ OverlapOnlyFirst'
  BY <1>1, <1>2 DEF Granted, Requested, OverlapOnlyFirst, Building
<1>8. QED
  BY <1>1, <1>2, <1>5, <1>6, <1>7, StructuresUnchanged DEF IInv

\* The end of the first loop.
LEMMA ZonesDoneIInv == ASSUME IInv, ZonesDone PROVE IInv'
<1>1. /\ TypeOK /\ BitsSet /\ Building /\ pc = "zones" /\ boot \in BootInfos
  BY DEF IInv, ZonesDone, TypeOK
<1>2. /\ UNCHANGED <<boot, page_bits, pages_struct, zones_struct, zone_idx>>
      /\ pc' = "kernel" /\ req' = req /\ grants' = grants
      /\ idx' = KernelStart(boot) /\ low' = low
  BY DEF ZonesDone
<1>3. /\ KernelStart(boot) \in Nat /\ KernelEnd(boot) \in Nat
      /\ KernelStart(boot) < KernelEnd(boot)
  BY <1>1, BootFacts
<1>4. TypeOK'
  BY <1>1, <1>2, <1>3, StructuresUnchanged DEF TypeOK, PageT
<1>5. Building'
  BY <1>1, <1>2, <1>3 DEF Building
<1>6. Granted' /\ Requested' /\ OverlapOnlyFirst'
  BY <1>1, <1>2 DEF Granted, Requested, OverlapOnlyFirst, Building
<1>7. QED
  BY <1>1, <1>2, <1>4, <1>5, <1>6, StructuresUnchanged DEF IInv

\* One page of the kernel is reserved.
LEMMA ReserveKernelPageIInv == ASSUME IInv, ReserveKernelPage PROVE IInv'
<1>1. /\ TypeOK /\ BitsSet /\ Building /\ pc = "kernel" /\ boot \in BootInfos
  BY DEF IInv, ReserveKernelPage, TypeOK
<1>2. /\ boot' = boot /\ zone_idx' = zone_idx /\ pc' = pc /\ req' = req
      /\ grants' = grants /\ idx' = idx + 1 /\ page_init(idx, KernelFlags)
  BY DEF ReserveKernelPage
<1>3. /\ KernelStart(boot) \in Nat /\ KernelEnd(boot) \in Nat
      /\ KernelEnd(boot) <= NPages(boot) /\ NPages(boot) \in Nat
  BY <1>1, BootFacts
<1>4. /\ idx \in Pages /\ idx + 1 \in KernelStart(boot) .. KernelEnd(boot)
      /\ idx \in Nat
  BY <1>1, <1>3 DEF Building, ReserveKernelPage, Pages
<1>5. KernelFlags \in SUBSET PG /\ KernelFlags # {}
  BY DEF KernelFlags, PG
<1>6. /\ Structures'
      /\ \A p \in Pages \cup {-1} : Attr(p) # {} \/ p = idx => Attr(p)' # {}
  BY <1>1, <1>2, <1>4, <1>5, PageInitKeeps
<1>7. TypeOK'
  BY <1>1, <1>2, <1>4, <1>6 DEF TypeOK, Structures, PageT, ZoneT
<1>8. Building'
  <2>1. ASSUME NEW x \in KernelStart(boot) .. idx PROVE Attr(x)' # {}
    <3>1. x \in Pages
      BY <1>3, <1>4 DEF Pages
    <3>2. Attr(x) # {} \/ x = idx
      BY <1>1, <1>3, <1>4 DEF Building
    <3>3. QED
      BY <1>6, <3>1, <3>2
  <2>2. idx' - 1 = idx
    BY <1>2, <1>4
  <2>3. QED
    BY <1>1, <1>2, <1>4, <2>1, <2>2 DEF Building, Attr
<1>9. Granted' /\ Requested' /\ OverlapOnlyFirst'
  BY <1>1, <1>2 DEF Granted, Requested, OverlapOnlyFirst, Building
<1>10. QED
  BY <1>6, <1>7, <1>8, <1>9 DEF IInv, Structures

\* The kernel's pages become the first run that is handed out.
LEMMA KernelReservedIInv == ASSUME IInv, KernelReserved PROVE IInv'
<1>1. /\ TypeOK /\ BitsSet /\ Building /\ pc = "kernel" /\ boot \in BootInfos
  BY DEF IInv, KernelReserved, TypeOK
<1> DEFINE g == [page |-> KernelStart(boot),
                 n |-> KernelEnd(boot) - KernelStart(boot), aligned |-> TRUE]
<1>2. /\ UNCHANGED <<boot, page_bits, pages_struct, zones_struct, zone_idx>>
      /\ pc' = "ready" /\ req' = req /\ idx' = idx /\ grants' = <<g>>
      /\ low' = low
  BY DEF KernelReserved
<1>3. /\ KernelStart(boot) \in Nat /\ KernelEnd(boot) \in Nat
      /\ KernelStart(boot) < KernelEnd(boot)
      /\ KernelEnd(boot) <= NPages(boot) /\ NPages(boot) \in Nat
  BY <1>1, BootFacts
<1>4. g \in [page : Int, n : Nat, aligned : BOOLEAN]
  BY <1>3
<1>5. idx = KernelEnd(boot)
  BY <1>1, <1>3 DEF Building, KernelReserved
<1>6. Run(g) = KernelStart(boot) .. KernelEnd(boot) - 1
  BY <1>3 DEF Run
<1>7. TypeOK'
  <2>1. <<g>> \in Seq([page : Int, n : Nat, aligned : BOOLEAN])
    BY <1>4
  <2>2. QED
    BY <1>1, <1>2, <2>1, StructuresUnchanged DEF TypeOK, PageT
<1>8. Granted'
  <2>1. \A x \in Run(g) : x \in Pages \cup {-1} /\ Attr(x)' # {}
    BY <1>1, <1>2, <1>3, <1>5, <1>6, StructuresUnchanged DEF Building, Pages
  <2>2. DOMAIN grants' = {1} /\ grants'[1] = g
    BY <1>2
  <2>3. Pages' = Pages
    BY <1>2, StructuresUnchanged
  <2> HIDE DEF g
  <2>4. QED
    BY <2>1, <2>2, <2>3 DEF Granted, Attr, Run
<1>9. OverlapOnlyFirst'
  BY <1>2 DEF OverlapOnlyFirst
<1>10. Building' /\ Requested'
  BY <1>2 DEF Building, Requested
<1>11. QED
  BY <1>1, <1>2, <1>7, <1>8, <1>9, <1>10, StructuresUnchanged DEF IInv

-----------------------------------------------------------------------------
(* alloc_pages.                                                            *)

\* The zones alloc_pages looks at exist.
LEMMA ZoneRangeInZones ==
  ASSUME boot \in BootInfos, NEW s \in Selects PROVE ZoneRange(s) \subseteq Zones
<1>1. 0 .. 0 \subseteq Zones
  BY BootFacts DEF Zones
<1>2. QED
  BY <1>1 DEF Selects, ZoneRange

\* A window that starts in the word of j is free only if it ends below the
\* last page: that page's bit and the padding behind it are always set.
LEMMA AlignedHit ==
  ASSUME IInv, pc # "boot", NEW z \in Zones, NEW n \in 1 .. W,
         NEW h \in Hits(zones_struct[z], n), h[1] % W = 0
  PROVE  /\ h[1] + h[2] + n <= NPages(boot)
         /\ \A x \in h[1] + h[2] .. h[1] + h[2] + n - 1 : x \notin page_bits
<1>1. TypeOK /\ ZonesInMap /\ BitsSet /\ boot \in BootInfos
  BY DEF IInv, TypeOK
<1>2. /\ NPages(boot) \in Nat /\ NBits(boot) \in Nat /\ NPages(boot) >= 1
      /\ NBits(boot) >= NPages(boot) /\ NBits(boot) % W = 0
      /\ W \in Nat /\ W >= 1
  BY <1>1, BootFacts
<1>3. /\ zones_struct[z].start \in Nat /\ zones_struct[z].end \in Nat
      /\ zones_struct[z].end < NPages(boot)
  BY <1>1 DEF TypeOK, ZonesInMap
<1>4. /\ h[1] \in Nat /\ h[1] < NPages(boot) /\ h[2] \in 0 .. W - 1
      /\ WindowFree(h[1], h[2], n)
  BY <1>3, <1>2 DEF Hits, Scanned
<1>5. \A b \in 0 .. n - 1 : h[1] + h[2] + b \notin page_bits
  BY <1>2, <1>4 DEF WindowFree
<1>6. \A x \in h[1] + h[2] .. h[1] + h[2] + n - 1 : x \notin page_bits
  <2> SUFFICES ASSUME NEW x \in h[1] + h[2] .. h[1] + h[2] + n - 1
               PROVE  x \notin page_bits
    OBVIOUS
  <2>1. x - h[1] - h[2] \in 0 .. n - 1 /\ h[1] + h[2] + (x - h[1] - h[2]) = x
    BY <1>2, <1>4
  <2>2. QED
    BY <1>5, <2>1
<1>7. h[1] + W <= NBits(boot)
  BY <1>2, <1>4, WordFits
<1>8. h[1] + h[2] \in Nat /\ h[1] + h[2] < NBits(boot)
  BY <1>2, <1>4, <1>7
<1>9. h[1] + h[2] < NPages(boot) - 1
  <2>1. h[1] + h[2] \notin page_bits
    BY <1>2, <1>6, <1>8
  <2>2. QED
    BY <1>1, <1>2, <1>8, <2>1 DEF BitsSet
<1>10. NPages(boot) - 1 \in page_bits
  BY <1>1, <1>2 DEF BitsSet
<1>11. h[1] + h[2] + n - 1 < NPages(boot) - 1
  BY <1>2, <1>6, <1>8, <1>9, <1>10
<1>12. QED
  BY <1>2, <1>6, <1>8, <1>11

\* The run alloc_pages finds lies in the array, or starts in front of it; in
\* a word-aligned zone its bits, moved up by one, were clear.
LEMMA RunFits ==
  ASSUME IInv, pc # "boot", NEW z \in Zones, NEW n \in 1 .. W,
         NEW h \in Hits(zones_struct[z], n)
  PROVE  /\ FirstPage(h) \in Int /\ FirstPage(h) >= -1
         /\ FirstPage(h) + n <= NPages(boot)
         /\ zones_struct[z].start % W = 0 =>
              \A x \in FirstPage(h) + 1 .. FirstPage(h) + n - 1 :
                x \in Pages /\ x \notin page_bits
<1>1. TypeOK /\ ZonesInMap /\ boot \in BootInfos
  BY DEF IInv, TypeOK
<1>2. NPages(boot) \in Nat /\ W \in Nat /\ W >= 1
  BY <1>1, BootFacts
<1>3. /\ zones_struct[z].start \in Nat /\ zones_struct[z].end \in Nat
      /\ \/ zones_struct[z].start % W = 0
         \/ zones_struct[z].start + 2 * W < NPages(boot)
  BY <1>1 DEF TypeOK, ZonesInMap
<1>4. /\ h[1] \in Nat /\ h[2] \in 0 .. W - 1
      /\ h[1] = zones_struct[z].start \/ h[1] % W = 0
  BY <1>3 DEF Hits, Scanned
<1>5. CASE h[1] % W = 0
  <2>1. /\ h[1] + h[2] + n <= NPages(boot)
        /\ \A x \in h[1] + h[2] .. h[1] + h[2] + n - 1 : x \notin page_bits
    BY <1>5, AlignedHit
  <2>2. QED
    BY <1>2, <1>4, <2>1 DEF FirstPage, Pages
<1>6. CASE h[1] % W # 0
  <2>1. /\ h[1] = zones_struct[z].start /\ zones_struct[z].start % W # 0
        /\ h[1] + 2 * W < NPages(boot)
    BY <1>3, <1>4, <1>6
  <2>2. QED
    BY <1>2, <1>4, <2>1 DEF FirstPage
<1>7. QED
  BY <1>5, <1>6

\* alloc_pages finds a run: all but its first page are new in an aligned zone.
LEMMA AllocPagesIInv ==
  ASSUME IInv, NEW s \in Selects, NEW n \in 1 .. W, NEW f \in AllocFlags,
         alloc_pages(s, n, f)
  PROVE  IInv'
<1>1. /\ TypeOK /\ BitsSet /\ Granted /\ OverlapOnlyFirst
      /\ pc = "ready" /\ boot \in BootInfos
  BY DEF IInv, alloc_pages, TypeOK
<1>2. /\ UNCHANGED <<boot, page_bits, pages_struct, zones_struct, zone_idx>>
      /\ pc' = "pages" /\ idx' = idx /\ grants' = grants /\ low' = low
  BY DEF alloc_pages
<1>3a. PICK z \in Zones : \E h \in Hits(zones_struct[z], n) :
         req' = [page |-> FirstPage(h), n |-> n, flags |-> f, l |-> 0,
                 aligned |-> zones_struct[z].start % W = 0]
  BY <1>1, ZoneRangeInZones DEF alloc_pages
<1>3. PICK h \in Hits(zones_struct[z], n) :
        req' = [page |-> FirstPage(h), n |-> n, flags |-> f, l |-> 0,
                aligned |-> zones_struct[z].start % W = 0]
  BY <1>3a
<1>4. /\ FirstPage(h) \in Int /\ FirstPage(h) >= -1
      /\ FirstPage(h) + n <= NPages(boot)
      /\ zones_struct[z].start % W = 0 =>
           \A x \in FirstPage(h) + 1 .. FirstPage(h) + n - 1 :
             x \in Pages /\ x \notin page_bits
  BY <1>1, RunFits
<1>5. f \subseteq PG /\ f # {} /\ W \in Nat /\ NPages(boot) \in Nat
  BY <1>1, FlagsAssumption, BootFacts
<1>6. /\ req'.page = FirstPage(h) /\ req'.n = n /\ req'.flags = f
      /\ req'.l = 0 /\ (req'.aligned <=> zones_struct[z].start % W = 0)
      /\ req'.aligned \in BOOLEAN
  BY <1>3
<1>7. TypeOK'
  <2>1. req'.page + req'.l \in Pages \cup {-1}
    BY <1>4, <1>5, <1>6 DEF Pages
  <2>2. Pages' = Pages /\ Zones' = Zones
    BY <1>2 DEF Pages, Zones
  <2>3. /\ req'.page \in Int /\ req'.n \in 0 .. W /\ req'.l \in Nat
        /\ req'.flags \subseteq PG /\ req'.aligned \in BOOLEAN
    BY <1>4, <1>5, <1>6
  <2>4. /\ boot' \in BootInfos /\ page_bits' \subseteq 0 .. NBits(boot') + W - 1
        /\ zone_idx' \in Nat /\ idx' \in Nat
        /\ grants' \in Seq([page : Int, n : Nat, aligned : BOOLEAN])
    BY <1>1, <1>2 DEF TypeOK
  <2>5. QED
    BY <1>1, <1>2, <2>1, <2>2, <2>3, <2>4 DEF TypeOK
<1>8. Requested'
  <2>1. ASSUME zones_struct[z].start % W = 0, NEW a \in DOMAIN grants,
               NEW x \in Run(grants[a])
        PROVE  x \notin FirstPage(h) + 1 .. FirstPage(h) + n - 1
    <3>1. Attr(x) # {}
      BY <1>1 DEF Granted
    <3>2. x \in Pages => x \in page_bits
      BY <1>1, <3>1 DEF BitsSet
    <3>3. QED
      BY <1>4, <2>1, <3>2
  <2>2. /\ req'.flags # {} /\ req'.l < req'.n /\ req'.page >= -1
        /\ req'.page + req'.n <= NPages(boot)
        /\ req'.page .. req'.page + req'.l - 1 = {}
    BY <1>4, <1>5, <1>6
  <2>3. QED
    BY <1>2, <1>6, <2>1, <2>2 DEF Requested, Run
<1>9. Granted'
  BY <1>1, <1>2, StructuresUnchanged DEF Granted, Run
<1>10. Building' /\ OverlapOnlyFirst'
  BY <1>1, <1>2 DEF Building, OverlapOnlyFirst, Run
<1>11. QED
  BY <1>1, <1>2, <1>7, <1>8, <1>9, <1>10, StructuresUnchanged DEF IInv

\* One page_init of the run; the last one hands the run out.
LEMMA InitRunPageIInv == ASSUME IInv, InitRunPage PROVE IInv'
<1>1. /\ TypeOK /\ BitsSet /\ Granted /\ Requested /\ OverlapOnlyFirst
      /\ pc = "pages" /\ boot \in BootInfos
  BY DEF IInv, InitRunPage, TypeOK
<1> DEFINE x == req.page + req.l
<1>2. /\ boot' = boot /\ zone_idx' = zone_idx /\ idx' = idx
      /\ page_init(x, req.flags)
  BY DEF InitRunPage
<1>3. /\ req.page \in Int /\ req.n \in 0 .. W /\ req.l \in Nat /\ W \in Nat
      /\ req.flags \in SUBSET PG /\ req.flags # {} /\ req.aligned \in BOOLEAN
      /\ req.l < req.n /\ req.page >= -1 /\ req.page + req.n <= NPages(boot)
      /\ NPages(boot) \in Nat
  BY <1>1, BootFacts DEF TypeOK, Requested
<1>4. x \in Pages \cup {-1}
  BY <1>1 DEF TypeOK
<1>5. /\ Structures'
      /\ \A p \in Pages \cup {-1} : Attr(p) # {} \/ p = x => Attr(p)' # {}
  BY <1>1, <1>2, <1>3, <1>4, PageInitKeeps
<1>6. /\ Pages' = Pages /\ Zones' = Zones /\ PageT' = PageT
  BY <1>2 DEF Pages, Zones, PageT
<1>7. \A a \in DOMAIN grants :
        \A p \in Run(grants[a]) : p \in Pages \cup {-1} /\ Attr(p)' # {}
  BY <1>1, <1>5 DEF Granted
<1>8. \A p \in req.page .. req.page + req.l :
        p \in Pages \cup {-1} /\ Attr(p)' # {}
  <2> SUFFICES ASSUME NEW p \in req.page .. req.page + req.l
               PROVE  p \in Pages \cup {-1} /\ Attr(p)' # {}
    OBVIOUS
  <2>1. p \in Pages \cup {-1}
    BY <1>3 DEF Pages
  <2>2. Attr(p) # {} \/ p = x
    BY <1>1, <1>3 DEF Requested
  <2>3. QED
    BY <1>5, <2>1, <2>2
<1>9. CASE req.l + 1 < req.n
  <2>1. /\ req' = [req EXCEPT !.l = @ + 1] /\ pc' = pc /\ grants' = grants
    BY <1>9 DEF InitRunPage
  <2>2. /\ req'.page = req.page /\ req'.n = req.n /\ req'.flags = req.flags
        /\ req'.l = req.l + 1 /\ req'.aligned = req.aligned
    BY <2>1 DEF TypeOK
  <2>3. TypeOK'
    <3>1. req'.page + req'.l \in Pages \cup {-1}
      BY <1>3, <1>9, <2>2 DEF Pages
    <3>2. /\ req'.page \in Int /\ req'.n \in 0 .. W /\ req'.l \in Nat
          /\ req'.flags \subseteq PG /\ req'.aligned \in BOOLEAN
      BY <1>3, <2>2
    <3>3. QED
      BY <1>1, <1>2, <1>5, <1>6, <2>1, <3>1, <3>2
      DEF TypeOK, Structures, PageT, ZoneT
  <2>4. Granted'
    BY <1>6, <1>7, <2>1 DEF Granted, Attr, Run
  <2>5. Requested'
    <3>1. req'.page + req'.l - 1 = req.page + req.l
      BY <1>3, <2>2
    <3>2. \A p \in req'.page .. req'.page + req'.l - 1 : Attr(p)' # {}
      BY <1>8, <2>2, <3>1
    <3>3. QED
      BY <1>1, <1>2, <1>3, <1>9, <2>1, <2>2, <3>2 DEF Requested, Run, Attr
  <2>6. Building' /\ OverlapOnlyFirst'
    BY <1>1, <2>1 DEF Building, OverlapOnlyFirst, Run
  <2>7. QED
    BY <1>5, <2>3, <2>4, <2>5, <2>6 DEF IInv, Structures
<1>10. CASE ~(req.l + 1 < req.n)
  <2> DEFINE g == [page |-> req.page, n |-> req.n, aligned |-> req.aligned]
  <2>1. /\ req' = NoReq /\ pc' = "ready" /\ grants' = Append(grants, g)
    BY <1>10 DEF InitRunPage
  <2>2. g \in [page : Int, n : Nat, aligned : BOOLEAN]
    BY <1>3
  <2>3. /\ grants \in Seq([page : Int, n : Nat, aligned : BOOLEAN])
        /\ Len(grants) \in Nat /\ DOMAIN grants = 1 .. Len(grants)
    BY <1>1 DEF TypeOK
  <2>4. /\ grants' \in Seq([page : Int, n : Nat, aligned : BOOLEAN])
        /\ DOMAIN grants' = 1 .. Len(grants) + 1
        /\ \A a \in DOMAIN grants : grants'[a] = grants[a]
        /\ grants'[Len(grants) + 1] = g
    BY <2>1, <2>2, <2>3
  <2>5. Run(g) = req.page .. req.page + req.n - 1
    BY DEF Run
  <2>6. \A p \in Run(g) : p \in Pages \cup {-1} /\ Attr(p)' # {}
    <3>1. req.page + req.n - 1 = req.page + req.l
      BY <1>3, <1>10
    <3>2. QED
      BY <1>8, <2>5, <3>1
  <2>7. req.aligned => \A a \in DOMAIN grants :
                         Run(grants[a]) \cap Run(g) \subseteq {req.page}
    BY <1>1, <1>3, <2>5 DEF Requested
  <2>8. g.page = req.page /\ g.aligned = req.aligned
    OBVIOUS
  <2> HIDE DEF g
  <2>9. TypeOK'
    <3>1. /\ req'.page \in Int /\ req'.n \in 0 .. W /\ req'.l \in Nat
          /\ req'.flags \subseteq PG /\ req'.aligned \in BOOLEAN
      BY <1>3, <2>1 DEF NoReq
    <3>2. QED
      BY <1>1, <1>2, <1>5, <1>6, <2>1, <2>4, <3>1
      DEF TypeOK, Structures, PageT, ZoneT
  <2>10. Granted'
    <3> SUFFICES ASSUME NEW a \in DOMAIN grants', NEW p \in Run(grants'[a])
                 PROVE  p \in Pages' \cup {-1} /\ Attr(p)' # {}
      BY DEF Granted, Attr, Run
    <3>1. CASE a \in DOMAIN grants
      BY <1>6, <1>7, <2>4, <3>1
    <3>2. CASE a = Len(grants) + 1
      BY <1>6, <2>4, <2>6, <3>2
    <3>3. a \in DOMAIN grants \/ a = Len(grants) + 1
      <4>1. a \in 1 .. Len(grants) + 1
        BY <2>4
      <4>2. QED
        BY <2>3, <4>1
    <3>4. QED
      BY <3>1, <3>2, <3>3
  <2>11. OverlapOnlyFirst'
    <3> SUFFICES ASSUME NEW a \in DOMAIN grants', NEW b \in DOMAIN grants',
                        a < b, grants'[b].aligned
                 PROVE  Run(grants'[a]) \cap Run(grants'[b])
                          \subseteq {grants'[b].page}
      BY DEF OverlapOnlyFirst, Run
    <3>1. a \in DOMAIN grants /\ grants'[a] = grants[a]
      <4>1. a \in 1 .. Len(grants) + 1 /\ b \in 1 .. Len(grants) + 1
        BY <2>4
      <4>2. a \in 1 .. Len(grants)
        BY <2>3, <4>1
      <4>3. QED
        BY <2>3, <2>4, <4>2
    <3>2. CASE b \in DOMAIN grants
      <4>1. grants'[b] = grants[b]
        BY <2>4, <3>2
      <4>2. a \in DOMAIN grants /\ b \in DOMAIN grants /\ grants[b].aligned
        BY <3>1, <3>2, <4>1
      <4>3. Run(grants[a]) \cap Run(grants[b]) \subseteq {grants[b].page}
        BY <1>1, <4>2, Zenon DEF OverlapOnlyFirst
      <4>4. QED
        BY <3>1, <4>1, <4>3
    <3>3. CASE b = Len(grants) + 1
      <4>1. grants'[b] = g
        BY <2>4, <3>3
      <4>2. req.aligned
        BY <2>8, <4>1
      <4>3. Run(grants[a]) \cap Run(g) \subseteq {req.page}
        BY <2>7, <3>1, <4>2
      <4>4. QED
        BY <2>8, <3>1, <4>1, <4>3
    <3>4. b \in DOMAIN grants \/ b = Len(grants) + 1
      BY <2>3, <2>4
    <3>5. QED
      BY <3>2, <3>3, <3>4
  <2>12. Building' /\ Requested'
    BY <2>1 DEF Building, Requested
  <2>13. QED
    BY <1>5, <2>9, <2>10, <2>11, <2>12 DEF IInv, Structures
<1>11. QED
  BY <1>9, <1>10

\* Only the slot in front of the array is astray: a page of the kernel's, or
\* any other page of the run, is described.
LEMMA InitAstrayIInv == ASSUME IInv, InitAstray PROVE IInv'
<1>1. /\ TypeOK /\ PagesInZones /\ BitsSet /\ Granted /\ OverlapOnlyFirst
      /\ Building /\ Requested /\ pc \in {"kernel", "pages"}
      /\ boot \in BootInfos
  BY DEF IInv, InitAstray, TypeOK
<1>2. /\ UNCHANGED <<boot, page_bits, pages_struct, zones_struct, zone_idx>>
      /\ pc' = "lost" /\ idx' = idx /\ req' = req /\ grants' = grants
      /\ low' = low
  BY DEF InitAstray
<1>3. Initialising \notin Pages
  BY <1>1, PagesNotAstray DEF InitAstray
<1>4. pc = "pages"
  <2>1. pc = "kernel" => idx \in Pages
    BY <1>1, BootFacts DEF InitAstray, Building, Pages
  <2>2. QED
    BY <1>1, <1>3, <2>1 DEF Initialising
<1>5. req.page + req.l = -1 /\ req.n > 0
  <2>1. req.page + req.l \in Pages \cup {-1} /\ req.page + req.l \notin Pages
    BY <1>1, <1>3, <1>4 DEF Initialising, TypeOK
  <2>2. req.n \in Nat /\ req.l \in Nat /\ req.l < req.n
    BY <1>1, <1>4, BootFacts DEF TypeOK, Requested
  <2>3. QED
    BY <2>1, <2>2
<1>6. TypeOK'
  BY <1>1, <1>2, <1>5, StructuresUnchanged DEF TypeOK, PageT
<1>7. Granted' /\ Building' /\ Requested' /\ OverlapOnlyFirst'
  BY <1>1, <1>2, StructuresUnchanged
  DEF Granted, Building, Requested, OverlapOnlyFirst, Run
<1>8. QED
  BY <1>1, <1>2, <1>6, <1>7, StructuresUnchanged DEF IInv

-----------------------------------------------------------------------------
(* The theorems about the page manager.                                    *)

\* IInv is inductive: one case per action.
LEMMA NextIInv == IInv /\ [Next]_vars => IInv'
<1> SUFFICES ASSUME IInv, [Next]_vars PROVE IInv'
  OBVIOUS
<1>1. CASE init_memory
  BY <1>1, InitMemoryIInv
<1>2. CASE BuildZone
  BY <1>2, BuildZoneIInv
<1>3. CASE SkipEntry
  BY <1>3, SkipEntryIInv
<1>4. CASE ZonesDone
  BY <1>4, ZonesDoneIInv
<1>5. CASE ReserveKernelPage
  BY <1>5, ReserveKernelPageIInv
<1>6. CASE KernelReserved
  BY <1>6, KernelReservedIInv
<1>7. CASE \E s \in Selects, n \in 1 .. W, f \in AllocFlags : alloc_pages(s, n, f)
  BY <1>7, AllocPagesIInv
<1>8. CASE InitRunPage
  BY <1>8, InitRunPageIInv
<1>9. CASE UNCHANGED vars \/ Lost
  <2> USE DEF Lost
  <2>1. UNCHANGED <<boot, page_bits, pages_struct, zones_struct, zone_idx>>
    BY <1>9 DEF vars
  <2>2. /\ ZonesInMap' /\ PagesInZones' /\ CountersExact'
        /\ BitsSet => BitsSet'
    BY <2>1, StructuresUnchanged
  <2>3. TypeOK'
    BY <1>9, StructuresUnchanged, <2>1 DEF vars, IInv, TypeOK, PageT
  <2>4. Building' /\ Granted' /\ Requested' /\ OverlapOnlyFirst'
    BY <1>9, <2>1, StructuresUnchanged
    DEF vars, IInv, Building, Granted, Requested, OverlapOnlyFirst,
        AvailBelow, Run
  <2>5. QED
    BY <1>9, <2>2, <2>3, <2>4 DEF vars, IInv
<1>10. CASE InitAstray
  BY <1>10, InitAstrayIInv
<1>11. QED
  BY <1>1, <1>2, <1>3, <1>4, <1>5, <1>6, <1>7, <1>8, <1>9, <1>10
  DEF Next, alloc_pages_NULL

\* IInv holds in every state of every behaviour.
LEMMA AlwaysIInv == Spec => []IInv
BY InitIInv, NextIInv, PTL DEF Spec

\* Whatever map, flags and sequence of allocations, page_init is called for
\* described pages and for the entry in front of the array, only that entry
\* can lead it out of bitmap, descriptors, zones and the three words at a null
\* zone pointer, and no zone's counter runs below zero.
THEOREM Typed == Spec => []TypeOK
<1>1. IInv => TypeOK
  BY DEF IInv
<1>2. QED
  BY <1>1, AlwaysIInv, PTL

\* A page whose bit is clear is in a zone and unused, always.
THEOREM FreeBitsAreFreePages == Spec => []FreeBitMeansFreePage
<1>1. IInv => FreeBitMeansFreePage
  BY DEF IInv, BitsSet, FreeBitMeansFreePage, Attr, ZoneOf
<1>2. QED
  BY <1>1, AlwaysIInv, PTL

\* The counters of every zone agree with its page descriptors, always.
THEOREM CountersAreExact == Spec => []CountersExact
<1>1. IInv => CountersExact
  BY DEF IInv
<1>2. QED
  BY <1>1, AlwaysIInv, PTL

\* Runs from word-aligned zones overlap earlier runs in their first page at
\* most: the off-by-one of alloc_pages costs one page per run, never more.
THEOREM OverlapsOnlyFirst == Spec => []OverlapOnlyFirst
<1>1. IInv => OverlapOnlyFirst
  BY DEF IInv
<1>2. QED
  BY <1>1, AlwaysIInv, PTL


-----------------------------------------------------------------------------
(* Sums, by induction on a set of numbers.                                 *)

\* A set of natural numbers has a least element.
LEMMA Least ==
  ASSUME NEW T, T \subseteq Nat, T # {}
  PROVE  \E x \in T : \A y \in T : x <= y
<1>1. PICK R : R = OpToRel(<, Nat)
  OBVIOUS
<1>2. IsWellFoundedOn(R, Nat)
  BY <1>1, NatLessThanWellFounded
<1>3. PICK x \in T : \A y \in T : ~ (<<y, x>> \in R)
  BY <1>2, WFMin
<1>4. \A m, n \in Nat : m < n => <<m, n>> \in R
  BY <1>1 DEF OpToRel
<1>5. ASSUME NEW y \in T PROVE x <= y
  <2>1. x \in Nat /\ y \in Nat /\ ~(y < x)
    BY <1>3, <1>4
  <2>2. QED
    BY <2>1
<1>6. QED
  BY <1>3, <1>5

\* A set that contains 0 and every successor contains every number.
LEMMA Induction ==
  ASSUME NEW T, T \subseteq Nat, 0 \in T, \A n \in T : n + 1 \in T
  PROVE  \A n \in Nat : n \in T
<1> SUFFICES ASSUME Nat \ T # {} PROVE FALSE
  OBVIOUS
<1>1. PICK x \in Nat \ T : \A y \in Nat \ T : x <= y
  BY Least
<1>2. x - 1 \in Nat /\ x - 1 \in T
  BY <1>1
<1>3. QED
  BY <1>1, <1>2

\* a step of a sum
AddUp(s, f, n) == IF n = 0 THEN 0 ELSE s[n - 1] + f[n - 1]

\* There is a function that adds up any number of terms.
LEMMA SumExists ==
  ASSUME NEW f
  PROVE  \A N \in Nat : \E s : s = [n \in 0 .. N |-> AddUp(s, f, n)]
<1> DEFINE T == {N \in Nat : \E s : s = [n \in 0 .. N |-> AddUp(s, f, n)]}
<1>1. 0 \in T
  <2> DEFINE s == [n \in 0 .. 0 |-> 0]
  <2>1. s = [n \in 0 .. 0 |-> AddUp(s, f, n)]
    BY DEF AddUp
  <2>2. QED
    BY <2>1
<1>2. ASSUME NEW N \in T PROVE N + 1 \in T
  <2>1. PICK s : s = [n \in 0 .. N |-> AddUp(s, f, n)]
    BY <1>2
  <2> DEFINE g == [n \in 0 .. N + 1 |-> IF n = N + 1 THEN AddUp(s, f, n) ELSE s[n]]
  <2>2. N \in Nat
    OBVIOUS
  <2>3. ASSUME NEW n \in 0 .. N + 1 PROVE g[n] = AddUp(g, f, n)
    <3>1. CASE n = 0
      BY <2>1, <2>2, <3>1 DEF AddUp
    <3>2. CASE n # 0
      <4>1. n - 1 \in 0 .. N /\ n - 1 # N + 1
        BY <2>2, <3>2
      <4>2. g[n - 1] = s[n - 1]
        BY <2>2, <4>1
      <4>3. AddUp(g, f, n) = AddUp(s, f, n)
        BY <4>2 DEF AddUp
      <4>4. g[n] = AddUp(s, f, n)
        BY <2>1, <2>2
      <4>5. QED
        BY <4>3, <4>4
    <3>3. QED
      BY <3>1, <3>2
  <2>4. g = [n \in 0 .. N + 1 |-> AddUp(g, f, n)]
    BY <2>3
  <2>5. \E h : h = [n \in 0 .. N + 1 |-> AddUp(h, f, n)]
    <3> HIDE DEF g
    <3>1. QED
      BY <2>4
  <2>6. QED
    BY <2>2, <2>5
<1>3. \A N \in Nat : N \in T
  <2> HIDE DEF T
  <2>1. T \subseteq Nat
    BY DEF T
  <2>2. QED
    BY <1>1, <1>2, <2>1, Induction
<1>4. QED
  BY <1>3

\* s adds up f as far as N
Adds(s, f, N) ==
  s[0] = 0 /\ \A n \in 0 .. N - 1 : s[n + 1] = s[n] + f[n]

\* SumBelow is what such a function has in the end.
LEMMA SumAdds ==
  ASSUME NEW f, NEW N \in Nat
  PROVE  \E s : Adds(s, f, N) /\ SumBelow(f, N) = s[N]
<1> DEFINE F == CHOOSE s : s = [k \in 0 .. N |-> IF k = 0 THEN 0 ELSE s[k - 1] + f[k - 1]]
<1>1. \E s : s = [k \in 0 .. N |-> IF k = 0 THEN 0 ELSE s[k - 1] + f[k - 1]]
  <2>1. PICK s : s = [n \in 0 .. N |-> AddUp(s, f, n)]
    BY SumExists
  <2>2. s = [k \in 0 .. N |-> IF k = 0 THEN 0 ELSE s[k - 1] + f[k - 1]]
    BY <2>1, Zenon DEF AddUp
  <2>3. QED
    BY <2>2
<1>2. F = [k \in 0 .. N |-> IF k = 0 THEN 0 ELSE F[k - 1] + f[k - 1]]
  BY <1>1, Zenon
<1>3. SumBelow(f, N) = F[N]
  BY Zenon DEF SumBelow
<1> HIDE DEF F
<1>4. F[0] = 0
  BY <1>2
<1>5. ASSUME NEW n \in 0 .. N - 1 PROVE F[n + 1] = F[n] + f[n]
  <2>1. n + 1 \in 0 .. N /\ n + 1 # 0 /\ (n + 1) - 1 = n
    OBVIOUS
  <2>2. QED
    BY <1>2, <2>1
<1>6. Adds(F, f, N)
  BY <1>4, <1>5 DEF Adds
<1>7. QED
  BY <1>3, <1>6

\* A sum of nothing but zeros.
LEMMA SumOfZeros ==
  ASSUME NEW f, NEW N \in Nat, \A n \in 0 .. N - 1 : f[n] = 0
  PROVE  SumBelow(f, N) = 0
<1>1. PICK s : Adds(s, f, N) /\ SumBelow(f, N) = s[N]
  BY SumAdds
<1> DEFINE T == {n \in Nat : n <= N => s[n] = 0}
<1>2. 0 \in T
  BY <1>1 DEF Adds
<1>3. ASSUME NEW n \in T PROVE n + 1 \in T
  <2>1. CASE n + 1 <= N
    <3>1. n \in 0 .. N - 1 /\ s[n] = 0 /\ f[n] = 0
      BY <2>1
    <3>2. s[n + 1] = 0
      BY <1>1, <3>1 DEF Adds
    <3>3. QED
      BY <3>2
  <2>2. CASE ~(n + 1 <= N)
    BY <2>2
  <2>3. QED
    BY <2>1, <2>2
<1>4. \A n \in Nat : n \in T
  <2> HIDE DEF T
  <2>1. T \subseteq Nat
    BY DEF T
  <2>2. QED
    BY <1>2, <1>3, <2>1, Induction
<1>5. QED
  BY <1>1, <1>4

\* One more at one place is one more in the sum.
LEMMA SumOfOneMore ==
  ASSUME NEW N \in Nat, NEW f, \A n \in 0 .. N - 1 : f[n] \in Nat,
         NEW i \in 0 .. N - 1, NEW g, g[i] = f[i] + 1,
         \A n \in 0 .. N - 1 : n # i => g[n] = f[n]
  PROVE  SumBelow(g, N) = SumBelow(f, N) + 1
<1>1. PICK s : Adds(s, f, N) /\ SumBelow(f, N) = s[N]
  BY SumAdds
<1>2. PICK t : Adds(t, g, N) /\ SumBelow(g, N) = t[N]
  BY SumAdds
<1> DEFINE T == {n \in Nat : n <= N =>
                   s[n] \in Nat /\ t[n] = s[n] + (IF i < n THEN 1 ELSE 0)}
<1>3. 0 \in T
  BY <1>1, <1>2 DEF Adds
<1>4. ASSUME NEW n \in T PROVE n + 1 \in T
  <2>1. CASE n + 1 <= N
    <3>1. /\ n \in 0 .. N - 1 /\ s[n] \in Nat /\ f[n] \in Nat
          /\ t[n] = s[n] + (IF i < n THEN 1 ELSE 0)
      BY <2>1
    <3>2. s[n + 1] = s[n] + f[n] /\ t[n + 1] = t[n] + g[n]
      BY <1>1, <1>2, <3>1 DEF Adds
    <3>3. CASE n = i
      <4>1. g[n] = f[n] + 1
        BY <3>3
      <4>2. QED
        BY <3>1, <3>2, <3>3, <4>1
    <3>4. CASE n # i
      <4>1. g[n] = f[n]
        BY <3>1, <3>4
      <4>2. QED
        BY <3>1, <3>2, <3>4, <4>1
    <3>5. QED
      BY <3>3, <3>4
  <2>2. CASE ~(n + 1 <= N)
    BY <2>2
  <2>3. QED
    BY <2>1, <2>2
<1>5. \A n \in Nat : n \in T
  <2> HIDE DEF T
  <2>1. T \subseteq Nat
    BY DEF T
  <2>2. QED
    BY <1>3, <1>4, <2>1, Induction
<1>6. t[N] = s[N] + 1
  BY <1>5
<1>7. QED
  BY <1>1, <1>2, <1>6


-----------------------------------------------------------------------------
(* The references.                                                         *)

\* Until the kernel's pages are reserved nothing is referenced.
Unlinked ==
  pc \in {"boot", "zones"} =>
    /\ \A x \in Pages : pages_struct[x].ref_count = 0
    /\ \A z \in Zones : zones_struct[z].link = 0

\* Nothing referenced, nothing counted.
LEMMA UnlinkedExact ==
  boot \in BootInfos /\ pc \in {"boot", "zones"} /\ Unlinked => LinksExact
<1> SUFFICES ASSUME boot \in BootInfos, pc \in {"boot", "zones"}, Unlinked,
                    NEW z \in Zones
             PROVE  zones_struct[z].link = SumBelow(RefsTo(z), NPages(boot))
  BY DEF LinksExact
<1>1. PICK f, N : f = RefsTo(z) /\ N = NPages(boot)
  OBVIOUS
<1>2. N \in Nat /\ Pages = 0 .. N - 1
  BY <1>1, BootFacts DEF Pages
<1>3. \A n \in 0 .. N - 1 : f[n] = 0
  BY <1>1, <1>2 DEF RefsTo, Unlinked
<1>4. SumBelow(f, N) = 0
  BY <1>2, <1>3, SumOfZeros
<1>5. QED
  BY <1>1, <1>4 DEF Unlinked

\* The same of the next state.
LEMMA UnlinkedExactNext ==
  (boot \in BootInfos /\ pc \in {"boot", "zones"} /\ Unlinked => LinksExact)'
BY UnlinkedExact, PTL

\* page_init counts a reference in both places or in neither.
LEMMA PageInitLinks ==
  ASSUME TypeOK, PagesInZones, LinksExact, boot' = boot, NEW x \in Pages \cup {-1},
         NEW flags \in SUBSET PG, page_init(x, flags)
  PROVE  LinksExact'
<1>1. /\ pages_struct \in [Pages \cup {-1} -> PageT] /\ boot \in BootInfos
      /\ zones_struct \in [Zones -> ZoneT]
  BY DEF TypeOK, PageT, ZoneT
<1>2. Pages' = Pages /\ Zones' = Zones
  BY DEF Pages, Zones
<1>3. PICK N : N = NPages(boot)
  OBVIOUS
<1>4. N \in Nat /\ Pages = 0 .. N - 1
  BY <1>1, <1>3, BootFacts DEF Pages
<1>5. /\ pages_struct[x] \in PageT
      /\ Counts(pages_struct[x], flags) => ZoneOf(x) \in Zones \cup {NULL}
      /\ NULL \notin Zones /\ NULL = -1 /\ WILD \notin Zones
  BY <1>1, NotAstray DEF Zones, NULL, WILD
<1>6. \/ /\ \A p \in Pages \cup {-1} :
              /\ pages_struct'[p].zone = ZoneOf(p)
              /\ pages_struct'[p].ref_count =
                   pages_struct[p].ref_count + (IF p = x THEN 1 ELSE 0)
         /\ \A z \in Zones :
              zones_struct'[z].link = zones_struct[z].link
                                        + (IF z = ZoneOf(x) THEN 1 ELSE 0)
      \/ /\ \A p \in Pages \cup {-1} :
              /\ pages_struct'[p].zone = ZoneOf(p)
              /\ pages_struct'[p].ref_count = pages_struct[p].ref_count
         /\ \A z \in Zones : zones_struct'[z].link = zones_struct[z].link
  <2>1. /\ \A p \in Pages \cup {-1} : pages_struct[p] \in PageT
        /\ \A p \in Pages \cup {-1} : pages_struct[p].ref_count \in Nat
        /\ \A z \in Zones : zones_struct[z].link \in Nat /\ zones_struct[z] \in ZoneT
    BY <1>1 DEF PageT, ZoneT
  <2>2. ASSUME NEW a, pages_struct' = [pages_struct EXCEPT ![x].attribute = a,
                                                           ![x].ref_count = @ + 1]
        PROVE  \A p \in Pages \cup {-1} :
                 /\ pages_struct'[p].zone = ZoneOf(p)
                 /\ pages_struct'[p].ref_count =
                      pages_struct[p].ref_count + (IF p = x THEN 1 ELSE 0)
    BY <1>1, <2>1, <2>2 DEF PageT, ZoneOf
  <2>3. /\ Count(ZoneOf(x), CountUse) \/ Count(ZoneOf(x), CountLink)
        /\ ZoneOf(x) \in Zones \cup {NULL}
        => \A z \in Zones :
             zones_struct'[z].link = zones_struct[z].link
                                       + (IF z = ZoneOf(x) THEN 1 ELSE 0)
    <3>1. CASE ZoneOf(x) = NULL
      BY <1>5, <2>1, <3>1 DEF Count
    <3>2. ASSUME ZoneOf(x) \in Zones, NEW c,
                 c.link = zones_struct[ZoneOf(x)].link + 1,
                 zones_struct' = [zones_struct EXCEPT ![ZoneOf(x)] = c],
                 NEW z \in Zones
          PROVE  zones_struct'[z].link = zones_struct[z].link
                                           + (IF z = ZoneOf(x) THEN 1 ELSE 0)
      <4>1. CASE z = ZoneOf(x)
        BY <1>1, <3>2, <4>1
      <4>2. CASE z # ZoneOf(x)
        BY <1>1, <2>1, <3>2, <4>2
      <4>3. QED
        BY <4>1, <4>2
    <3>3. ASSUME ZoneOf(x) \in Zones, Count(ZoneOf(x), CountUse)
          PROVE  \A z \in Zones :
                   zones_struct'[z].link = zones_struct[z].link
                                             + (IF z = ZoneOf(x) THEN 1 ELSE 0)
      <4>1. PICK c : c = [zones_struct[ZoneOf(x)] EXCEPT
                    !.using = @ + 1, !.free = @ - 1, !.link = @ + 1]
        OBVIOUS
      <4>2. c.link = zones_struct[ZoneOf(x)].link + 1
        BY <2>1, <3>3, <4>1 DEF ZoneT
      <4>3. zones_struct' = [zones_struct EXCEPT ![ZoneOf(x)] = c]
        BY <1>5, <3>3, <4>1 DEF Count, CountUse
      <4>4. QED
        BY <3>2, <3>3, <4>2, <4>3
    <3>4. ASSUME ZoneOf(x) \in Zones, Count(ZoneOf(x), CountLink)
          PROVE  \A z \in Zones :
                   zones_struct'[z].link = zones_struct[z].link
                                             + (IF z = ZoneOf(x) THEN 1 ELSE 0)
      <4>1. PICK c : c = [zones_struct[ZoneOf(x)] EXCEPT !.link = @ + 1]
        OBVIOUS
      <4>2. c.link = zones_struct[ZoneOf(x)].link + 1
        BY <2>1, <3>4, <4>1 DEF ZoneT
      <4>3. zones_struct' = [zones_struct EXCEPT ![ZoneOf(x)] = c]
        BY <1>5, <3>4, <4>1 DEF Count, CountLink
      <4>4. QED
        BY <3>2, <3>4, <4>2, <4>3
    <3>5. QED
      BY <3>1, <3>3, <3>4
  <2>4. CASE Attr(x) = {}
    <3>1. /\ Count(ZoneOf(x), CountUse) /\ ZoneOf(x) \in Zones \cup {NULL}
          /\ pages_struct' = [pages_struct EXCEPT ![x].attribute = flags,
                                                  ![x].ref_count = @ + 1]
      BY <1>5, <2>4 DEF page_init, Counts, Attr, ZoneOf
    <3>2. QED
      BY <2>2, <2>3, <3>1
  <2>5. CASE Attr(x) # {} /\ (Shares(Attr(x)) \/ Shares(flags))
    <3>1. /\ Count(ZoneOf(x), CountLink) /\ ZoneOf(x) \in Zones \cup {NULL}
          /\ pages_struct' = [pages_struct EXCEPT
               ![x].attribute = pages_struct[x].attribute \cup flags,
               ![x].ref_count = @ + 1]
      BY <1>1, <1>5, <2>5 DEF page_init, Counts, Attr, ZoneOf
    <3>2. QED
      BY <2>2, <2>3, <3>1
  <2>6. CASE Attr(x) # {} /\ ~Shares(Attr(x)) /\ ~Shares(flags)
    <3>1. /\ zones_struct' = zones_struct
          /\ pages_struct' = [pages_struct EXCEPT
               ![x].attribute = pages_struct[x].attribute \cup flags]
      BY <1>1, <2>6 DEF page_init, Attr
    <3>2. \A p \in Pages \cup {-1} :
            /\ pages_struct'[p].zone = ZoneOf(p)
            /\ pages_struct'[p].ref_count = pages_struct[p].ref_count
      BY <1>1, <2>1, <3>1 DEF PageT, ZoneOf
    <3>3. QED
      BY <3>1, <3>2
  <2>7. QED
    BY <2>4, <2>5, <2>6
<1>7. ASSUME NEW z \in Zones
      PROVE  zones_struct'[z].link = SumBelow(RefsTo(z)', N)
  <2>1. PICK f, g : f = RefsTo(z) /\ g = RefsTo(z)'
    OBVIOUS
  <2>2. /\ f = [p \in 0 .. N - 1 |-> IF pages_struct[p].zone = z
                                       THEN pages_struct[p].ref_count ELSE 0]
        /\ g = [p \in 0 .. N - 1 |-> IF pages_struct'[p].zone = z
                                       THEN pages_struct'[p].ref_count ELSE 0]
    BY <1>2, <1>4, <2>1 DEF RefsTo
  <2>3. zones_struct[z].link = SumBelow(f, N)
    BY <1>3, <2>1 DEF LinksExact
  <2>4. \A n \in 0 .. N - 1 : f[n] \in Nat /\ pages_struct[n].ref_count \in Nat
    BY <1>1, <1>4, <2>2 DEF PageT
  <2>5. CASE \A p \in Pages \cup {-1} :
               /\ pages_struct'[p].zone = ZoneOf(p)
               /\ pages_struct'[p].ref_count = pages_struct[p].ref_count
    <3>1. \A p \in 0 .. N - 1 :
            (IF pages_struct'[p].zone = z THEN pages_struct'[p].ref_count ELSE 0) =
            (IF pages_struct[p].zone = z THEN pages_struct[p].ref_count ELSE 0)
      BY <1>4, <2>5 DEF ZoneOf
    <3>2. g = f
      BY <2>2, <3>1
    <3>3. zones_struct'[z].link = zones_struct[z].link
      <4>1. x \in 0 .. N - 1 \/ x = -1
        BY <1>4
      <4>2. pages_struct[x].ref_count \in Nat
        BY <1>5 DEF PageT
      <4>3. QED
        BY <1>6, <2>5, <4>2
    <3>4. QED
      BY <2>1, <2>3, <3>2, <3>3
  <2>6. CASE /\ \A p \in Pages \cup {-1} :
                  /\ pages_struct'[p].zone = ZoneOf(p)
                  /\ pages_struct'[p].ref_count =
                       pages_struct[p].ref_count + (IF p = x THEN 1 ELSE 0)
             /\ zones_struct'[z].link = zones_struct[z].link
                                          + (IF z = ZoneOf(x) THEN 1 ELSE 0)
    <3>1. CASE z = ZoneOf(x)
      <4>1. x \in 0 .. N - 1
        BY <1>4, <1>5, <3>1 DEF PagesInZones
      <4>2. g[x] = f[x] + 1
        BY <1>4, <2>2, <2>6, <3>1, <4>1 DEF ZoneOf
      <4>3. \A n \in 0 .. N - 1 : n # x => g[n] = f[n]
        BY <1>4, <2>2, <2>4, <2>6 DEF ZoneOf
      <4>4. SumBelow(g, N) = SumBelow(f, N) + 1
        BY <1>4, <2>4, <4>1, <4>2, <4>3, SumOfOneMore
      <4>5. QED
        BY <2>1, <2>3, <2>6, <3>1, <4>4
    <3>2. CASE z # ZoneOf(x)
      <4>1. \A p \in 0 .. N - 1 :
              (IF pages_struct'[p].zone = z THEN pages_struct'[p].ref_count ELSE 0) =
              (IF pages_struct[p].zone = z THEN pages_struct[p].ref_count ELSE 0)
        BY <1>4, <2>4, <2>6, <3>2 DEF ZoneOf
      <4>2. g = f
        BY <2>2, <4>1
      <4>3. zones_struct'[z].link = zones_struct[z].link
        BY <1>1, <2>6, <3>2 DEF ZoneT
      <4>4. QED
        BY <2>1, <2>3, <4>2, <4>3
    <3>3. QED
      BY <3>1, <3>2
  <2>7. QED
    BY <1>6, <2>5, <2>6
<1>8. QED
  BY <1>2, <1>3, <1>7 DEF LinksExact

\* LinksExact is inductive next to Unlinked and what IInv says.
LInv == Unlinked /\ LinksExact

LEMMA InitLInv == Init => LInv
<1> SUFFICES ASSUME Init PROVE LInv
  OBVIOUS
<1>1. pc = "boot" /\ boot \in BootInfos /\ Pages \subseteq Nat
  BY DEF Init, Pages
<1>2. \A x \in Pages : pages_struct[x].ref_count = 0
  BY <1>1 DEF Init, ZeroPage
<1>3. \A z \in Zones : zones_struct[z].link = 0
  BY DEF Init, ZeroZone
<1>4. Unlinked
  BY <1>2, <1>3 DEF Unlinked
<1>5. QED
  BY <1>1, <1>4, UnlinkedExact DEF LInv

\* The memsets and the zones they make way for hold no reference.
LEMMA BuildingLInv ==
  ASSUME IInv, LInv, init_memory \/ BuildZone
  PROVE  LInv'
<1>1. /\ boot \in BootInfos /\ pc \in {"boot", "zones"} /\ Unlinked
      /\ pages_struct \in [Pages \cup {-1} -> PageT]
      /\ zones_struct \in [Zones -> ZoneT]
  BY DEF IInv, TypeOK, PageT, ZoneT, LInv, init_memory, BuildZone
<1>2. /\ boot' = boot /\ pc' = "zones" /\ Pages' = Pages /\ Zones' = Zones
  BY DEF init_memory, BuildZone, Pages, Zones
<1>3. /\ \A x \in Pages : pages_struct'[x].ref_count = 0
      /\ \A z \in Zones : zones_struct'[z].link = 0
  <2>1. CASE init_memory
    BY <1>1, <2>1 DEF init_memory, ZeroPage, ZeroZone
  <2>2. CASE BuildZone
    <3>1. PICK start, end, zone :
            /\ zone.link = 0
            /\ zones_struct' = [zones_struct EXCEPT ![zone_idx] = zone]
            /\ pages_struct' = ZonePages(start, end)
      <4>1. PICK zone : zone = [start |-> EntryStart(boot.e820[idx]),
                                end   |-> EntryEnd(boot.e820[idx]),
                                using |-> 0,
                                free  |-> EntryEnd(boot.e820[idx])
                                            - EntryStart(boot.e820[idx]),
                                link  |-> 0]
        OBVIOUS
      <4>2. zone.link = 0
        BY <4>1
      <4>3. QED
        BY <2>2, <4>1, <4>2 DEF BuildZone
    <3>2. \A x \in Pages : pages_struct[x].ref_count = 0
      BY <1>1 DEF Unlinked
    <3>3. \A x \in Pages : pages_struct'[x].ref_count = 0
      BY <1>1, <3>1, <3>2 DEF ZonePages
    <3>4. \A z \in Zones : zones_struct[z].link = 0
      BY <1>1 DEF Unlinked
    <3>5. \A z \in Zones : zones_struct'[z].link = 0
      BY <1>1, <3>1, <3>4
    <3>6. QED
      BY <3>3, <3>5
  <2>3. QED
    BY <2>1, <2>2
<1>4. Unlinked'
  BY <1>2, <1>3 DEF Unlinked
<1>5. QED
  BY <1>1, <1>2, <1>4, UnlinkedExactNext DEF LInv

\* The kernel's pages and those of a run are page_init's.
LEMMA PageInitLInv ==
  ASSUME IInv, LInv, ReserveKernelPage \/ InitRunPage
  PROVE  LInv'
<1>1. /\ TypeOK /\ PagesInZones /\ LinksExact /\ boot' = boot
      /\ boot \in BootInfos
  BY DEF IInv, TypeOK, LInv, ReserveKernelPage, InitRunPage
<1>2. CASE ReserveKernelPage
  <2>1. pc' = "kernel" /\ page_init(idx, KernelFlags)
    BY <1>2 DEF ReserveKernelPage
  <2>2. idx \in Pages
    BY <1>1, <1>2, BootFacts DEF IInv, Building, ReserveKernelPage, Pages
  <2>3. KernelFlags \in SUBSET PG
    BY DEF KernelFlags, PG
  <2>4. LinksExact'
    BY <1>1, <2>1, <2>2, <2>3, PageInitLinks
  <2>5. Unlinked'
    BY <2>1 DEF Unlinked
  <2>6. QED
    BY <2>4, <2>5 DEF LInv
<1>3. CASE InitRunPage
  <2>1. pc' \in {"pages", "ready"} /\ page_init(req.page + req.l, req.flags)
    BY <1>3 DEF InitRunPage
  <2>2. req.page + req.l \in Pages \cup {-1} /\ req.flags \in SUBSET PG
    BY <1>1, <1>3 DEF TypeOK, InitRunPage
  <2>3. LinksExact'
    BY <1>1, <2>1, <2>2, PageInitLinks
  <2>4. Unlinked'
    BY <2>1 DEF Unlinked
  <2>5. QED
    BY <2>3, <2>4 DEF LInv
<1>4. QED
  BY <1>2, <1>3

\* Every other step leaves the descriptors and the zones alone.
LEMMA NextLInv == IInv /\ LInv /\ [Next]_vars => LInv'
<1> SUFFICES ASSUME IInv, LInv, [Next]_vars PROVE LInv'
  OBVIOUS
<1>1. CASE init_memory \/ BuildZone
  BY <1>1, BuildingLInv
<1>2. CASE ReserveKernelPage \/ InitRunPage
  BY <1>2, PageInitLInv
<1>3. ASSUME boot' = boot, pages_struct' = pages_struct,
             zones_struct' = zones_struct,
             pc' = pc \/ pc' \in {"kernel", "ready", "pages", "lost"}
      PROVE  LInv'
  <2>1. Pages' = Pages /\ Zones' = Zones
    BY <1>3 DEF Pages, Zones
  <2>2. Unlinked'
    BY <1>3, <2>1 DEF LInv, Unlinked
  <2>3. LinksExact'
    BY <1>3, <2>1 DEF LInv, LinksExact, RefsTo
  <2>4. QED
    BY <2>2, <2>3 DEF LInv
<1>4. CASE SkipEntry \/ ZonesDone
  BY <1>3, <1>4 DEF SkipEntry, ZonesDone
<1>5. CASE KernelReserved
  BY <1>3, <1>5 DEF KernelReserved
<1>6. CASE \E s \in Selects, n \in 1 .. W, f \in AllocFlags : alloc_pages(s, n, f)
  BY <1>3, <1>6 DEF alloc_pages
<1>7. CASE UNCHANGED vars \/ Lost
  BY <1>3, <1>7 DEF vars, Lost
<1>8. CASE InitAstray
  BY <1>3, <1>8 DEF InitAstray
<1>9. QED
  BY <1>1, <1>2, <1>4, <1>5, <1>6, <1>7, <1>8 DEF Next, alloc_pages_NULL

\* The references counted in a zone are the references of its pages, always:
\* page_init counts every one of them in both places, whatever the map, the
\* flags and the overlapping runs alloc_pages hands out.
THEOREM LinksAreExact == Spec => []LinksExact
<1>1. LInv => LinksExact
  BY DEF LInv
<1>2. Spec => []LInv
  BY AlwaysIInv, InitLInv, NextLInv, PTL DEF Spec
<1>3. QED
  BY <1>1, <1>2, PTL

-----------------------------------------------------------------------------
(* The tasks: the parts of their invariant.                                *)

\* The task list before and after list_add_tail.
Alone == [t \in {InitTask} |-> [prev |-> InitTask, next |-> InitTask]]
Both == [t \in {InitTask, tsk} |->
           IF t = tsk THEN [prev |-> InitTask, next |-> InitTask]
                      ELSE [prev |-> tsk, next |-> tsk]]

\* Where the page manager is: no run before do_fork's, one after it.
Manager ==
  /\ tpc = "boot" =>
       \/ pc \in {"boot", "zones", "kernel"} /\ grants = <<>>
       \/ pc = "ready" /\ Len(grants) = 1
  /\ tpc = "alloc" =>
       \/ pc = "pages" /\ Len(grants) = 1 /\ req.n = StackPages
       \/ pc = "ready" /\ Len(grants) = 2 /\ grants[2].n = StackPages
  /\ tpc \in {"struct", "switch", "init"} =>
       /\ pc = "ready" /\ tsk \in Nat
       /\ Len(grants) = 2 /\ grants[2].n = StackPages
       /\ tsk = pages_struct[grants[2].page].phy

\* The tasks: the boot processor's alone, with the forked one, switched to.
Tasks ==
  /\ tpc \in {"boot", "alloc", "struct", "switch", "init", "lost"}
  /\ tpc # "init" => running = InitTask /\ rsp = TopOf(InitTask)
  /\ tpc \in {"boot", "alloc", "struct", "lost"} =>
       links = Alone /\ tasks = [t \in {InitTask} |-> INIT_TASK]
  /\ tpc \in {"switch", "init"} =>
       /\ links = Both /\ DOMAIN tasks = {InitTask, tsk}
       /\ tasks[tsk] = Forked(tsk, INIT_TASK)
  /\ tpc = "switch" => tasks[InitTask] = INIT_TASK
  /\ tpc = "init" =>
       /\ running = tsk /\ rsp = TopOf(tsk)
       /\ tasks[InitTask] = [INIT_TASK EXCEPT !.state = "RUNNING"]

TInv == Manager /\ Tasks

-----------------------------------------------------------------------------
(* Arithmetic.                                                             *)

\* Masking a stack pointer gives the task whose size divides its address.
LEMMA Masked ==
  ASSUME NEW a \in Int, NEW r \in 0 .. StackPages - 1
  PROVE  get_current(a * StackPages + r) = a * StackPages
<1> DEFINE x == a * StackPages + r
<1>1. StackPages \in Nat /\ StackPages >= 1
  BY StackAssumption, SizesAssumption
<1>2. x \div StackPages = a
  BY <1>1
<1>3. QED
  BY <1>2 DEF get_current

\* The boot processor's stack leads to its task.
LEMMA CurrentIsInit == get_current(TopOf(InitTask)) = InitTask
<1>1. StackPages \in Nat /\ StackPages >= 1
  BY StackAssumption, SizesAssumption
<1>2. InitTask = (-2) * StackPages /\ TopOf(InitTask) = (-2) * StackPages + (StackPages - 1)
  BY <1>1 DEF TopOf, InitTask
<1>3. StackPages - 1 \in 0 .. StackPages - 1 /\ -2 \in Int
  BY <1>1
<1>4. QED
  BY <1>2, <1>3, Masked

\* A forked task finds itself if and only if its address is a multiple of its
\* size.
LEMMA CurrentIsFork ==
  ASSUME NEW t \in Nat
  PROVE  get_current(TopOf(t)) = t <=> t % StackPages = 0
<1>1. StackPages \in Nat /\ StackPages >= 1
  BY StackAssumption, SizesAssumption
<1> DEFINE q == t \div StackPages
           r == t % StackPages
<1>2. q \in Int /\ r \in 0 .. StackPages - 1 /\ t = q * StackPages + r
  BY <1>1
<1> HIDE DEF q, r
<1>3. CASE r = 0
  <2>1. TopOf(t) = q * StackPages + (StackPages - 1)
    BY <1>1, <1>2, <1>3 DEF TopOf
  <2>2. StackPages - 1 \in 0 .. StackPages - 1
    BY <1>1
  <2>3. get_current(TopOf(t)) = q * StackPages
    BY <1>2, <2>1, <2>2, Masked
  <2>4. q * StackPages = t
    BY <1>1, <1>2, <1>3
  <2>5. QED
    BY <1>3, <2>3, <2>4 DEF r
<1>4. CASE r # 0
  <2>1. r - 1 \in 0 .. StackPages - 1
    BY <1>1, <1>2, <1>4
  <2>2. (q + 1) * StackPages = q * StackPages + StackPages
    BY <1>1, <1>2
  <2>3. q * StackPages \in Int
    BY <1>1, <1>2
  <2>4. TopOf(t) = (q + 1) * StackPages + (r - 1)
    BY <1>1, <1>2, <2>2, <2>3 DEF TopOf
  <2>5. get_current(TopOf(t)) = (q + 1) * StackPages
    BY <1>2, <2>1, <2>4, Masked
  <2>6. (q + 1) * StackPages # t
    BY <1>1, <1>2, <2>2, <2>3
  <2>7. QED
    BY <1>4, <2>5, <2>6 DEF r
<1>5. QED
  BY <1>3, <1>4

\* The boot processor's task is none that alloc_pages gives.
LEMMA InitTaskApart == InitTask \in Int /\ InitTask < 0
BY StackAssumption, SizesAssumption DEF InitTask

-----------------------------------------------------------------------------
(* The page manager under task_init.                                       *)

\* Every step of task_init is a step of the page manager or leaves it alone.
LEMMA StepOfManager == TaskNext => [Next]_vars
<1> SUFFICES ASSUME TaskNext PROVE [Next]_vars
  OBVIOUS
<1>1. "NORMAL" \in Selects /\ ForkPages \in 1 .. W /\ ForkFlags \in AllocFlags
  BY StackAssumption, ForkFlagsAssumption DEF Selects, ForkPages
<1>2. CASE Boot
  BY <1>2 DEF Boot, Next
<1>3. CASE Fork
  BY <1>1, <1>3 DEF Fork, Next
<1>4. CASE Alloc
  BY <1>4 DEF Alloc, Next
<1>5. CASE ForkNull
  BY <1>1, <1>5 DEF ForkNull, Next
<1>6. CASE AllocAstray
  BY <1>6 DEF AllocAstray, Next
<1>7. CASE ForkPage \/ ForkAstray \/ do_fork \/ switch_to \/ Running
  BY <1>7 DEF ForkPage, ForkAstray, do_fork, switch_to, Running
<1>8. QED
  BY <1>2, <1>3, <1>4, <1>5, <1>6, <1>7 DEF TaskNext

\* task_init uses the page manager as PageAlloc describes it.
THEOREM UsesManager == TaskSpec => Spec
<1>1. TaskInit => Init
  BY DEF TaskInit
<1>2. [TaskNext]_<<vars, tvars>> => [Next]_vars
  BY StepOfManager
<1>3. QED
  BY <1>1, <1>2, PTL DEF TaskSpec, Spec

-----------------------------------------------------------------------------
(* The invariant.                                                          *)

\* list_init of an entry that is already alone changes nothing.
LEMMA ListInit ==
  /\ list_init(<<>>, InitTask) = Alone
  /\ list_init(Alone, InitTask) = Alone
BY DEF list_init, Alone

\* task_init starts with one task on the boot processor's stack.
LEMMA InitTInv == TaskInit => TInv
BY ListInit DEF TaskInit, Init, TInv, Manager, Tasks

\* The boot of the page manager ends with one run, the kernel's.
LEMMA BootTInv == ASSUME IInv, TInv, Boot PROVE TInv'
<1>1. tpc = "boot" /\ UNCHANGED tvars /\ pc # "ready" /\ grants = <<>>
  BY DEF Boot, TInv, Manager, init_memory, BuildZone, SkipEntry, ZonesDone,
         ReserveKernelPage, KernelReserved
<1>2. \/ pc' \in {"boot", "zones", "kernel"} /\ grants' = <<>>
      \/ pc' = "ready" /\ Len(grants') = 1
  BY <1>1 DEF Boot, init_memory, BuildZone, SkipEntry, ZonesDone,
              ReserveKernelPage, KernelReserved
<1>3. Manager'
  BY <1>1, <1>2 DEF Manager, tvars
<1>4. Tasks'
  BY <1>1 DEF TInv, Tasks, Both, tvars
<1>5. QED
  BY <1>3, <1>4 DEF TInv

\* do_fork asks for a stack's pages.
LEMMA ForkTInv == ASSUME TInv, Fork PROVE TInv'
<1>1. /\ tpc = "boot" /\ tpc' = "alloc" /\ UNCHANGED <<tasks, tsk, running, rsp>>
      /\ pc = "ready" /\ pc' = "pages" /\ grants' = grants /\ req'.n = StackPages
      /\ links' = list_init(links, InitTask)
  BY DEF Fork, alloc_pages, ForkPages
<1>2. Len(grants) = 1
  BY <1>1 DEF TInv, Manager
<1>3. Manager'
  BY <1>1, <1>2 DEF Manager
<1>4. Tasks'
  BY <1>1, ListInit DEF TInv, Tasks
<1>5. QED
  BY <1>3, <1>4 DEF TInv

\* The run is handed out with its last page.
LEMMA AllocTInv == ASSUME IInv, TInv, Alloc PROVE TInv'
<1>1. tpc = "alloc" /\ UNCHANGED tvars /\ pc = "pages" /\ InitRunPage
  BY DEF Alloc, InitRunPage
<1>2. Len(grants) = 1 /\ req.n = StackPages
  BY <1>1 DEF TInv, Manager
<1>3. grants \in Seq([page : Int, n : Nat, aligned : BOOLEAN])
  BY DEF IInv, TypeOK
<1>4. \/ pc' = "pages" /\ Len(grants') = 1 /\ req'.n = StackPages
      \/ pc' = "ready" /\ Len(grants') = 2 /\ grants'[2].n = StackPages
  <2> DEFINE g == [page |-> req.page, n |-> req.n, aligned |-> req.aligned]
  <2>1. CASE req.l + 1 < req.n
    <3>1. pc' = pc /\ grants' = grants /\ req' = [req EXCEPT !.l = @ + 1]
      BY <1>1, <2>1 DEF InitRunPage
    <3>2. req'.n = req.n
      BY <3>1
    <3>3. QED
      BY <1>1, <1>2, <3>1, <3>2
  <2>2. CASE ~(req.l + 1 < req.n)
    <3>1. pc' = "ready" /\ grants' = Append(grants, g)
      BY <1>1, <2>2 DEF InitRunPage
    <3>2. g \in [page : Int, n : Nat, aligned : BOOLEAN]
      BY SizesAssumption DEF IInv, TypeOK
    <3> DEFINE R == [page : Int, n : Nat, aligned : BOOLEAN]
    <3> HIDE DEF g, R
    <3>3. Len(grants') = 2 /\ grants'[2] = g
      <4>1. grants \in Seq(R) /\ g \in R
        BY <1>3, <3>2 DEF R
      <4>2. QED
        BY <1>2, <3>1, <4>1
    <3>4. g.n = StackPages
      BY <1>2 DEF g
    <3>5. QED
      BY <3>1, <3>3, <3>4
  <2>3. QED
    BY <2>1, <2>2
<1>5. Manager'
  BY <1>1, <1>4 DEF Manager, tvars
<1>6. Tasks'
  BY <1>1 DEF TInv, Tasks, Both, tvars
<1>7. QED
  BY <1>5, <1>6 DEF TInv

\* The run of the new task.
LEMMA SecondRun ==
  ASSUME IInv, Len(grants) = 2 PROVE grants[2].page \in Int /\ 2 \in DOMAIN grants
<1> DEFINE R == [page : Int, n : Nat, aligned : BOOLEAN]
<1>1. grants \in Seq(R)
  BY DEF IInv, TypeOK
<1> HIDE DEF R
<1>2. 2 \in DOMAIN grants /\ grants[2] \in R
  BY <1>1
<1>3. QED
  BY <1>2 DEF R

\* The new task is where the run's first descriptor says.
LEMMA ForkPageTInv == ASSUME IInv, TInv, ForkPage PROVE TInv'
<1>1. /\ tpc = "alloc" /\ tpc' = "struct" /\ pc = "ready"
      /\ UNCHANGED <<vars, links, tasks, running, rsp>>
      /\ tsk' = pages_struct[grants[Len(grants)].page].phy
  BY DEF ForkPage, NewTask, NewRun
<1>2. Len(grants) = 2 /\ grants[2].n = StackPages
  BY <1>1 DEF TInv, Manager
<1>3. tsk' \in Nat
  <2>1. grants[2].page \in Int /\ 2 \in DOMAIN grants
    BY <1>2, SecondRun
  <2>2. grants[2].page \in Run(grants[2])
    BY <1>2, <2>1, StackAssumption, SizesAssumption DEF Run
  <2>3. grants[2].page \in Pages \cup {-1}
    BY <2>1, <2>2 DEF IInv, Granted
  <2>4. QED
    BY <1>1, <1>2, <2>3 DEF IInv, TypeOK
<1>4. Manager'
  BY <1>1, <1>2, <1>3 DEF Manager, vars
<1>5. Tasks'
  BY <1>1 DEF TInv, Tasks
<1>6. QED
  BY <1>4, <1>5 DEF TInv

\* Without pages to build a task on, nothing has been built.
LEMMA LostTInv ==
  ASSUME TInv, AllocAstray \/ ForkAstray \/ ForkNull PROVE TInv'
<1>1. /\ tpc \in {"boot", "alloc"} /\ tpc' = "lost"
      /\ UNCHANGED <<tasks, tsk, running, rsp>>
      /\ links' = links \/ links' = list_init(links, InitTask)
  BY DEF AllocAstray, ForkAstray, ForkNull
<1>2. Manager'
  BY <1>1 DEF Manager
<1>3. Tasks'
  BY <1>1, ListInit DEF TInv, Tasks
<1>4. QED
  BY <1>2, <1>3 DEF TInv

\* list_add_tail with entry and head exchanged still makes a ring of two.
LEMMA ListOfTwo == ASSUME NEW t \in Nat, t = tsk PROVE Linked(Alone, t) = Both
<1>1. InitTask # t
  BY InitTaskApart
<1> DEFINE l == list_init(Alone, t)
<1>2. l = [n \in {InitTask, t} |-> [prev |-> n, next |-> n]]
  BY <1>1 DEF list_init, Alone
<1> HIDE DEF l
<1>3. Linked(Alone, t) = __list_add(l, InitTask, t, t)
  BY <1>2 DEF Linked, list_add_tail, l
<1> DEFINE l1 == [l EXCEPT ![t].next = InitTask]
           l2 == [l1 EXCEPT ![InitTask].next = t]
           l3 == [l2 EXCEPT ![InitTask].prev = t]
           l4 == [l3 EXCEPT ![t].prev = InitTask]
<1>4. l1 = [n \in {InitTask, t} |-> IF n = t THEN [prev |-> t, next |-> InitTask]
                                    ELSE [prev |-> InitTask, next |-> InitTask]]
  BY <1>1, <1>2
<1> HIDE DEF l1
<1>5. l2 = [n \in {InitTask, t} |-> IF n = t THEN [prev |-> t, next |-> InitTask]
                                    ELSE [prev |-> InitTask, next |-> t]]
  BY <1>1, <1>4
<1> HIDE DEF l2
<1>6. l3 = [n \in {InitTask, t} |-> IF n = t THEN [prev |-> t, next |-> InitTask]
                                    ELSE [prev |-> t, next |-> t]]
  BY <1>1, <1>5
<1> HIDE DEF l3
<1>7. l4 = [n \in {InitTask, t} |-> IF n = t THEN [prev |-> InitTask, next |-> InitTask]
                                    ELSE [prev |-> t, next |-> t]]
  BY <1>1, <1>6
<1> HIDE DEF l4
<1>8. __list_add(l, InitTask, t, t) = l4
  BY DEF __list_add, l1, l2, l3, l4
<1>9. QED
  BY <1>3, <1>7, <1>8 DEF Both

\* do_fork links the task and fills it in from current, the boot processor's.
LEMMA DoForkTInv == ASSUME TInv, do_fork PROVE TInv'
<1>1. /\ tpc = "struct" /\ tpc' = "switch" /\ UNCHANGED <<vars, tsk, running, rsp>>
      /\ links' = Linked(links, tsk)
      /\ tasks' = [t \in DOMAIN tasks \cup {tsk} |->
                     IF t = tsk THEN Forked(tsk, tasks[get_current(rsp)])
                                ELSE tasks[t]]
  BY DEF do_fork
<1>2. /\ links = Alone /\ tasks = [t \in {InitTask} |-> INIT_TASK] /\ tsk \in Nat
      /\ rsp = TopOf(InitTask) /\ running = InitTask
  BY <1>1 DEF TInv, Tasks, Manager
<1>3. InitTask # tsk
  BY <1>2, InitTaskApart
<1>4. tasks[get_current(rsp)] = INIT_TASK
  BY <1>2, CurrentIsInit
<1>5. links' = Both /\ Both' = Both
  BY <1>1, <1>2, ListOfTwo DEF Both
<1>6. /\ DOMAIN tasks' = {InitTask, tsk} /\ tasks'[InitTask] = INIT_TASK
      /\ tasks'[tsk] = Forked(tsk, INIT_TASK)
  <2>1. DOMAIN tasks = {InitTask} /\ tasks[InitTask] = INIT_TASK
    BY <1>2
  <2>2. QED
    BY <1>1, <1>3, <1>4, <2>1
<1>7. Manager'
  BY <1>1 DEF TInv, Manager, vars
<1>8. Tasks'
  BY <1>1, <1>2, <1>5, <1>6 DEF Tasks
<1>9. QED
  BY <1>7, <1>8 DEF TInv

\* switch_to takes the only other task of the list.
LEMMA SwitchToTInv == ASSUME TInv, switch_to PROVE TInv'
<1>1. /\ tpc = "switch" /\ tpc' = "init" /\ UNCHANGED <<vars, links, tsk>>
      /\ tsk \in Nat /\ links = Both /\ DOMAIN tasks = {InitTask, tsk}
      /\ tasks[tsk] = Forked(tsk, INIT_TASK) /\ tasks[InitTask] = INIT_TASK
      /\ rsp = TopOf(InitTask)
  BY DEF switch_to, TInv, Tasks, Manager
<1>2. get_current(rsp) = InitTask /\ InitTask # tsk
  BY <1>1, CurrentIsInit, InitTaskApart
<1>3. list_next(links, InitTask) = tsk
  BY <1>1, <1>2 DEF list_next, Both
<1>4. /\ tasks' = [tasks EXCEPT ![InitTask].state = "RUNNING",
                                ![InitTask].thread.rsp = TopOf(InitTask)]
      /\ rsp' = tasks[tsk].thread.rsp /\ running' = tsk
  BY <1>1, <1>2, <1>3 DEF switch_to
<1>5. rsp' = TopOf(tsk)
  BY <1>1, <1>4 DEF Forked, INIT_TASK, Thread
<1>6. /\ DOMAIN tasks' = {InitTask, tsk} /\ tasks'[tsk] = Forked(tsk, INIT_TASK)
      /\ tasks'[InitTask] = [INIT_TASK EXCEPT !.state = "RUNNING"]
  <2> DEFINE ran == [tasks EXCEPT ![InitTask].state = "RUNNING"]
  <2>1. /\ DOMAIN ran = {InitTask, tsk} /\ ran[tsk] = Forked(tsk, INIT_TASK)
        /\ ran[InitTask] = [INIT_TASK EXCEPT !.state = "RUNNING"]
    BY <1>1, <1>2
  <2>2. tasks' = [ran EXCEPT ![InitTask].thread.rsp = TopOf(InitTask)]
    BY <1>4
  <2> HIDE DEF ran
  <2>3. [[INIT_TASK EXCEPT !.state = "RUNNING"] EXCEPT !.thread.rsp = TopOf(InitTask)]
          = [INIT_TASK EXCEPT !.state = "RUNNING"]
    <3> DEFINE t == [INIT_TASK EXCEPT !.state = "RUNNING"]
    <3>1. [t.thread EXCEPT !.rsp = TopOf(InitTask)] = t.thread
      BY DEF INIT_TASK, Thread
    <3>2. [t EXCEPT !.thread = t.thread] = t
      BY DEF INIT_TASK
    <3> HIDE DEF t
    <3>3. [t EXCEPT !.thread.rsp = TopOf(InitTask)] = t
      BY <3>1, <3>2
    <3>4. QED
      BY <3>3 DEF t
  <2>4. DOMAIN tasks' = {InitTask, tsk} /\ tasks'[tsk] = ran[tsk]
    BY <1>2, <2>1, <2>2
  <2>5. tasks'[InitTask] = [ran[InitTask] EXCEPT !.thread.rsp = TopOf(InitTask)]
    BY <2>1, <2>2
  <2>6. QED
    BY <2>1, <2>3, <2>4, <2>5
<1>7. Both' = Both
  BY <1>1 DEF Both
<1>8. Manager'
  BY <1>1 DEF TInv, Manager, vars
<1>9. Tasks'
  BY <1>1, <1>4, <1>5, <1>6, <1>7 DEF Tasks
<1>10. QED
  BY <1>8, <1>9 DEF TInv

\* Every step keeps the invariant.
LEMMA AlwaysTInv == TaskSpec => [](IInv /\ TInv)
<1>1. TaskSpec => []IInv
  BY UsesManager, AlwaysIInv, PTL
<1>2. IInv /\ TInv /\ [TaskNext]_<<vars, tvars>> => TInv'
  <2> SUFFICES ASSUME IInv, TInv, [TaskNext]_<<vars, tvars>> PROVE TInv'
    OBVIOUS
  <2>1. CASE UNCHANGED <<vars, tvars>>
    BY <2>1 DEF vars, tvars, TInv, Manager, Tasks, Both
  <2>2. CASE Running
    BY <2>2 DEF Running, vars, tvars, TInv, Manager, Tasks, Both
  <2>3. CASE TaskNext /\ ~Running
    BY <2>3, BootTInv, ForkTInv, AllocTInv, ForkPageTInv, LostTInv, DoForkTInv,
       SwitchToTInv DEF TaskNext
  <2>4. QED
    BY <2>1, <2>2, <2>3
<1>3. QED
  BY <1>1, <1>2, InitTInv, PTL DEF TaskSpec

-----------------------------------------------------------------------------
(* The theorems about the tasks.                                           *)

\* do_fork's exchanged arguments leave the list of tasks a ring, wherever the
\* page manager places the task.
THEOREM RingKept == TaskSpec => []ListIsRing
<1>1. ASSUME TInv PROVE ListIsRing
  <2>1. CASE tpc \in {"boot", "alloc", "struct", "lost"}
    <3>1. links = Alone /\ DOMAIN tasks = {InitTask}
      BY <1>1, <2>1 DEF TInv, Tasks
    <3>2. Cardinality(DOMAIN links) = 1
      BY <3>1, FS_Singleton DEF Alone
    <3>3. QED
      BY <3>1, <3>2 DEF ListIsRing, Alone
  <2>2. CASE tpc \in {"switch", "init"}
    <3>1. links = Both /\ DOMAIN tasks = {InitTask, tsk} /\ tsk \in Nat
      BY <1>1, <2>2 DEF TInv, Tasks, Manager
    <3>2. InitTask # tsk
      BY <3>1, InitTaskApart
    <3>3. QED
      BY <3>1, <3>2 DEF ListIsRing, Both
  <2>3. QED
    BY <1>1, <2>1, <2>2 DEF TInv, Tasks
<1>2. QED
  BY <1>1, AlwaysTInv, PTL

\* When there were pages to build it on, switch_to goes to the task that was
\* forked, on its own stack; it finds itself exactly if its address is a
\* multiple of the stack's size.
THEOREM ForkIsSwitchedTo == TaskSpec => []SwitchesToFork
<1>1. ASSUME TInv, tpc = "init"
      PROVE  /\ running = tsk /\ tasks[running].state = "RUNNING"
             /\ tasks[running].pid # tasks[InitTask].pid
             /\ rsp \in tsk .. tsk + StackPages - 1
             /\ tasks[running].thread.at = tsk
             /\ tasks[InitTask].thread.rsp = TopOf(InitTask)
             /\ get_current(rsp) = running <=> running % StackPages = 0
  <2>1. /\ running = tsk /\ rsp = TopOf(tsk) /\ tsk \in Nat
        /\ tasks[tsk] = Forked(tsk, INIT_TASK)
        /\ tasks[InitTask] = [INIT_TASK EXCEPT !.state = "RUNNING"]
    BY <1>1 DEF TInv, Tasks, Manager
  <2>2. /\ tasks[tsk].state = "RUNNING" /\ tasks[tsk].pid = 1
        /\ tasks[tsk].thread.at = tsk
    BY <2>1 DEF Forked, INIT_TASK, Thread
  <2>3. tasks[InitTask].pid = 0 /\ tasks[InitTask].thread.rsp = TopOf(InitTask)
    BY <2>1 DEF INIT_TASK, Thread
  <2>4. rsp \in tsk .. tsk + StackPages - 1
    BY <2>1, StackAssumption, SizesAssumption DEF TopOf
  <2>5. get_current(rsp) = running <=> running % StackPages = 0
    BY <2>1, CurrentIsFork
  <2>6. QED
    BY <2>1, <2>2, <2>3, <2>4, <2>5
<1>2. QED
  BY <1>1, AlwaysTInv, PTL DEF SwitchesToFork

\* The pages of the running thread's stack are taken in the bitmap, if the run
\* that alloc_pages found begins with a page of a zone.
THEOREM StackIsReserved == TaskSpec => []StackReserved
<1>1. ASSUME IInv, TInv, tpc = "init",
             pages_struct[grants[2].page].zone \in Zones
      PROVE  running .. running + StackPages - 1 \subseteq page_bits
  <2> DEFINE p == grants[2].page
  <2>1. /\ running = tsk /\ Len(grants) = 2 /\ grants[2].n = StackPages
        /\ tsk = pages_struct[p].phy /\ pc = "ready"
    BY <1>1 DEF TInv, Tasks, Manager
  <2>2. p \in Int /\ 2 \in DOMAIN grants
    BY <1>1, <2>1, SecondRun
  <2>3. StackPages \in Nat /\ StackPages >= 1
    BY StackAssumption, SizesAssumption
  <2>4. \A x \in p .. p + StackPages - 1 : x \in Pages \cup {-1} /\ Attr(x) # {}
    BY <1>1, <2>1, <2>2 DEF IInv, Granted, Run
  <2>5. p \in Pages
    <3>1. p \in Pages \cup {-1}
      BY <2>2, <2>3, <2>4
    <3>2. p # -1
      BY <1>1 DEF IInv, PagesInZones, ZoneOf, Zones, NULL, WILD
    <3>3. QED
      BY <3>1, <3>2
  <2>6. tsk = p
    BY <1>1, <2>1, <2>5 DEF IInv, PagesInZones, ZoneOf, Zones, NULL
  <2>7. \A x \in p .. p + StackPages - 1 : x # -1
    BY <2>3, <2>5, BootFacts DEF Pages
  <2>8. \A x \in p .. p + StackPages - 1 : x \in page_bits
    BY <1>1, <2>1, <2>4, <2>7 DEF IInv, BitsSet
  <2>9. QED
    BY <2>1, <2>6, <2>8
<1>2. QED
  BY <1>1, AlwaysTInv, PTL DEF StackReserved
=============================================================================
