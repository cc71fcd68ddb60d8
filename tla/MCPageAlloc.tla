---------------------------- MODULE MCPageAlloc ----------------------------
(***************************************************************************)
(* Instance of PageAlloc for TLC: 8-bit bitmap words, 16-byte pages, maps  *)
(* of some forty pages.                                                    *)
(***************************************************************************)
EXTENDS PageAlloc

Avail(a, l) == [addr |-> a, len |-> l, type |-> "available"]
Resv(a, l)  == [addr |-> a, len |-> l, type |-> "reserved"]

\* The shape of a PC map: low memory that ends inside a page, a hole, high
\* memory that holds the kernel, a sliver of less than a page, firmware.
PcMap == [e820 |-> <<Avail(0, 168), Resv(168, 88), Avail(256, 224),
                     Avail(482, 12), Resv(496, 48)>>,
          kstart |-> 256, kend |-> 261]

\* Low memory starts inside a bitmap word, high memory right behind it.
OddMap == [e820 |-> <<Resv(0, 40), Avail(40, 120), Avail(160, 192),
                      Resv(352, 160)>>,
           kstart |-> 160, kend |-> 166]

MCBootInfos == {PcMap, OddMap}
MCAllocFlags == {{"PTable_Maped", "Active", "Kernel"}, {"Active", "Referenced"}}
MCGapWords == {{}, {0}, 0 .. W - 1}

\* Zero, as most memory is at boot; a plausible page in use; a bit far beyond
\* the bitmap; a zone pointer that only the branches that count follow.
MCStrays == {ZeroPage, [ZeroPage EXCEPT !.attribute = {"Active"}, !.phy = 3],
             [ZeroPage EXCEPT !.phy = 1000],
             [ZeroPage EXCEPT !.attribute = {"Active"}, !.zone = WILD]}

\* One word-aligned zone below the kernel's.
PcBootInfos == {PcMap}
=============================================================================
