------------------------------- MODULE MCTask -------------------------------
(***************************************************************************)
(* Instance of Task for TLC: a PC map like those of MCPageAlloc, one with  *)
(* two free bitmap words for every window of the low memory, one whose     *)
(* first page is the firmware's, one with too little low memory, one where *)
(* the kernel fills the first zone and the run begins in the hole behind,  *)
(* whose descriptor has phy_addr 0, and one where that is the kernel's.    *)
(***************************************************************************)
EXTENDS Task

Avail(a, l) == [addr |-> a, len |-> l, type |-> "available"]
Resv(a, l)  == [addr |-> a, len |-> l, type |-> "reserved"]

PcMap == [e820 |-> <<Avail(0, 168), Resv(168, 88), Avail(256, 224),
                     Avail(482, 12), Resv(496, 48)>>,
          kstart |-> 256, kend |-> 261]
FirmwarePage == [PcMap EXCEPT !.e820[1] = Avail(16, 152)]
LongLow == [PcMap EXCEPT !.e820[1] = Avail(0, 208), !.e820[2] = Resv(208, 48)]
SmallLow == [PcMap EXCEPT !.e820[1] = Avail(0, 40)]
HoleMap == [e820 |-> <<Avail(0, 256), Avail(272, 160), Resv(560, 16)>>,
            kstart |-> 64, kend |-> 80]
KernelLow == [HoleMap EXCEPT !.kstart = 48]

MCBootInfos == {PcMap, LongLow, FirmwarePage, SmallLow, HoleMap, KernelLow}
MCAllocFlags == {ForkFlags}
MCGapWords == {{}, {0}, 0 .. W - 1}
MCStrays == {ZeroPage, [ZeroPage EXCEPT !.attribute = {"Active"}, !.phy = 3],
             [ZeroPage EXCEPT !.zone = WILD],
             [ZeroPage EXCEPT !.attribute = {"Active"}, !.phy = 3, !.zone = WILD]}
=============================================================================
