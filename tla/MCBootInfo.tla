----------------------------- MODULE MCBootInfo -----------------------------
(***************************************************************************)
(* Instance of BootInfo for TLC: up to two tags around a memory map of up  *)
(* to MaxEntries entries, tag sizes on and off a multiple of 8.            *)
(***************************************************************************)
EXTENDS BootInfo, SequencesExt

CONSTANT MaxEntries

Sizes == {8, 9, 15, 24}
Around == {<<>>} \cup {<<Other(s)>> : s \in Sizes}

\* the tags one behind the other, each at the next multiple of 8
RECURSIVE Placed(_, _)
Placed(tags, offset) ==
  IF tags = <<>> THEN <<>>
  ELSE offset :> Head(tags) @@ Placed(Tail(tags), offset + RoundUp(Head(tags).size))

MCInfos ==
  {Placed(tags \o <<End>>, TAG_ALIGN) : tags \in Around \cup
     {before \o <<Mmap(size, map)>> \o after :
        before, after \in Around, size \in {24, 32},
        map \in SeqOf(Entries, MaxEntries)}}
=============================================================================
