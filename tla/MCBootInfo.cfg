SPECIFICATION Spec
CONSTANTS
  Entries = {low, high, rom}
  Available = {low, high}
  Infos <- MCInfos
  MaxE820 = 3
  MaxEntries = 4
  Blank = blank
  Counters = counters
INVARIANTS
  ReadsTagsAndEntries
  MapCopied
  ZonesSuffice
