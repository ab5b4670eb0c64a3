----------------------------- MODULE MemoryMap -----------------------------
(***************************************************************************)
(* Regions of memory (memory_map.py): a map is a sequence of regions in    *)
(* the order of their addresses.  A range is given by its first and last   *)
(* address, both included.                                                 *)
(***************************************************************************)
EXTENDS Integers, Sequences, SequencesExt

Region(type, start, end) ==
  [type |-> type, start |-> start, end |-> end, is_cacheable |-> type # "device"]

Length(region) == region.end - region.start + 1
EndOf(start, length) == start + length - 1

ContainsAddress(region, address) == region.start <= address /\ address <= region.end

ContainsRange(region, start, end) ==
  ContainsAddress(region, start) /\ ContainsAddress(region, end)

ContainedByRange(region, start, end) == start <= region.start /\ region.end <= end

IntersectsRange(region, start, end) ==
  \/ start <= region.start /\ region.start <= end
  \/ start <= region.end /\ region.end <= end
  \/ region.start <= start /\ end <= region.end

\* add_region: appends and sorts.
AddRegion(map, region) ==
  SetToSortSeq(ToSet(map) \cup {region}, LAMBDA r, s : r.start < s.start)

NoRegion == [type |-> "none", start |-> 0, end |-> -1, is_cacheable |-> FALSE]

GetRegionForAddress(map, address) ==
  LET Containing == SelectSeq(map, LAMBDA r : ContainsAddress(r, address))
  IN IF Containing = << >> THEN NoRegion ELSE Head(Containing)

\* Lists in the code, of which only what they hold is asked for.
GetIntersectingRegions(map, start, end) ==
  {r \in ToSet(map) : IntersectsRange(r, start, end)}

GetContainedRegions(map, start, end) ==
  {r \in ToSet(map) : ContainedByRange(r, start, end)}
=============================================================================
