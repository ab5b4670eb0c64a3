---------------------------- MODULE MemoryCache ----------------------------
(***************************************************************************)
(* The algorithms of MemoryCache (cache.py): a set of disjoint intervals,  *)
(* each with the bytes read or written there.  An interval's end is the    *)
(* address after its last byte, as in the library intervaltree.            *)
(***************************************************************************)
EXTENDS Integers, Sequences, FiniteSets, SequencesExt, MemoryMap

Interval(begin, end, data) == [begin |-> begin, end |-> end, data |-> data]
Span(begin, end) == [begin |-> begin, end |-> end]

\* The bytes of a view of memory in a span.
BytesOf(view, begin, end) == [k \in 1..(end - begin) |-> view[begin + k - 1]]

Overlap(cache, begin, end) == {iv \in cache : iv.begin < end /\ begin < iv.end}
Sorted(intervals) ==
  CHOOSE s \in SetToSeqs(intervals) : \A i, j \in DOMAIN s : i < j => s[i].begin <= s[j].begin

(***************************************************************************)
(* _get_ranges: what of a range is not cached.  Each cached interval, in   *)
(* the order of a set, cuts the spans that are left.                       *)
(***************************************************************************)
\* (A wrong variant of Cut: a span of no bytes is kept.)
CutKeepingEmpty(span, iv) ==
  IF iv.end < span.begin \/ iv.begin > span.end
    THEN {span}
    ELSE (IF iv.begin >= span.begin THEN {Span(span.begin, iv.begin)} ELSE {})
           \cup (IF span.end > iv.end THEN {Span(iv.end, span.end)} ELSE {})

Cut(span, iv) ==
  IF iv.end < span.begin \/ iv.begin > span.end
    THEN {span}
    ELSE (IF iv.begin > span.begin THEN {Span(span.begin, iv.begin)} ELSE {})
           \cup (IF span.end > iv.end THEN {Span(iv.end, span.end)} ELSE {})

Uncached(cache, begin, end) ==
  LET cached == SetToSeq(Overlap(cache, begin, end))
      left[k \in 0..Len(cached)] ==
        IF k = 0 THEN {Span(begin, end)} ELSE UNION {Cut(span, cached[k]) : span \in left[k - 1]}
  IN left[Len(cached)]

\* _read_uncached.
ReadUncached(cache, view, begin, end) ==
  {Interval(span.begin, span.end, BytesOf(view, span.begin, span.end)) :
     span \in Uncached(cache, begin, end)}

(***************************************************************************)
(* _merge_data: the bytes of a range out of the intervals, in order, that  *)
(* cover it.                                                               *)
(***************************************************************************)
MergeData(intervals, begin, end) ==
  LET first   == Head(intervals)
      lead    == intervals # << >> /\ first.begin < begin
      afterLead == IF lead THEN Tail(intervals) ELSE intervals
      last    == Last(afterLead)
      trail   == afterLead # << >> /\ last.end > end
      whole   == IF trail THEN Front(afterLead) ELSE afterLead
  IN IF lead /\ first.end > end
       THEN SubSeq(first.data, begin - first.begin + 1, end - first.begin)
       ELSE (IF lead THEN SubSeq(first.data, begin - first.begin + 1, Len(first.data)) ELSE << >>)
              \o FlattenSeq([k \in DOMAIN whole |-> whole[k].data])
              \o (IF trail THEN SubSeq(last.data, 1, end - last.begin) ELSE << >>)

\* _read: the cached intervals that overlap the range, and those just read.
Combined(cache, view, begin, end) ==
  Sorted(Overlap(cache, begin, end) \cup ReadUncached(cache, view, begin, end))

CachedRead(cache, view, begin, end) ==
  MergeData(Combined(cache, view, begin, end), begin, end)

AfterCachedRead(cache, view, begin, end) == cache \cup ReadUncached(cache, view, begin, end)

(***************************************************************************)
(* write_memory_block8: data within one interval replaces part of it; data *)
(* over several, or over the edge of one, is joined with what they hold    *)
(* before and after it (_update_contiguous).                               *)
(***************************************************************************)
\* (A wrong variant of UpdateContiguous: the end of the last interval is lost.)
UpdateContiguousNoTrail(cache, begin, data) ==
  LET end    == begin + Len(data)
      cached == Sorted(Overlap(cache, begin, end))
      first  == Head(cached)
      lead   == IF first.begin < begin THEN SubSeq(first.data, 1, begin - first.begin) ELSE << >>
  IN (cache \ ToSet(cached))
       \cup {Interval(begin - Len(lead), end + (Last(cached).end - end), lead \o data)}

UpdateContiguous(cache, begin, data) ==
  LET end    == begin + Len(data)
      cached == Sorted(Overlap(cache, begin, end))
      first  == Head(cached)
      last   == Last(cached)
      lead   == IF first.begin < begin THEN SubSeq(first.data, 1, begin - first.begin) ELSE << >>
      trail  == IF last.end > end THEN SubSeq(last.data, end - last.begin + 1, Len(last.data))
                                  ELSE << >>
  IN (cache \ ToSet(cached))
       \cup {Interval(begin - Len(lead), end + Len(trail), lead \o data \o trail)}

AfterCachedWrite(cache, begin, data) ==
  LET end    == begin + Len(data)
      cached == Overlap(cache, begin, end)
      around == {iv \in cached : iv.begin <= begin /\ end <= iv.end}
  IN CASE cached = {} -> cache \cup {Interval(begin, end, data)}
       [] around # {}  ->
            {IF iv \in around
               THEN [iv EXCEPT !.data = ReplaceSubSeqAt(begin - iv.begin + 1, data, data, @)]
               ELSE iv : iv \in cache}
       [] OTHER        -> UpdateContiguous(cache, begin, data)

\* _check_regions: whether an access is allowed, and whether it is cached,
\* which is asked of the one region of an access that is allowed.
RegionAllows(map, begin, end) ==
  LET regions == GetIntersectingRegions(map, begin, end - 1)
  IN regions = {} \/ \E r \in regions : regions = {r} /\ ContainsRange(r, begin, end - 1)

Cacheable(map, begin, end) ==
  \E r \in GetIntersectingRegions(map, begin, end - 1) : r.is_cacheable

\* The bytes a cache holds.
Holds(cache) == UNION {iv.begin..(iv.end - 1) : iv \in cache}
=============================================================================
