---------------------------- MODULE LedgerRangeSet ----------------------------
(***************************************************************************)
(* LedgerRangeSet (utils/ranges.py): the processed-ledger set kept as      *)
(* sorted, disjoint, non-adjacent inclusive ranges, the form in which      *)
(* IngestionState holds it and the state file stores it.                   *)
(*                                                                         *)
(* members is the set of integers a caller has added: the reference the    *)
(* representation is compared with after every history of additions and    *)
(* reloads.  missing_in is a generator over the live list: between two     *)
(* gaps its caller runs, and may add what it has just worked off.          *)
(***************************************************************************)
EXTENDS Integers, Sequences, SequencesExt

CONSTANTS
  Low, High,  (* Bound: the smallest and the largest integer in use.       *)
  MaxIds      (* Bound: the ids listed in a state file of the old format.  *)

Value == Low .. High

ASSUME BoundsAssumption == Low \in Int /\ High \in Int /\ MaxIds \in Nat

VARIABLES
  ranges,   (* _ranges: a sequence of [lo, hi] pairs.                      *)
  loading,  (* from_list: the entries it has not added yet.                *)
  scan,     (* missing_in: the last generator and what it yielded.         *)
  members   (* History: the integers added so far.                         *)

range_vars == <<ranges, loading, scan, members>>

Span(lo, hi) == [lo |-> lo, hi |-> hi]

Values(r) == UNION {r[i].lo .. r[i].hi : i \in DOMAIN r}

\* No generator is under way.
NoScan == [at |-> "off"]

-----------------------------------------------------------------------------
(* add_range.                                                              *)

\* Bisection of a sorted list: how many ranges begin before v.
BeginBefore(r, v) == SelectLastInSeq(r, LAMBDA x : x.lo < v)

\* start: how many ranges lie before the ones add_range merges.
FirstMerged(r, low) ==
  LET before == BeginBefore(r, low - 1)
  IN  IF before > 0 /\ r[before].hi >= low - 1 THEN before - 1 ELSE before

\* Faulty variants (names in Bug) are slips the code could contain; they are
\* kept to show that a property notices them.
LastMergedBug(r, high) == BeginBefore(r, high + 1)

\* end: the while loop stops before the first range beyond high + 1, so on a
\* sorted list behind the last one that begins at or below it.
LastMerged(r, high) == BeginBefore(r, high + 2)

\* What takes the place of the ranges behind start up to end.
MergedLow(r, start, end, low) == Min({low} \cup {r[i].lo : i \in start + 1 .. end})
MergedHigh(r, start, end, high) == Max({high} \cup {r[i].hi : i \in start + 1 .. end})

\* _ranges[start:end] = [x]
Spliced(r, start, end, x) == SubSeq(r, 1, start) \o <<x>> \o SubSeq(r, end + 1, Len(r))

AddRange(r, low, high) ==
  LET start == FirstMerged(r, low)
      end   == LastMerged(r, high)
  IN  Spliced(r, start, end,
              Span(MergedLow(r, start, end, low), MergedHigh(r, start, end, high)))

-----------------------------------------------------------------------------
(* __contains__.                                                           *)

CoversBug(r, v) ==
  LET last == BeginBefore(r, v) IN last > 0 /\ v <= r[last].hi

\* Binary search for the last range that begins at or below v.
Covers(r, v) ==
  LET last == BeginBefore(r, v + 1)
  IN  last > 0 /\ r[last].lo <= v /\ v <= r[last].hi

-----------------------------------------------------------------------------
(* Every operation but missing_in runs to its end before the caller goes   *)
(* on; that one is at rest where it has yielded or returned.               *)
AtRest == loading = <<>> /\ scan.at # "loop"

\* A new set, or one being loaded from a state file of the old format, which
\* lists every id, in whatever order.
RangeInit ==
  /\ ranges = <<>>
  /\ \E n \in 0 .. MaxIds : \E ids \in [1 .. n -> Value] :
       loading = [i \in 1 .. n |-> Span(ids[i], ids[i])]
  /\ members = Values(loading)
  /\ scan = NoScan

\* add_range(low, high), and add(v) for low = high; high < low raises.  A
\* generator that waits at a gap sees the change when it is resumed.
Add(low, high) ==
  /\ AtRest
  /\ low <= high
  /\ ranges' = AddRange(ranges, low, high)
  /\ members' = members \cup (low .. high)
  /\ scan' = IF scan.at = "gap" THEN [scan EXCEPT !.disturbed = TRUE] ELSE NoScan
  /\ UNCHANGED loading

\* The state is saved (to_list), and a later process loads it (from_list).
Reload ==
  /\ AtRest
  /\ loading' = ranges
  /\ ranges' = <<>>
  /\ scan' = NoScan
  /\ UNCHANGED members

\* One iteration of from_list: an id is a range of one.
LoadEntry ==
  /\ loading # <<>>
  /\ ranges' = AddRange(ranges, Head(loading).lo, Head(loading).hi)
  /\ loading' = Tail(loading)
  /\ UNCHANGED <<scan, members>>

-----------------------------------------------------------------------------
(* missing_in(low, high).  next is the list iterator's position and last    *)
(* the local range_high, which outlives a yield.                           *)

MissingIn(low, high) ==
  /\ AtRest
  /\ scan' = [at |-> IF high < low THEN "done" ELSE "loop",
              low |-> low, high |-> high, cursor |-> low, next |-> 1,
              last |-> low, gaps |-> <<>>, disturbed |-> FALSE]
  /\ UNCHANGED <<ranges, loading, members>>

HasRange == scan.at = "loop" /\ scan.next <= Len(ranges)

This == ranges[scan.next]

\* The rest of an iteration behind the yield: move the cursor, or return.
Advanced(s, to) ==
  LET cursor == IF s.cursor >= to + 1 THEN s.cursor ELSE to + 1
  IN  [s EXCEPT !.cursor = cursor, !.at = IF cursor > s.high THEN "done" ELSE "loop"]

\* A range before the cursor, one that begins at or below it, and one that
\* leaves a gap.
PassRange ==
  /\ HasRange
  /\ This.hi < scan.cursor
  /\ scan' = [scan EXCEPT !.next = @ + 1]
  /\ UNCHANGED <<ranges, loading, members>>

CrossRange ==
  /\ HasRange
  /\ This.hi >= scan.cursor
  /\ This.lo <= scan.high
  /\ This.lo <= scan.cursor
  /\ scan' = Advanced([scan EXCEPT !.next = @ + 1], This.hi)
  /\ UNCHANGED <<ranges, loading, members>>

\* The gap is not cut off where the span ends.
YieldGapBug ==
  /\ HasRange
  /\ This.hi >= scan.cursor
  /\ This.lo > scan.cursor
  /\ scan' = [scan EXCEPT !.gaps = Append(@, Span(scan.cursor, This.lo - 1)),
                          !.at = "gap", !.last = This.hi, !.next = @ + 1]
  /\ UNCHANGED <<ranges, loading, members>>

YieldGap ==
  /\ HasRange
  /\ This.hi >= scan.cursor
  /\ This.lo <= scan.high
  /\ This.lo > scan.cursor
  /\ scan' = [scan EXCEPT
       !.gaps = Append(@, Span(scan.cursor, Min({This.lo - 1, scan.high}))),
       !.at = "gap", !.last = This.hi, !.next = @ + 1]
  /\ UNCHANGED <<ranges, loading, members>>

\* The range is read again behind the yield.
ResumeBug ==
  /\ scan.at = "gap"
  /\ scan.next - 1 <= Len(ranges)
  /\ scan' = Advanced(scan, ranges[scan.next - 1].hi)
  /\ UNCHANGED <<ranges, loading, members>>

\* The caller asks for the next gap: the locals are those from before.
Resume ==
  /\ scan.at = "gap"
  /\ scan' = Advanced(scan, scan.last)
  /\ UNCHANGED <<ranges, loading, members>>

\* The list is used up, or goes on beyond the span: what is left is a gap.
YieldRest ==
  /\ scan.at = "loop"
  /\ HasRange => This.hi >= scan.cursor /\ This.lo > scan.high
  /\ scan' = [scan EXCEPT
       !.gaps = IF scan.cursor <= scan.high
                THEN Append(@, Span(scan.cursor, scan.high)) ELSE @,
       !.at = "done"]
  /\ UNCHANGED <<ranges, loading, members>>

RangeNext ==
  \/ \E low, high \in Value : Add(low, high) \/ MissingIn(low, high)
  \/ Reload
  \/ LoadEntry
  \/ PassRange
  \/ CrossRange
  \/ YieldGap
  \/ Resume
  \/ YieldRest

RangeSpec == RangeInit /\ [][RangeNext]_range_vars

-----------------------------------------------------------------------------
(* Properties.                                                             *)

\* The ranges are non-empty, ascending, disjoint and not even adjacent after
\* any history of additions: a sequential backfill stays one interval.
Normal(r) ==
  /\ \A i \in DOMAIN r : r[i].lo <= r[i].hi
  /\ \A i, j \in DOMAIN r : i < j => r[i].hi + 1 < r[j].lo

Normalised == Normal(ranges)

\* A membership test answers for exactly the integers that were added, by this
\* process or by those that wrote the state it has loaded.
ContainsExactly ==
  loading = <<>> => \A v \in Low - 1 .. High + 1 : Covers(ranges, v) <=> v \in members

Yielded == Values(scan.gaps)

\* missing_in yields exactly what a resumed backfill still has to do, if that
\* collects the gaps before it works on them: integers of the span that are
\* not covered, and all of them by the end.
MissingExactly ==
  scan.at # "off" /\ ~scan.disturbed =>
    /\ Yielded \subseteq (scan.low .. scan.high) \ members
    /\ scan.at = "done" => Yielded = (scan.low .. scan.high) \ members

\* A backfill that adds ledgers while it consumes the gaps shifts the list under
\* the iterator and may be handed ledgers that are covered by then, but never
\* one outside the span or one twice, and it misses none.
NothingMissed ==
  scan.at # "off" =>
    /\ scan.at = "done" => scan.low .. scan.high \subseteq Yielded \cup members
    /\ Yielded \subseteq scan.low .. scan.high
    /\ \A i, j \in DOMAIN scan.gaps : i < j => scan.gaps[i].hi < scan.gaps[j].lo
=============================================================================
