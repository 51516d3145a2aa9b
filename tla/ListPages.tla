------------------------------ MODULE ListPages ------------------------------
(***************************************************************************)
(* The three paged listings of zeros3.go as operators: ListObjectsV2       *)
(* (section 7b), ListMultipartUploads and ListPartsPage (section 11).      *)
(*                                                                         *)
(* An entry is <<key, id>>: an object has id 0, an upload its upload id, a *)
(* part the entry <<number, 0>>.  Keys are numbers in the order of their   *)
(* bytes.  A common prefix is a string too, so it has a place among the    *)
(* keys: Prefix[k] is that place, at or before every key it stands for.    *)
(* One result unit is an entry or <<place, -1>>, a common prefix.          *)
(***************************************************************************)
EXTENDS Integers, FiniteSets, Sequences

CONSTANTS Keys,   \* object keys
          Prefix  \* the common prefix a key folds into, 0 when it has no delimiter

\* The keys under one prefix follow it without a gap, as strings do.
ASSUME PrefixAssumption ==
  /\ Keys \subseteq Nat \ {0} /\ IsFiniteSet(Keys)
  /\ Prefix \in [Keys -> Nat]
  /\ \A k \in Keys : Prefix[k] <= k
  /\ \A j, k \in Keys : Prefix[j] # 0 /\ Prefix[j] <= k /\ k <= j => Prefix[k] = Prefix[j]

Key(e) == e[1]
Before(d, e) == d[1] < e[1] \/ (d[1] = e[1] /\ d[2] < e[2])
PrefixUnit(p) == <<p, -1>>

\* The start of a listing: no continuation token, no markers.
Start == <<0, 0>>

\* A page while it is built: its units, the last prefix it holds, the last
\* entry it accounts for, and whether an entry did not fit.
NoPage == [units |-> <<>>, group |-> 0, last |-> Start, truncated |-> FALSE]

Fits(page, max) == Len(page.units) < max

Emit(page, unit, group, e, max) ==
  IF ~Fits(page, max) THEN [page EXCEPT !.truncated = TRUE]
  ELSE [page EXCEPT !.units = Append(@, unit), !.group = group, !.last = e]

GroupOf(e, delimited) == IF delimited THEN Prefix[Key(e)] ELSE 0

\* One round of the loop over the sorted entries.  skipped: the group was
\* already returned, so the entry adds no unit but moves the cursor.
Step(page, e, group, skipped, max) ==
  IF page.truncated THEN page
  ELSE IF group = 0 THEN Emit(page, e, page.group, e, max)
  ELSE IF skipped THEN [page EXCEPT !.last = e]
  ELSE Emit(page, PrefixUnit(group), group, e, max)

\* A prefix at or before the key marker was returned by an earlier page.
OnlyThisPage(group, page, marker) == group = page.group
AlreadyReturned(group, page, marker) == group <= Key(marker) \/ group = page.group

\* The entries in sorted order, and the page the loop has built of those in S.
LastEntry(S) == CHOOSE e \in S : \A d \in S : d = e \/ Before(d, e)
PageOf(S, delimited, marker, max) ==
  LET built[T \in SUBSET S] ==
        IF T = {} THEN NoPage
        ELSE LET e     == LastEntry(T)
                 page  == built[T \ {e}]
                 group == GroupOf(e, delimited)
             IN Step(page, e, group, AlreadyReturned(group, page, marker), max)
  IN IF max <= 0 THEN NoPage ELSE built[S]

\* decodeContinuationToken gives back the key encodeContinuationToken was
\* given; an empty one is no cursor at all.  Its prefixes know no marker.
ListObjectsV2(objects, delimited, after, max) ==
  PageOf({e \in objects : Key(e) > Key(after)}, delimited, Start, max)

\* A marker without an upload id passes over its whole key.
AfterMultipartMarker(e, marker) ==
  IF marker[2] = 0 \/ Key(e) # Key(marker) THEN Key(e) > Key(marker)
  ELSE e[2] > marker[2]

ListMultipartUploads(uploads, delimited, marker, max) ==
  PageOf({e \in uploads : AfterMultipartMarker(e, marker)}, delimited, marker, max)

\* Parts have no prefixes: the first max numbers beyond the marker.
ListPartsPage(parts, marker, max) ==
  PageOf({e \in parts : Key(e) > Key(marker)}, FALSE, Start, max)
=============================================================================
