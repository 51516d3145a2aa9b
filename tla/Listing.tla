------------------------------- MODULE Listing -------------------------------
(***************************************************************************)
(* A client walks a listing page by page while other clients add and       *)
(* remove entries (handleListObjectsV2, handleListMultipartUploads and     *)
(* handleListParts of zeros3.go).  Each page is computed from the entries  *)
(* of its own moment; only the cursor is carried from page to page.        *)
(***************************************************************************)
EXTENDS ListPages, FiniteSetsExt, Functions

CONSTANTS ListInstances   \* which listing, over what, with how many changes

ASSUME ListAssumption ==
  /\ ListInstances \subseteq
       [api : {"objects", "uploads", "parts"}, delimited : BOOLEAN, max : Nat,
        from : SUBSET (Keys \X Nat), changes : Nat]
  /\ \A i \in ListInstances : /\ IsFiniteSet(i.from)
                               /\ \A e \in i.from : e[2] = 0 <=> i.api # "uploads"

VARIABLES request,    \* the listing asked for, and the changes still to come
          container,  \* the bucket (for parts: the upload) exists
          entries,    \* the objects, uploads or parts there are
          cursor,     \* the token or markers the next page is asked with
          units,      \* the results of the pages so far, in order
          walk,       \* "paging", "done", "failed"
          lasting,    \* entries that have been there at every moment of the walk
          seen        \* entries that have been there at some moment of it

listVars == <<request, container, entries, cursor, units, walk, lasting, seen>>

ListInit ==
  /\ request \in ListInstances
  /\ container = TRUE /\ entries = request.from
  /\ cursor = Start /\ units = <<>> /\ walk = "paging"
  /\ lasting = entries /\ seen = entries
-----------------------------------------------------------------------------
(* The other clients.                                                      *)

Changes(now) ==
  /\ request.changes > 0 /\ request' = [request EXCEPT !.changes = @ - 1]
  /\ entries' = now /\ lasting' = lasting \cap now /\ seen' = seen \cup now
  /\ UNCHANGED <<cursor, units, walk>>

\* Upload ids are UUIDv7: a new one sorts after every earlier one.
NewId == IF request.api = "uploads"
         THEN 1 + Max({0} \cup {e[2] : e \in seen}) ELSE 0

AddEntry == \E k \in Keys :
  container /\ Changes(entries \cup {<<k, NewId>>}) /\ UNCHANGED container

\* A part is never removed by itself.
RemoveEntry == \E e \in entries :
  request.api # "parts" /\ Changes(entries \ {e}) /\ UNCHANGED container

\* DeleteBucket of an empty bucket; AbortMultipartUpload for parts.
RemoveContainer ==
  /\ container /\ (entries = {} \/ request.api = "parts")
  /\ Changes({}) /\ container' = FALSE

CreateBucket ==
  /\ ~container /\ request.api # "parts"
  /\ Changes(entries) /\ container' = TRUE
-----------------------------------------------------------------------------
(* The walk.                                                               *)

Page == CASE request.api = "objects" ->
               ListObjectsV2(entries, request.delimited, cursor, request.max)
          [] request.api = "uploads" ->
               ListMultipartUploads(entries, request.delimited, cursor, request.max)
          [] OTHER -> ListPartsPage(entries, cursor, request.max)

\* NextContinuationToken names a key; the markers of uploads key and upload id.
NextCursor(page) == IF request.api = "uploads" THEN page.last ELSE <<Key(page.last), 0>>

NextPage ==
  /\ walk = "paging" /\ container
  /\ LET page == Page IN
       /\ units' = units \o page.units
       /\ IF page.truncated THEN cursor' = NextCursor(page) /\ UNCHANGED walk
          ELSE walk' = "done" /\ UNCHANGED cursor
  /\ UNCHANGED <<request, container, entries, lasting, seen>>

\* No such bucket or upload; or one manifest of the page cannot be read,
\* which fails the page as a whole; or the answer is lost.
PageFails ==
  /\ walk = "paging" /\ walk' = "failed"
  /\ UNCHANGED <<request, container, entries, cursor, units, lasting, seen>>

ListNext == AddEntry \/ RemoveEntry \/ RemoveContainer \/ CreateBucket \/ NextPage \/ PageFails

\* The changes run out, so a client that keeps asking gets to the end.
FairWalk == NextPage \/ PageFails
-----------------------------------------------------------------------------
\* Types; what is listed was there, by itself or under its common prefix.
ListTypeOK ==
  /\ request.changes \in Nat /\ container \in BOOLEAN
  /\ walk \in {"paging", "done", "failed"}
  /\ entries \subseteq Keys \X Nat /\ cursor \in (Keys \cup {0}) \X Nat
  /\ lasting \subseteq entries /\ entries \subseteq seen

UnitOf(e) == IF request.api # "parts" /\ GroupOf(e, request.delimited) # 0
             THEN PrefixUnit(GroupOf(e, request.delimited)) ELSE e

\* A walk that ended has shown every entry that was there throughout, by
\* itself or as its common prefix.  max-keys=0 asks for nothing.
LastingAreListed ==
  walk = "done" /\ request.max > 0 => \A e \in lasting : UnitOf(e) \in Range(units)

\* Nothing is made up: a result is an entry of some moment of the walk, or
\* the common prefix of one.
ListedHaveExisted == Range(units) \subseteq {UnitOf(e) : e \in seen}

\* Results come in order and never twice, whatever changes between the pages.
\* The one exception: a common prefix of ListObjectsV2, once a key was added
\* under it during the walk.
AddedUnder(u) == request.api = "objects" /\ \E e \in seen \ lasting : UnitOf(e) = u
ListedOnce == \A i, j \in DOMAIN units : i < j =>
  Before(units[i], units[j]) \/ (units[i] = units[j] /\ units[i][2] = -1 /\ AddedUnder(units[i]))

\* "What pagination never does, even under concurrent mutation, is duplicate or
\* corrupt a result" (section 7b, about the pages of ListObjectsV2).
PaginationNeverDuplicates == \A i, j \in DOMAIN units : i < j => units[i] # units[j]

\* A page is the first max units of what lies beyond the cursor, it says it is
\* truncated when there are more, and its cursor covers exactly those units.
PageIsFirstUnits ==
  LET Beyond == {e \in entries : IF request.api = "uploads" THEN AfterMultipartMarker(e, cursor)
                                                            ELSE Key(e) > Key(cursor)}
      New    == {UnitOf(e) : e \in Beyond} \
                  IF request.api = "uploads" THEN {PrefixUnit(p) : p \in 1 .. Key(cursor)} ELSE {}
      page   == Page
      Shown  == Range(page.units)
  IN walk = "paging" /\ request.max > 0 =>
       /\ Shown \subseteq New /\ Cardinality(Shown) = Len(page.units)
       /\ \A u \in Shown, v \in New \ Shown : Before(u, v)
       /\ page.truncated <=> Shown # New
       /\ Cardinality(Shown) <= request.max /\ (page.truncated => Cardinality(Shown) = request.max)
       /\ page.truncated => \A e \in Beyond : ~Before(page.last, e) <=> UnitOf(e) \notin New \ Shown

\* What listings promise, together.
ListingFaithful == LastingAreListed /\ ListedHaveExisted /\ ListedOnce /\ PageIsFirstUnits
=============================================================================
