----------------------- MODULE SDCellAutoHeightManager -----------------------
(***************************************************************************)
(* SDCellAutoHeightManager caches the height of every row of a table view, *)
(* and the frames of its cell's subviews, under the row's index path.  The *)
(* categories of UITableView keep the cache in step with the rows: they    *)
(* swizzle reloadData, reloadRows, deleteRows and insertRows.  All of it   *)
(* runs on the main thread; only the reaction to a new width is put off,   *)
(* to a later block of the main queue.                                     *)
(*                                                                         *)
(* A cached value records the row and the width it was computed for; what  *)
(* a row looks like is the row.  An index path is a pair, rows from 0.     *)
(***************************************************************************)
EXTENDS Integers, FiniteSets, Sequences, SequencesExt

CONSTANTS
  Sections,
  Rows,        \* the rows there can be, with their contents
  MaxLength,   \* bound on the rows of a section
  MaxAtOnce,   \* bound on the rows of one call
  Widths,      \* the widths the table view can have
  MaxPending   \* bound on blocks waiting in the main queue

ASSUME HeightAssumption ==
  /\ MaxLength \in Nat \ {0} /\ MaxAtOnce \in Nat \ {0} /\ MaxPending \in Nat \ {0}
  /\ Widths \subseteq Nat \ {0} /\ Widths # {}

VARIABLES
  rows,              \* the data source, section by section
  tableWidth,        \* the width of the table view
  contentViewWidth,  \* the width the manager knows; 0 at first
  heights, frames,   \* _cacheDictionary and _subviewFrameCacheDict
  pending,           \* blocks of setContentViewWidth: in the main queue
  crashed,           \* has insertNewDataAtIndexPaths: met a missing entry?
  misled             \* history: has a change of the rows reached the cache
                     \* that it does not support, since it was last cleared?

tableVars == <<rows, tableWidth>>
vars == <<tableVars, contentViewWidth, heights, frames, pending, crashed,
          misled>>

Places == 0..(MaxLength - 1)
IndexPath == Sections \X Places
Value == [row : Rows, width : Widths]
Empty == [k \in {} |-> 0]

IsCache(f) == DOMAIN f \subseteq IndexPath /\ f \in [DOMAIN f -> Value]

TypeOK ==
  /\ DOMAIN rows = Sections
  /\ \A s \in Sections : rows[s] \in Seq(Rows) /\ Len(rows[s]) <= MaxLength
  /\ tableWidth \in Widths /\ contentViewWidth \in Widths \cup {0}
  /\ IsCache(heights) /\ IsCache(frames)
  /\ pending \in 0..MaxPending
  /\ crashed \in BOOLEAN /\ misled \in BOOLEAN

Init ==
  /\ rows = [s \in Sections |-> <<>>]
  /\ tableWidth \in Widths /\ contentViewWidth = 0
  /\ heights = Empty /\ frames = Empty
  /\ pending = 0 /\ crashed = FALSE /\ misled = FALSE

----------------------------------------------------------------------------
(* The table view.                                                          *)

Shown == {k \in IndexPath : k[2] < Len(rows[k[1]])}
RowAt(k) == rows[k[1]][k[2] + 1]
InTable == {RowAt(k) : k \in Shown}
Used == InTable \cup {heights[k].row : k \in DOMAIN heights}
        \cup {frames[k].row : k \in DOMAIN frames}

(* New rows, one for each member of P, not in the table nor remembered by   *)
(* its caches.                                                              *)
NewRows(P) == {q \in [P -> Rows \ Used] : IsInjective(q)}

(* The index paths of one call, all of one section: as a set, and as a list. *)
PlaceSets == {P \in SUBSET Places : Cardinality(P) \in 1..MaxAtOnce}
PlaceLists ==
  {ds \in UNION {[1..n -> Places] : n \in 1..MaxAtOnce} : IsInjective(ds)}

----------------------------------------------------------------------------
(* Places in a section.                                                     *)

Below(D, i) == Cardinality({d \in D : d < i})

(* The place of i among the numbers that are not in D, and the number that  *)
(* has place m among them; the first place is 0.                            *)
PlaceWithout(D, i) == i - Below(D, i)
AtPlace(D, m) == m + Cardinality({d \in D : PlaceWithout(D, d) <= m})

----------------------------------------------------------------------------
(* How the entries of a cache move with the rows.                           *)

(* Every index path k of the result takes the entry of f at From(k).        *)
Rekeyed(f, From(_)) ==
  [k \in {j \in IndexPath : From(j) \in DOMAIN f} |-> f[From(k)]]

Without(f, K) == [k \in DOMAIN f \ K |-> f[k]]
With(f, k, v) == [j \in DOMAIN f \cup {k} |-> IF j = k THEN v ELSE f[j]]

(* Mutant: the rows below the deleted one keep their entries.               *)
ResetAfterDeleteInPlace(f, d) == Without(f, {d})

(* deleteThenResetHeightCache: what is below the deleted row moves up.      *)
ResetAfterDelete(f, d) ==
  LET From(k) == IF k[1] = d[1] /\ k[2] >= d[2] THEN <<k[1], k[2] + 1>> ELSE k
  IN  Rekeyed(f, From)

(* sd_deleteRowsAtIndexPaths: resets for one path after the other.          *)
ResetAfterDeletes(f, s, ds) ==
  LET after[i \in 0..Len(ds)] ==
        IF i = 0 THEN f ELSE ResetAfterDelete(after[i - 1], <<s, ds[i]>>)
  IN  after[Len(ds)]

(* insertNewDataAtTheBeginingOfSection:newDataCount:                        *)
MovedByCount(f, s, n) ==
  LET From(k) == IF k[1] = s THEN <<s, k[2] - n>> ELSE k
  IN  Rekeyed(f, From)

(* Mutant: the entries of the section are taken out and not put back.       *)
MovedByInsertTakenOut(f, s, P) ==
  IF rows[s] = <<>> THEN f ELSE [k \in {j \in DOMAIN f : j[1] # s} |-> f[k]]

(* insertNewDataAtIndexPaths: for one of the caches; P are the places of    *)
(* the new rows among all rows.  An empty section is skipped.               *)
MovedByInsert(f, s, P) ==
  LET From(k) == IF k[1] = s THEN <<s, PlaceWithout(P, k[2])>> ELSE k
  IN  IF rows[s] = <<>> THEN f ELSE Without(Rekeyed(f, From), {s} \X P)

(* Mutant: the heights stay.                                                *)
clearHeightCacheOfFrames ==
  heights' = heights /\ frames' = Empty /\ misled' = FALSE

(* clearHeightCache.                                                        *)
clearHeightCache ==
  heights' = Empty /\ frames' = Empty /\ misled' = FALSE

----------------------------------------------------------------------------
(* The heights.                                                             *)

(* setContentViewWidth: clears the frames at once and the heights later.    *)
Turned == contentViewWidth \notin {0, tableWidth}
FramesLeft == IF Turned THEN Empty ELSE frames
setContentViewWidth ==
  /\ contentViewWidth' = tableWidth
  /\ pending' = pending + (IF Turned THEN 1 ELSE 0)
  /\ pending' <= MaxPending

(* Mutant: the width in use is the one known before.                        *)
MeasuredBefore(k) == IF k \in DOMAIN FramesLeft THEN FramesLeft[k]
                     ELSE [row |-> RowAt(k), width |-> contentViewWidth]

(* The layout of the model cell: cached frames win over resizing.           *)
Measured(k) == IF k \in DOMAIN FramesLeft THEN FramesLeft[k]
               ELSE [row |-> RowAt(k), width |-> tableWidth]

(* cellHeightForIndexPath:..., asked by the table view for a row it shows.  *)
cellHeight(k) ==
  /\ ~crashed /\ k \in Shown
  /\ setContentViewWidth
  /\ \/ k \in DOMAIN heights /\ heights' = heights /\ frames' = FramesLeft
     \/ /\ k \notin DOMAIN heights
        /\ heights' = With(heights, k, Measured(k))
        /\ frames' = With(FramesLeft, k, Measured(k))
  /\ UNCHANGED <<tableVars, crashed, misled>>

(* cellsTotalHeight adds up the heights that are cached.  If there is none  *)
(* it reloads first; the table view then asks for every height at once, or  *)
(* for none before its next layout.                                         *)
cellsTotalHeight ==
  /\ ~crashed
  /\ DOMAIN heights = {}
  /\ \/ clearHeightCache /\ UNCHANGED <<contentViewWidth, pending>>
     \/ /\ Shown # {}
        /\ setContentViewWidth
        /\ heights' = [k \in Shown |-> [row |-> RowAt(k), width |-> tableWidth]]
        /\ frames' = heights' /\ misled' = FALSE
  /\ UNCHANGED <<tableVars, crashed>>

(* The block of setContentViewWidth: clearHeightCache, reloadData.          *)
WidthBlock ==
  /\ ~crashed /\ pending > 0
  /\ pending' = pending - 1
  /\ clearHeightCache
  /\ UNCHANGED <<tableVars, contentViewWidth, crashed>>

Turn ==
  /\ ~crashed
  /\ tableWidth' \in Widths \ {tableWidth}
  /\ UNCHANGED <<rows, contentViewWidth, heights, frames, pending, crashed,
                 misled>>

----------------------------------------------------------------------------
(* Changes of the rows, each with the call that announces it.               *)

RowsChange(s, q) ==
  /\ ~crashed
  /\ Len(q) <= MaxLength
  /\ rows' = [rows EXCEPT ![s] = q]
  /\ UNCHANGED <<tableWidth, contentViewWidth, pending>>

reloadData(s) ==
  /\ RowsChange(s, <<>>) \/ RowsChange(s, Reverse(rows[s]))
  /\ clearHeightCache
  /\ UNCHANGED crashed

(* reloadDataWithExistedHeightCache, after rows were appended.              *)
reloadDataWithExistedHeightCache(s, n) ==
  /\ \E q \in NewRows(1..n) : RowsChange(s, rows[s] \o q)
  /\ UNCHANGED <<heights, frames, misled, crashed>>

(* reloadDataWithInsertingDataAtTheBeginingOfSection:newDataCount:          *)
reloadDataWithInsertingData(s, n) ==
  /\ \E q \in NewRows(1..n) : RowsChange(s, q \o rows[s])
  /\ heights' = MovedByCount(heights, s, n)
  /\ frames' = MovedByCount(frames, s, n)
  /\ UNCHANGED <<misled, crashed>>

(* The section q with new rows in the places P.                             *)
Replaced(q, P, new) ==
  [i \in DOMAIN q |-> IF i - 1 \in P THEN new[i - 1] ELSE q[i]]

(* reloadRowsAtIndexPaths:                                                  *)
reloadRows(s, P) ==
  /\ {s} \X P \subseteq Shown
  /\ \E q \in NewRows(P) : RowsChange(s, Replaced(rows[s], P, q))
  /\ heights' = Without(heights, {s} \X P)
  /\ frames' = Without(frames, {s} \X P)
  /\ UNCHANGED <<misled, crashed>>

(* What is left of the section q without the rows D.                        *)
Remaining(q, D) ==
  [i \in 1..(Len(q) - Cardinality(D)) |-> q[AtPlace(D, i - 1) + 1]]

(* deleteRowsAtIndexPaths:, one path after the other as they are listed.    *)
(* They all name rows of the table before the call, so only from the last   *)
(* row to the first is the cache told the right thing.                      *)
LastFirst(ds) == \A i, j \in DOMAIN ds : i < j => ds[i] > ds[j]

deleteRows(s, ds) ==
  /\ {s} \X ToSet(ds) \subseteq Shown
  /\ RowsChange(s, Remaining(rows[s], ToSet(ds)))
  /\ heights' = ResetAfterDeletes(heights, s, ds)
  /\ frames' = ResetAfterDeletes(frames, s, ds)
  /\ misled' = (misled \/ ~LastFirst(ds))
  /\ UNCHANGED crashed

(* insertRowsAtIndexPaths:.  It stores what it finds for a cached row in    *)
(* two arrays, and nil, or an index beyond the section, is an exception.    *)
Inserted(q, P, new) ==
  [i \in 1..(Len(q) + Cardinality(P)) |->
     IF i - 1 \in P THEN new[i - 1] ELSE q[PlaceWithout(P, i - 1) + 1]]

Incomplete(s) ==
  /\ rows[s] # <<>>
  /\ \E k \in DOMAIN heights : k[1] = s /\ k \notin Shown \cap DOMAIN frames

insertRows(s, P) ==
  /\ \A i \in P : i < Len(rows[s]) + Cardinality(P)
  /\ \E q \in NewRows(P) : RowsChange(s, Inserted(rows[s], P, q))
  /\ \/ ~Incomplete(s) /\ UNCHANGED crashed
     \/ Incomplete(s) /\ crashed' = TRUE
  /\ heights' = MovedByInsert(heights, s, P)
  /\ frames' = MovedByInsert(frames, s, P)
  /\ UNCHANGED misled

(* moveRowAtIndexPath: has no counterpart here ("to be implemented next").  *)
moveRow(s) ==
  /\ Len(rows[s]) > 1
  /\ RowsChange(s, Tail(rows[s]) \o <<Head(rows[s])>>)
  /\ misled' = TRUE
  /\ UNCHANGED <<heights, frames, crashed>>

----------------------------------------------------------------------------
RowsChanged(s) ==
  \/ reloadData(s) \/ moveRow(s)
  \/ \E n \in 1..MaxAtOnce :
       reloadDataWithExistedHeightCache(s, n) \/ reloadDataWithInsertingData(s, n)
  \/ \E P \in PlaceSets : insertRows(s, P) \/ reloadRows(s, P)
  \/ \E ds \in PlaceLists : deleteRows(s, ds)

Next ==
  \/ \E s \in Sections : RowsChanged(s)
  \/ \E k \in IndexPath : cellHeight(k)
  \/ cellsTotalHeight \/ WidthBlock \/ Turn

Spec == Init /\ [][Next]_vars

----------------------------------------------------------------------------
(* No cached height or frame belongs to another row: after any sequence of  *)
(* changes each entry is under an index path of the table and was computed  *)
(* for the row that is there now, and at the width the manager knows unless *)
(* a reload for a new width is on its way (lines 132-239, 320-336).         *)
Fits(f) ==
  \A k \in DOMAIN f :
    k \in Shown /\ f[k].row = RowAt(k)
    /\ (pending = 0 => f[k].width = contentViewWidth)

CachesFit == ~misled => Fits(heights) /\ Fits(frames)

(* insertNewDataAtIndexPaths: stores nil in an array, an exception, only    *)
(* while a reload for a new width is on its way: at any other time every    *)
(* cached height has its frames and lies within the section (line 217).     *)
CrashesOnlyWhenTurning == crashed => pending > 0 \/ misled

----------------------------------------------------------------------------
(* What makes these inductive.                                              *)

(* Before the first width is known nothing has been measured.               *)
NothingMeasured ==
  contentViewWidth = 0 => DOMAIN heights = {} /\ DOMAIN frames = {}

(* Frames never outlive their height: so the loops over the keys of the     *)
(* heights (lines 143 and 167) find every entry of the frames too.  And     *)
(* they are missing only before a reload.                                   *)
FramesHaveHeights ==
  /\ DOMAIN frames \subseteq DOMAIN heights
  /\ pending = 0 => DOMAIN heights \subseteq DOMAIN frames

RowsDiffer == \A k, l \in Shown : RowAt(k) = RowAt(l) => k = l

HeightInv ==
  /\ TypeOK /\ CachesFit /\ CrashesOnlyWhenTurning
  /\ NothingMeasured /\ FramesHaveHeights /\ RowsDiffer

----------------------------------------------------------------------------
(* As a memo of the rows, wherever they are: a change of the rows forgets   *)
(* those that leave the table and no others, and a row is measured only if  *)
(* it is not remembered.                                                    *)
Remembered == {heights[k] : k \in DOMAIN heights}
Memo == INSTANCE SDHeightMemo WITH
  table <- InTable,
  memo <- IF misled THEN {} ELSE Remembered,
  lost <- misled
ImplementsMemo == Memo!Spec
=============================================================================
