----------------------------- MODULE SDHeightMemo -----------------------------
(***************************************************************************)
(* What the calls of UITableView+SDAutoTableViewCellHeight.h promise of    *)
(* the cell heights (lines 67-78): those already computed are kept, and    *)
(* follow their rows.  So the cache is a memo of rows, wherever in the     *)
(* table they are: a call that adds, replaces or removes rows forgets      *)
(* nothing of those that stay.  reloadData starts anew, with no row added; *)
(* a change the cache does not support loses the memo until then.          *)
(***************************************************************************)
CONSTANTS Rows, Widths

VARIABLES
  table,  \* the rows in the table view
  memo,   \* what is remembered of them
  lost

memoVars == <<table, memo, lost>>

Init == table = {} /\ memo = {} /\ lost = FALSE

(* A row is measured once, and remembered.                                  *)
Measure(r, w) ==
  /\ r \in table /\ \A v \in memo : v.row # r
  /\ ~lost
  /\ memo' = memo \cup {[row |-> r, width |-> w]}
  /\ UNCHANGED <<table, lost>>

MeasureAll(w) ==
  /\ memo = {}
  /\ memo' = {[row |-> r, width |-> w] : r \in table} /\ lost' = FALSE
  /\ UNCHANGED table

(* Only what is about rows that left the table is forgotten.                *)
Change(T) ==
  /\ table' = T
  /\ memo' = {v \in memo : v.row \in T}
  /\ UNCHANGED lost

Reload(T) ==
  /\ table' = T
  /\ memo' = {} /\ lost' = FALSE

Lose(T) ==
  /\ table' = T
  /\ memo' = {} /\ lost' = TRUE

Next ==
  \/ \E r \in Rows, w \in Widths : Measure(r, w)
  \/ \E w \in Widths : MeasureAll(w)
  \/ \E T \in SUBSET Rows : Change(T)
  \/ \E T \in SUBSET table : Reload(T) \/ Lose(T)

Spec == Init /\ [][Next]_memoVars
=============================================================================
