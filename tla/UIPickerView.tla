---------------------------- MODULE UIPickerView ----------------------------
(***************************************************************************)
(* A wheel of UIKit's UIPickerView, as the sheets of the kit meet it.      *)
(***************************************************************************)
EXTENDS Integers

(* selectedRowInComponent: of a wheel without rows.                         *)
NoRow == -1

(* selectRow:inComponent: and a reload keep the row of a wheel within its n *)
(* rows.                                                                    *)
Within(r, n) ==
  IF n <= 0 THEN NoRow ELSE IF r < 0 THEN 0 ELSE IF r < n THEN r ELSE n - 1
=============================================================================
