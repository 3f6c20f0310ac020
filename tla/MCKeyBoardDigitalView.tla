----------------------- MODULE MCKeyBoardDigitalView -----------------------
(* Two fields with one foot view that stands in a view of the app, and one  *)
(* field whose foot view has no superview, as in RCCusKeyboardVC.           *)
EXTENDS KeyBoardDigitalView

CONSTANTS field1, field2, field3, foot1, foot2

MCFootOf ==
  [t \in Field |-> CASE t \in {field1, field2} -> foot1
                     [] t = field3 -> foot2]
=============================================================================
