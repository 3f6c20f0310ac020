--------------------------- MODULE MCPopBaseView ---------------------------
(* A keyboard of two heights and a frame below the screen; a pop view in    *)
(* the way of both heights, and one in the way of the taller only.          *)
EXTENDS PopBaseView, TLC

CONSTANTS hidden, short, tall, low, high

MCTop == hidden :> 9 @@ short :> 5 @@ tall :> 3
MCBottom == low :> 6 @@ high :> 4
=============================================================================
