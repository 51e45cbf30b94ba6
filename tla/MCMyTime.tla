------------------------------ MODULE MCMyTime ------------------------------
(***************************************************************************)
(* Values for TLC: d1 below the root and d2 below d1, with a file each, and*)
(* d3 below the root, hidden and locked, with a file that nobody finds.    *)
(* The clock starts in second 8, and an hour has two: the files that count *)
(* are half an hour ahead and too old, or an hour old and an hour ahead.   *)
(***************************************************************************)
EXTENDS MyTime, TLC

CONSTANTS d1, d2, d3, f1, f2, f3

MCLayouts == {(d1 :> Root) @@ (d2 :> d1) @@ (d3 :> Root) @@ (f1 :> d3) @@ (f2 :> d1) @@ (f3 :> d2)}
MCStamps == {(f1 :> 7) @@ (f2 :> 9) @@ (f3 :> 4), (f1 :> 8) @@ (f2 :> 6) @@ (f3 :> 10)}
============================================================================
