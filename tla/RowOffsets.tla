----------------------------- MODULE RowOffsets -----------------------------
(***************************************************************************)
(* Things of different lengths laid one after another: the parts of a zip  *)
(* (stream/internal/server ziplayout.go), the blocks of a RAR volume and   *)
(* the fragments of a file (shared/usenet/rarfs).                          *)
(***************************************************************************)
EXTENDS Naturals, Sequences

Least(a, b) == IF a < b THEN a ELSE b

(* Where each of a row of things of these lengths begins, and after the    *)
(* last of them where it ends.                                             *)
Offsets(lens) ==
    LET at[i \in 1..(Len(lens) + 1)] == IF i = 1 THEN 0 ELSE at[i - 1] + lens[i - 1] IN at

=============================================================================
