---------------------------- MODULE MCMmrService ----------------------------
(* Small instances of MmrService for TLC.                                   *)
EXTENDS MmrService

\* No row for the first blocks, then blocks in a row, then gaps of one block and
\* of two: a file built again from them has another shape.
MCRows == {3, 4, 5, 7, 10}
=============================================================================
