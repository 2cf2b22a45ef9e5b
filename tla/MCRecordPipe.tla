---------------------------- MODULE MCRecordPipe ----------------------------
(* Small instances of RecordPipe: every sequence of NumLines lines is tried, *)
(* with channels scaled down so that they fill up.                           *)
EXTENDS RecordPipe
=============================================================================
