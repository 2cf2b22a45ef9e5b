--------------------------- MODULE MCByteStreamSDF ---------------------------
(* Small instances of ByteStreamSDF: every file of Size bytes is tried. *)
EXTENDS ByteStreamSDF
=============================================================================
