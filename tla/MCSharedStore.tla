--------------------------- MODULE MCSharedStore ---------------------------
(* Two scans and one credit: the second scan is refused, or takes the credit the
   first one gave back, or the one a stale memory still has. *)
EXTENDS SharedStore

CONSTANTS s1, s2

MCScan == {s1, s2}
=============================================================================
