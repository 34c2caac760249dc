------------------------- MODULE MCArchiveBackfill -------------------------
(* Two days of a month with one between them that is never imported, and a    *)
(* later month.                                                               *)
EXTENDS ArchiveBackfill

MCDay == {<<1, 1>>, <<1, 3>>, <<2, 1>>}
=============================================================================
