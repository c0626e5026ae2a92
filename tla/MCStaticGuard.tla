--------------------------- MODULE MCStaticGuard ---------------------------
(* Two threads that reach the same guarded block. *)
EXTENDS StaticGuard

CONSTANTS t1, t2

MCThreads == {t1, t2}
=============================================================================
