--------------------------- MODULE MCTaskChannel ---------------------------
(* The instance of TaskChannel for TLC.                                    *)
EXTENDS TaskChannel

CONSTANTS t1, t2, t3, v1, v2

MCThreads  == {t1, t2, t3}
MCValues   == {v1, v2}
=============================================================================
