--------------------------------- MODULE MCLog ---------------------------------
(* Log for TLC: three threads, the fewest of which one can be forgotten:   *)
(* one creates the mutex while another holds it and the third sleeps.      *)
EXTENDS Log

CONSTANTS t1, t2, t3

Threads == {t1, t2, t3}

===============================================================================
