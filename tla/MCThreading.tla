----------------------------- MODULE MCThreading -----------------------------
(* Three threads, with the nanoseconds of the code scaled by 10^-5 so that
   they fit TLC's integers: 10 per millisecond, 10^4 per second, and 42950
   (for 4294967296) values of unsigned int.  The waits are on both sides of
   a second and of the first wrap-around. *)
EXTENDS Threading, TLC

CONSTANTS t1, t2, t3

MCThread == {t1, t2, t3}

MCWaits == {<<1, 999>>, <<2, 1000>>, <<2000, 0>>, <<4295, 1>>}

=============================================================================
