------------------------------ MODULE MCStream ------------------------------
(***************************************************************************)
(* Both receive loops over the cells 0 .. 12 with a magic of two cells.    *)
(* One frame has no payload; the payload of the other is itself a magic.   *)
(* A stray cell can be the first of a magic.  Signed, the bad lengths are  *)
(* 3, -6 (below minus a frame), -5 (minus a frame), -4 and -1 (minus a     *)
(* checksum).                                                              *)
(***************************************************************************)
EXTENDS PhoneStream

MCMagic == <<5, 6>>
MCCell == 0 .. 12
MCFrames == {[type |-> 1, payload |-> <<>>], [type |-> 2, payload |-> MCMagic]}
MCBadLengths == {3, 7, 8, 9, 12}
MCNoise == {<<0>>, <<5>>, <<5, 0, 6>>}

=============================================================================
