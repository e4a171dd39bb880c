---------------------------- MODULE MCRingBuffer ----------------------------
(***************************************************************************)
(* Two slots and cursors that wrap at 4, so a run of MaxMessages pushes    *)
(* goes around the ring several times and the cursors wrap at least once.  *)
(***************************************************************************)
EXTENDS RingBuffer

CONSTANTS a, b

MCMessages == {a, b}
MCBatches == {<<a>>, <<b>>, <<a, b, a>>}
=============================================================================
