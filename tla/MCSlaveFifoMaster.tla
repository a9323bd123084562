-------------------------- MODULE MCSlaveFifoMaster --------------------------
(* SlaveFifoMaster with packets of two words and a handful of data words. *)
EXTENDS SlaveFifoMaster

\* A count and the header, which is also what a larger count looks like.
MCWords == {0, 2, 7}
=============================================================================
