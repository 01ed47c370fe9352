----------------------------- MODULE MCBecoWire -----------------------------
(***************************************************************************)
(* A small instance of BecoWire.  Lengths are numbers modulo 5 and at most *)
(* 3, headers take two bytes, and the pipe holds two: shorter than the     *)
(* longest payload, so that a writer blocks in the middle of it.           *)
(***************************************************************************)
EXTENDS BecoWire, TLC

CONSTANTS empty, short, long, over, huge, nan

MCMsgs == {empty, short, long, over, huge, nan}
MCSize == (empty :> 0) @@ (short :> 1) @@ (long :> 3) @@ (over :> 4)
          @@ (huge :> 6) @@ (nan :> 0)
MCNoText == {nan}
MCGarbledSizes == {0, 4}

=============================================================================
