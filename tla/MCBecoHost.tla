----------------------------- MODULE MCBecoHost -----------------------------
(***************************************************************************)
(* Small instances of BecoHost: two commands and two functions, pipes of   *)
(* one or two frames.                                                      *)
(***************************************************************************)
EXTENDS BecoHost, TLC

CONSTANTS hello, close, f, g

MCCmds == {hello, close}
MCFuns == {f, g}
OneFun == {f}

MCSymmetry == Permutations(MCCmds) \cup Permutations(MCFuns)

=============================================================================
