----------------------------- MODULE MCBecoMock -----------------------------
(***************************************************************************)
(* Streams, in one run: those of the mock framework, both halves of mock.c *)
(* both places a host can log to and both ways to call its loop, with three requests through pipes of *)
(* one and two items; or those of the contexts of a process.               *)
(***************************************************************************)
EXTENDS BecoMock, BecoContext

VARIABLE on   \* what moves; the other stays as it is at the start

MCInit == /\ Init /\ CtxInit /\ on \in {"mock", "contexts"}
          /\ on = "contexts" => platform = "posix" /\ logTo = "file" /\ exitOnFail
MCNext == /\ \/ on = "mock" /\ Next /\ UNCHANGED cvars
             \/ on = "contexts" /\ CtxNext /\ UNCHANGED vars
          /\ UNCHANGED on

\* The fairness is BecoMock's.
MCSpec == /\ MCInit /\ [][MCNext]_<<vars, cvars, on>>
          /\ WF_vars(StartSteps) /\ WF_vars(DriverSteps) /\ WF_vars(HostSteps)

=============================================================================
