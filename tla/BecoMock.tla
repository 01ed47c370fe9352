------------------------------ MODULE BecoMock ------------------------------
(***************************************************************************)
(* The mock framework (mock.c): BecoMockStart creates two pipes, spawns    *)
(* the host under test on them and wraps the other two ends in the FILEs   *)
(* of a driver, which then converses with the host through BecoWrite and   *)
(* BecoRead until BecoMockFinish.                                          *)
(*                                                                         *)
(* What matters is who holds which end of the pipes: a read meets the end  *)
(* of the stream only when nobody holds a writing end, a write fails only  *)
(* when nobody holds the reading end.  The POSIX and the Windows half of   *)
(* mock.c differ in exactly that.                                          *)
(***************************************************************************)
EXTENDS Naturals, Sequences

CONSTANTS Platforms,    \* which halves of mock.c to consider
          LogTargets,    \* ctx->log of the host: "stderr" (the default) or "file"
          ExitOnFail,    \* values of exit_on_fail the host may call BecoMainLoop with
          InCap, OutCap, \* items that fit in the pipes
          MaxRequests    \* bound of the model: requests the driver sends

ASSUME PlatformAssumption == Platforms \subseteq {"posix", "windows"}
ASSUME LogAssumption == LogTargets \subseteq {"stderr", "file"}
ASSUME ExitAssumption == ExitOnFail \subseteq BOOLEAN
ASSUME CapAssumption ==
    InCap \in Nat \ {0} /\ OutCap \in Nat \ {0} /\ MaxRequests \in Nat

VARIABLES platform, logTo, exitOnFail,  \* fixed from the start
          parent, child,    \* the ends each process holds
          files,            \* the ends behind mock->in and mock->out
          mpc,              \* progress of BecoMockStart, up to BecoMockFinish
          result,           \* what BecoMockStart returned
          twice,            \* history: ends closed by one who did not hold them
          host,             \* the host process and where its loop is
          serving,          \* the request it answers
          inq, outq,        \* contents of the pipes: requests; replies and text
          dpc, asked, got,  \* the driver: where it is, requests made, replies read
          dres              \* what its last call returned

fixed   == <<platform, logTo, exitOnFail>>
holding == <<parent, child, files, twice>>
talk    == <<inq, outq, dpc, asked, got, dres>>
vars    == <<fixed, holding, mpc, result, host, serving, talk>>

-----------------------------------------------------------------------------
Ends == {"in_rd", "in_wr", "out_rd", "out_wr"}
Text == 0  \* bytes that are not a frame; a reply is the number of its request

Windows == platform = "windows"
Calls == {"writing", "reading", "astray"}
Running == {"reading", "logging", "handling", "tracing", "replying", "spinning"}

TypeOK ==
    /\ platform \in Platforms /\ logTo \in LogTargets /\ exitOnFail \in ExitOnFail
    /\ parent \subseteq Ends /\ child \subseteq Ends /\ files \subseteq Ends
    /\ twice \subseteq Ends
    /\ mpc \in {"new", "piped", "spawned", "converted", "started", "failed", "finished"}
    /\ result \in {"none", "OK", "GENERIC"}
    /\ host \in Running \cup {"none", "exited"}
    /\ serving \in 0..MaxRequests
    /\ inq \in Seq(1..MaxRequests) /\ Len(inq) <= InCap
    /\ outq \in Seq(0..MaxRequests) /\ Len(outq) <= OutCap
    /\ dpc \in Calls \cup {"idle", "written"}
    /\ asked \in 0..MaxRequests
    /\ got \in Seq(1..MaxRequests)
    /\ dres \in {"none", "OK", "IO"}

Init ==
    /\ platform \in Platforms /\ logTo \in LogTargets /\ exitOnFail \in ExitOnFail
    /\ parent = {} /\ child = {} /\ files = {} /\ twice = {}
    /\ mpc = "new" /\ result = "none"
    /\ host = "none" /\ serving = 0
    /\ inq = <<>> /\ outq = <<>>
    /\ dpc = "idle" /\ asked = 0 /\ got = <<>> /\ dres = "none"

\* The processes that hold an end.
Holders(end) == {p \in {"parent", "child"} :
                   end \in IF p = "parent" THEN parent ELSE child}

-----------------------------------------------------------------------------
(* BecoMockStart and BecoMockFinish *)

Fail == mpc' = "failed" /\ result' = "GENERIC"

\* The parent closes each end of the sequence in turn.
CloseAll(ends) ==
    LET closed == {ends[i] : i \in DOMAIN ends}
    IN  /\ parent' = parent \ closed
        /\ twice' = twice \cup (closed \ parent)
                          \cup {ends[j] : j \in {k \in DOMAIN ends :
                                   \E i \in 1..k - 1 : ends[i] = ends[k]}}

\* MockCreatePipe.  When the second pipe fails, the POSIX half forgets the
\* first one, the Windows half closes it.
CreatePipe ==
    /\ mpc = "new"
    /\ \/ parent' = Ends /\ mpc' = "piped" /\ result' = result
       \/ /\ Fail
          /\ parent' \in IF Windows THEN {{}} ELSE {{}, {"in_rd", "in_wr"}}
    /\ UNCHANGED <<fixed, child, files, twice, host, serving, talk>>

\* Mutant: the Windows parent keeps the ends it has handed over.
CreateProcessKeeping ==
    /\ mpc = "piped"
    /\ \/ /\ mpc' = "spawned" /\ result' = result /\ host' = "reading"
          /\ child' = IF Windows THEN {"in_rd", "out_wr"} ELSE Ends
          /\ parent' = parent
       \/ Fail /\ UNCHANGED <<parent, child, host>>
    /\ UNCHANGED <<fixed, files, twice, serving, talk>>

\* MockCreateProcess.  A POSIX child inherits every end, and the parent keeps
\* them all; on Windows the child gets the two inheritable ones, which the
\* parent closes.
CreateProcess ==
    /\ mpc = "piped"
    /\ \/ /\ mpc' = "spawned" /\ result' = result /\ host' = "reading"
          /\ child' = IF Windows THEN {"in_rd", "out_wr"} ELSE Ends
          /\ parent' = IF Windows THEN parent \ {"in_rd", "out_wr"} ELSE parent
       \/ Fail /\ UNCHANGED <<parent, child, host>>
    /\ UNCHANGED <<fixed, files, twice, serving, talk>>

\* MockConvertFileDescriptor, POSIX half: fdopen of in_wr, then of out_rd.
ConvertPosix ==
    /\ mpc = "spawned" /\ ~ Windows
    /\ \/ /\ files' = {"in_wr", "out_rd"} /\ mpc' = "converted" /\ result' = result
          /\ UNCHANGED <<parent, twice>>
       \/ /\ Fail /\ files' = files
          /\ \E opened \in {<<>>, <<"in_wr">>} : CloseAll(opened)
    /\ UNCHANGED <<fixed, child, host, serving, talk>>

\* The Windows half closes what it has opened, a stream and the descriptor
\* under it both, and then returns no value: BecoMockStart may take it for true.
ConvertWindows ==
    /\ mpc = "spawned" /\ Windows
    /\ \/ /\ files' = {"in_wr", "out_rd"} /\ mpc' = "converted" /\ result' = result
          /\ UNCHANGED <<parent, twice>>
       \/ /\ files' = files
          /\ \E opened \in {<<>>, <<"in_wr">>, <<"in_wr", "out_rd">>,
                            <<"in_wr", "out_rd", "in_wr">>} : CloseAll(opened)
          /\ Fail \/ (mpc' = "converted" /\ result' = result)
    /\ UNCHANGED <<fixed, child, host, serving, talk>>

\* MockCreateDriver.  Without FILEs the driver keeps stdin and stdout.
CreateDriver ==
    /\ mpc = "converted"
    /\ mpc' = "started" /\ result' = "OK"
    /\ UNCHANGED <<fixed, holding, host, serving, talk>>

\* Mutant: MockClosePipe closes the ends its comment lists, then the FILEs are closed.
FinishPipeToo ==
    /\ mpc \in {"started", "failed"} /\ dpc \notin Calls
    /\ mpc' = "finished"
    /\ IF mpc = "started" /\ files # {}
       THEN CloseAll(<<"in_rd", "in_wr", "out_rd", "out_wr", "out_rd", "in_wr">>)
       ELSE UNCHANGED <<parent, twice>>
    /\ UNCHANGED <<fixed, child, files, result, host, serving, talk>>

\* Mutant: the driver's output is left open.
FinishInput ==
    /\ mpc \in {"started", "failed"} /\ dpc \notin Calls
    /\ mpc' = "finished"
    /\ IF mpc = "started" /\ files # {} THEN CloseAll(<<"out_rd">>)
                                        ELSE UNCHANGED <<parent, twice>>
    /\ UNCHANGED <<fixed, child, files, result, host, serving, talk>>

\* BecoMockFinish: MockClosePipe closes nothing, the driver's FILEs are closed.
\* After a failed start the driver has none.
Finish ==
    /\ mpc \in {"started", "failed"} /\ dpc \notin Calls
    /\ mpc' = "finished"
    /\ IF mpc = "started" /\ files # {} THEN CloseAll(<<"out_rd", "in_wr">>)
                                        ELSE UNCHANGED <<parent, twice>>
    /\ UNCHANGED <<fixed, child, files, result, host, serving, talk>>

-----------------------------------------------------------------------------
(* The driver *)

DriverAsk ==
    /\ mpc = "started" /\ files # {} /\ dpc = "idle" /\ asked < MaxRequests
    /\ asked' = asked + 1 /\ dpc' = "writing" /\ dres' = "none"
    /\ UNCHANGED <<fixed, holding, mpc, result, host, serving, inq, outq, got>>

\* BecoWrite: it waits for room.
DriverWrite ==
    /\ dpc = "writing" /\ Len(inq) < InCap /\ Holders("in_rd") # {}
    /\ inq' = Append(inq, asked) /\ dpc' = "written"
    /\ UNCHANGED <<fixed, holding, mpc, result, host, serving, outq, asked, got, dres>>

DriverWriteFails ==
    /\ dpc = "writing" /\ Holders("in_rd") = {}
    /\ dpc' = "idle" /\ dres' = "IO"
    /\ UNCHANGED <<fixed, holding, mpc, result, host, serving, inq, outq, asked, got>>

\* The program asks for the reply, or it has seen enough and calls BecoMockFinish.
DriverAwait ==
    /\ mpc = "started" /\ dpc = "written"
    /\ dpc' = "reading"
    /\ UNCHANGED <<fixed, holding, mpc, result, host, serving, inq, outq, asked, got, dres>>

\* A frame is the reply.  Text is taken for a header: BecoReadRaw goes astray
\* and reads on until the stream ends.
DriverRead ==
    /\ dpc \in {"reading", "astray"} /\ outq # <<>>
    /\ outq' = Tail(outq)
    /\ IF dpc = "reading" /\ Head(outq) # Text
       THEN dpc' = "idle" /\ got' = Append(got, Head(outq)) /\ dres' = "OK"
       ELSE dpc' = "astray" /\ got' = got /\ dres' = dres
    /\ UNCHANGED <<fixed, holding, mpc, result, host, serving, inq, asked>>

DriverEof ==
    /\ dpc \in {"reading", "astray"} /\ outq = <<>> /\ Holders("out_wr") = {}
    /\ dpc' = "idle" /\ dres' = "IO"
    /\ UNCHANGED <<fixed, holding, mpc, result, host, serving, inq, outq, asked, got>>

-----------------------------------------------------------------------------
(* The host: a BecoMainLoop, its stderr being its stdout *)

quiet == <<fixed, parent, files, twice, mpc, result, dpc, asked, got, dres>>

Put(item) == /\ Len(outq) < OutCap /\ Holders("out_rd") # {}
             /\ outq' = Append(outq, item)

\* BecoRead; it logs what it has read.
HostRead ==
    /\ host = "reading" /\ inq # <<>>
    /\ inq' = Tail(inq) /\ serving' = Head(inq)
    /\ host' = IF logTo = "stderr" THEN "logging" ELSE "handling"
    /\ UNCHANGED <<quiet, child, outq>>

\* BecoLog, in BecoRead and in BecoWrite.
HostLog ==
    /\ host \in {"logging", "tracing"} /\ Put(Text)
    /\ host' = IF host = "logging" THEN "handling" ELSE "replying"
    /\ UNCHANGED <<quiet, child, serving, inq>>

\* The handler sends a response, which BecoWrite logs first, or sends none.
HostSend ==
    /\ host = "handling"
    /\ host' = IF logTo = "stderr" THEN "tracing" ELSE "replying"
    /\ UNCHANGED <<quiet, child, serving, inq, outq>>

HostSilent ==
    /\ host = "handling"
    /\ host' = "reading"
    /\ UNCHANGED <<quiet, child, serving, inq, outq>>

\* Mutant: the handler answers a request again.
HostReplyTwice ==
    /\ host = "replying" /\ Put(serving)
    /\ host' \in {"reading", "replying"}
    /\ UNCHANGED <<quiet, child, serving, inq>>

HostReply ==
    /\ host = "replying" /\ Put(serving)
    /\ host' = "reading"
    /\ UNCHANGED <<quiet, child, serving, inq>>

Exit == host' = "exited" /\ child' = {} /\ UNCHANGED <<quiet, serving, inq, outq>>

AtEof == host = "reading" /\ inq = <<>> /\ Holders("in_wr") = {}

\* The end of its input ends a loop that was given exit_on_fail.
HostEof == AtEof /\ exitOnFail /\ Exit

\* Any other loop calls BecoNext for ever, which fails and logs nothing.
HostSpin ==
    /\ AtEof /\ ~ exitOnFail
    /\ host' = "spinning"
    /\ UNCHANGED <<quiet, child, serving, inq, outq>>

\* A write that nobody can read fails, and BecoNext drops the handler's error.
\* (It happens on Windows only; a POSIX host holds the reading end itself, and
\* is spared the SIGPIPE.)
HostWriteFails ==
    /\ host \in {"logging", "tracing", "replying"} /\ Holders("out_rd") = {}
    /\ host' = CASE host = "logging"  -> "handling"
                 [] host = "tracing"  -> "replying"
                 [] host = "replying" -> "reading"
    /\ UNCHANGED <<quiet, child, serving, inq, outq>>

\* A command closes it, a request nobody takes ends a loop with exit_on_fail, or
\* it crashes or is killed.
HostExit == host \in Running /\ Exit

-----------------------------------------------------------------------------
StartSteps == CreatePipe \/ CreateProcess \/ ConvertPosix \/ ConvertWindows \/ CreateDriver
DriverSteps == DriverWrite \/ DriverWriteFails \/ DriverRead \/ DriverEof
HostSteps == HostRead \/ HostLog \/ HostSend \/ HostSilent \/ HostReply \/ HostEof
             \/ HostSpin \/ HostWriteFails

Next == StartSteps \/ Finish \/ DriverAsk \/ DriverAwait \/ DriverSteps
        \/ HostSteps \/ HostExit

Spec == Init /\ [][Next]_vars

\* Calls in progress go on; nobody has to ask, to finish or to exit.
FairSpec == Spec /\ WF_vars(StartSteps) /\ WF_vars(DriverSteps) /\ WF_vars(HostSteps)

-----------------------------------------------------------------------------
(* Properties *)

\* What the parent is left with when BecoMockFinish follows a successful start:
\* on POSIX the host's two ends, which nothing closes, on Windows nothing
\* (mock.c:76-80, 156-159, 271-278).
Residue ==
    mpc = "finished" /\ files # {} =>
        parent = IF Windows THEN {} ELSE {"in_rd", "out_wr"}

\* No end is closed twice by the POSIX half, whichever step of the start fails.
\* The Windows half closes in_wr a second time when the FILE over it was opened
\* and the other was not, and no end twice otherwise: it is then left without an
\* end, and BecoMockFinish, whatever BecoMockStart has returned, closes nothing
\* more (mock.c:76-80, 110-131, 271-293).
ClosedOnce ==
    IF Windows THEN twice # {} => twice = {"in_wr"} /\ files = {} /\ parent = {}
               ELSE twice = {}

\* The driver's n-th read returns the answer to its n-th request: requests that
\* get no answer stop it, and none is answered twice, as long as the log goes
\* to a file (the conversation of test_mock.c through mock.c:280-288).  With the
\* default log, in the pipe of the replies, no read ever returns a reply: the
\* line BecoRead logs of a request comes before whatever answers it (mock.c:64).
InStep ==
    IF logTo = "file" THEN dpc # "astray" /\ \A n \in DOMAIN got : got[n] = n
                      ELSE got = <<>>

\* On Windows a call of the driver returns once the host has died, the host's
\* ends being closed with it, and after BecoMockFinish the host meets the end of
\* its input: with exit_on_fail it ends, without, as README.md:39 calls the loop,
\* it is left spinning (mock.c:76-80, 156-159, beco.c:208-210).
NobodyWaits ==
    /\ Windows /\ dpc \in Calls /\ host = "exited" ~> dpc \notin Calls
    /\ Windows /\ mpc = "finished" /\ files # {}
         ~> host = "exited" \/ (~ exitOnFail /\ host = "spinning")

=============================================================================
