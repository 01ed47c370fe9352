--------------------------- MODULE BecoMockProofs ---------------------------
(***************************************************************************)
(* Theorems about the mock framework: for every pipe capacity and every    *)
(* number of requests, its types, the ends it leaves open, and that the    *)
(* driver's n-th read is the answer to its n-th request.                   *)
(***************************************************************************)
EXTENDS BecoMock, TLAPS

Handed == IF Windows THEN {"in_wr", "out_rd"} ELSE Ends

\* The ends of the parent follow the start.
EndsInv ==
    /\ mpc \in {"new", "piped", "spawned", "failed"} => files = {}
    /\ mpc \in {"new", "piped", "spawned"} => twice = {}
    /\ mpc = "piped" => parent = Ends
    /\ mpc = "spawned" => parent = Handed
    /\ mpc \in {"converted", "started"} /\ files # {} => parent = Handed
    /\ Residue /\ ClosedOnce

\* The host runs from its spawning to its exit, and holds its two ends.
HostInv ==
    /\ mpc \in {"new", "piped"} => host = "none"
    /\ mpc \in {"spawned", "converted", "started"} => host # "none"
    /\ host \in Running => {"in_rd", "out_wr"} \subseteq child
    /\ dpc # "idle" => host # "none" /\ asked > 0

Busy == host \in {"handling", "replying"}
Gone == host = "exited" /\ outq = <<>>

\* One request is under way at most: it is in one of the two pipes or in the host.
Lockstep ==
    /\ dpc \in {"idle", "writing"} => inq = <<>> /\ outq = <<>> /\ ~ Busy
    /\ dpc = "idle" => Len(got) = asked
    /\ dpc = "writing" => Len(got) + 1 = asked
    /\ dpc \in {"written", "reading"} =>
         /\ Len(got) + 1 = asked
         /\ inq \in {<<>>, <<asked>>} /\ outq \in {<<>>, <<asked>>}
         /\ Busy => serving = asked
         /\ inq # <<>> => outq = <<>> /\ ~ Busy
         /\ outq # <<>> => ~ Busy

TalkInv ==
    logTo = "file" =>
        /\ dpc # "astray" /\ host \notin {"logging", "tracing"}
        /\ \A n \in DOMAIN got : got[n] = n
        /\ Gone \/ Lockstep

\* A host past its first log line: with its log in the pipe, that line lies
\* before what it is about to write, has led the driver astray, or met nobody.
Past == host \in {"handling", "tracing", "replying"}

NoiseInv ==
    logTo # "file" =>
        /\ got = <<>>
        /\ dpc # "astray" /\ outq # <<>> => Head(outq) = Text
        /\ Past /\ dpc # "astray" /\ outq = <<>> => Holders("out_rd") = {}

IInv == TypeOK /\ EndsInv /\ HostInv /\ TalkInv /\ NoiseInv

-----------------------------------------------------------------------------
LEMMA HeadTail ==
    ASSUME NEW S, NEW s \in Seq(S), s # <<>>
    PROVE  Head(s) \in S /\ Tail(s) \in Seq(S) /\ Len(Tail(s)) = Len(s) - 1
  OBVIOUS

LEMMA Appended ==
    ASSUME NEW S, NEW s \in Seq(S), NEW e \in S
    PROVE  /\ Append(s, e) \in Seq(S) /\ Len(Append(s, e)) = Len(s) + 1
           /\ Append(s, e)[Len(s) + 1] = e
           /\ \A i \in DOMAIN s : Append(s, e)[i] = s[i]
           /\ DOMAIN Append(s, e) = DOMAIN s \cup {Len(s) + 1}
  OBVIOUS

\* What the close sequences of mock.c do, by their length.
LEMMA CloseNone == CloseAll(<<>>) => parent' = parent /\ twice' = twice
  BY DEF CloseAll

LEMMA CloseOne ==
    ASSUME NEW e, CloseAll(<<e>>), e \in parent
    PROVE  parent' = parent \ {e} /\ twice' = twice
  BY DEF CloseAll

LEMMA CloseTwo ==
    ASSUME NEW e, NEW f, CloseAll(<<e, f>>), e \in parent, f \in parent, e # f
    PROVE  parent' = parent \ {e, f} /\ twice' = twice
<1>1. {<<e, f>>[i] : i \in DOMAIN <<e, f>>} = {e, f}
  OBVIOUS
<1>2. \A k \in DOMAIN <<e, f>> : ~ \E i \in 1..k - 1 : <<e, f>>[i] = <<e, f>>[k]
  OBVIOUS
<1>. QED
  BY <1>1, <1>2 DEF CloseAll

\* A descriptor closed by itself and once more with the FILE over it.
LEMMA CloseThree ==
    ASSUME NEW e, NEW f, CloseAll(<<e, f, e>>), parent = {e, f}, twice = {}, e # f
    PROVE  parent' = {} /\ twice' = {e}
<1>. DEFINE s == <<e, f, e>>
<1>1. DOMAIN s = {1, 2, 3} /\ s[1] = e /\ s[2] = f /\ s[3] = e
  OBVIOUS
<1>2. {s[i] : i \in DOMAIN s} = {e, f}
  BY <1>1
<1>3. {j \in DOMAIN s : \E i \in 1..j - 1 : s[i] = s[j]} = {3}
  <2>1. /\ ~ \E i \in 1..1 - 1 : s[i] = s[1]
        /\ ~ \E i \in 1..2 - 1 : s[i] = s[2]
        /\ 1 \in 1..3 - 1
    BY <1>1
  <2>. QED
    BY ONLY <1>1, <2>1
<1>. HIDE DEF s
<1>4. {s[j] : j \in {3}} = {e}
  BY <1>1
<1>. QED
  BY <1>2, <1>3, <1>4 DEF CloseAll, s

\* Only ends are closed twice.
LEMMA CloseTyped ==
    ASSUME NEW ends \in Seq(Ends), CloseAll(ends), parent \subseteq Ends, twice \subseteq Ends
    PROVE  parent' \subseteq Ends /\ twice' \subseteq Ends
<1>1. \A i \in DOMAIN ends : ends[i] \in Ends
  OBVIOUS
<1>. QED
  BY <1>1 DEF CloseAll

-----------------------------------------------------------------------------
LEMMA InitIInv == Init => IInv
<1>. SUFFICES ASSUME Init PROVE IInv
  OBVIOUS
<1>1. TypeOK
  BY CapAssumption DEF Init, TypeOK, Running
<1>2. EndsInv
  BY DEF Init, EndsInv, Residue, ClosedOnce
<1>3. HostInv
  BY DEF Init, HostInv, Running
<1>4. TalkInv
  BY DEF Init, TalkInv, Lockstep, Busy
<1>5. NoiseInv
  BY DEF Init, NoiseInv, Past
<1>. QED
  BY <1>1, <1>2, <1>3, <1>4, <1>5 DEF IInv

-----------------------------------------------------------------------------
(* Types *)

LEMMA TypeStep == IInv /\ [Next]_vars => TypeOK'
<1>. SUFFICES ASSUME IInv, [Next]_vars PROVE TypeOK'
  OBVIOUS
<1>. USE DEF TypeOK, Calls
<1>1. TypeOK
  BY DEF IInv
<1>2. CASE CreatePipe
  BY <1>1, <1>2 DEF CreatePipe, Fail, fixed, talk, Ends
<1>3. CASE CreateProcess
  BY <1>1, <1>3 DEF CreateProcess, Fail, fixed, talk, Ends, Running
<1>4. CASE ConvertPosix
  <2>1. parent' \subseteq Ends /\ twice' \subseteq Ends
    <3>1. CASE \E opened \in {<<>>, <<"in_wr">>} : CloseAll(opened)
      <4>1. <<>> \in Seq(Ends) /\ <<"in_wr">> \in Seq(Ends)
        BY DEF Ends
      <4>. QED
        BY <1>1, <3>1, <4>1, CloseTyped
    <3>. QED
      BY <1>1, <1>4, <3>1 DEF ConvertPosix
  <2>. QED
    BY <1>1, <1>4, <2>1 DEF ConvertPosix, Fail, fixed, talk, Ends
<1>5. CASE ConvertWindows
  <2>1. parent' \subseteq Ends /\ twice' \subseteq Ends
    <3>1. CASE \E opened \in {<<>>, <<"in_wr">>, <<"in_wr", "out_rd">>,
                              <<"in_wr", "out_rd", "in_wr">>} : CloseAll(opened)
      <4>1. /\ <<>> \in Seq(Ends) /\ <<"in_wr">> \in Seq(Ends)
            /\ <<"in_wr", "out_rd">> \in Seq(Ends)
            /\ <<"in_wr", "out_rd", "in_wr">> \in Seq(Ends)
        BY DEF Ends
      <4>. QED
        BY <1>1, <3>1, <4>1, CloseTyped
    <3>. QED
      BY <1>1, <1>5, <3>1 DEF ConvertWindows
  <2>. QED
    BY <1>1, <1>5, <2>1 DEF ConvertWindows, Fail, fixed, talk, Ends
<1>6. CASE CreateDriver
  BY <1>1, <1>6 DEF CreateDriver, fixed, holding, talk
<1>7. CASE Finish
  <2>1. parent' \subseteq Ends /\ twice' \subseteq Ends
    <3>1. <<"out_rd", "in_wr">> \in Seq(Ends)
      BY DEF Ends
    <3>. QED
      BY <1>1, <1>7, <3>1, CloseTyped DEF Finish
  <2>. QED
    BY <1>1, <1>7, <2>1 DEF Finish, fixed, talk
<1>8. CASE DriverAsk \/ DriverAwait
  BY <1>1, <1>8, CapAssumption DEF DriverAsk, DriverAwait, fixed, holding
<1>9. CASE DriverSteps
  <2>0. /\ platform' = platform /\ logTo' = logTo /\ exitOnFail' = exitOnFail
        /\ parent' = parent /\ child' = child
        /\ files' = files /\ twice' = twice /\ mpc' = mpc /\ result' = result
        /\ host' = host /\ serving' = serving
    BY <1>9 DEF DriverSteps, DriverWrite, DriverWriteFails, DriverRead, DriverEof,
                fixed, holding
  <2>1. CASE DriverWrite
    <3>1. asked \in 1..MaxRequests
      BY <1>1, <2>1, CapAssumption DEF IInv, HostInv, DriverWrite
    <3>. QED
      BY <1>1, <2>0, <2>1, <3>1, Appended, CapAssumption DEF DriverWrite
  <2>2. CASE DriverWriteFails
    BY <1>1, <2>0, <2>2 DEF DriverWriteFails
  <2>3. CASE DriverRead
    <3>1. Head(outq) \in 0..MaxRequests /\ outq' \in Seq(0..MaxRequests)
          /\ Len(outq') <= OutCap
      BY <1>1, <2>3, HeadTail, CapAssumption DEF DriverRead
    <3>2. got' \in Seq(1..MaxRequests)
      <4>1. CASE dpc = "reading" /\ Head(outq) # Text
        <5>1. Head(outq) \in 1..MaxRequests /\ got' = Append(got, Head(outq))
          BY <2>3, <3>1, <4>1, CapAssumption DEF DriverRead, Text
        <5>. QED
          BY <1>1, <5>1
      <4>. QED
        BY <1>1, <2>3, <4>1 DEF DriverRead
    <3>. QED
      BY <1>1, <2>0, <2>3, <3>1, <3>2 DEF DriverRead
  <2>4. CASE DriverEof
    BY <1>1, <2>0, <2>4 DEF DriverEof
  <2>. QED
    BY <1>9, <2>1, <2>2, <2>3, <2>4 DEF DriverSteps
<1>10. CASE HostSteps \/ HostExit
  <2>0. /\ platform' = platform /\ logTo' = logTo /\ exitOnFail' = exitOnFail
        /\ parent' = parent /\ files' = files /\ twice' = twice /\ mpc' = mpc /\ result' = result
        /\ dpc' = dpc /\ asked' = asked /\ got' = got /\ dres' = dres
    BY <1>10 DEF HostSteps, HostRead, HostLog, HostSend, HostSilent, HostReply, HostEof,
                 HostSpin, HostWriteFails, HostExit, Exit, quiet, fixed
  <2>1. CASE HostRead
    <3>1. Head(inq) \in 1..MaxRequests /\ inq' \in Seq(1..MaxRequests) /\ Len(inq') <= InCap
      BY <1>1, <2>1, HeadTail, CapAssumption DEF HostRead
    <3>2. serving' \in 0..MaxRequests
      BY <2>1, <3>1, CapAssumption DEF HostRead
    <3>. QED
      BY <1>1, <2>0, <2>1, <3>1, <3>2 DEF HostRead, Running
  <2>2. CASE HostLog
    <3>1. outq' \in Seq(0..MaxRequests) /\ Len(outq') <= OutCap
      BY <1>1, <2>2, Appended, CapAssumption DEF HostLog, Put, Text
    <3>. QED
      BY <1>1, <2>0, <2>2, <3>1 DEF HostLog, Running
  <2>3. CASE HostSend \/ HostSilent \/ HostSpin \/ HostWriteFails
    BY <1>1, <2>0, <2>3 DEF HostSend, HostSilent, HostSpin, HostWriteFails, Running
  <2>4. CASE HostReply
    <3>1. outq' \in Seq(0..MaxRequests) /\ Len(outq') <= OutCap
      BY <1>1, <2>4, Appended, CapAssumption DEF HostReply, Put
    <3>. QED
      BY <1>1, <2>0, <2>4, <3>1 DEF HostReply, Running
  <2>5. CASE Exit
    BY <1>1, <2>0, <2>5 DEF Exit
  <2>. QED
    BY <1>10, <2>1, <2>2, <2>3, <2>4, <2>5 DEF HostSteps, HostEof, HostExit
<1>11. CASE UNCHANGED vars
  BY <1>1, <1>11 DEF vars, fixed, holding, talk
<1>. QED
  BY <1>2, <1>3, <1>4, <1>5, <1>6, <1>7, <1>8, <1>9, <1>10, <1>11 DEF Next, StartSteps

-----------------------------------------------------------------------------
(* Ends *)

LEMMA EndsStep == IInv /\ [Next]_vars => EndsInv'
<1>. SUFFICES ASSUME IInv, [Next]_vars PROVE EndsInv'
  OBVIOUS
<1>. USE DEF EndsInv, Residue, ClosedOnce, Handed, Windows, Ends
<1>1. TypeOK /\ EndsInv
  BY DEF IInv
<1>2. CASE CreatePipe
  BY <1>1, <1>2 DEF CreatePipe, Fail, fixed
<1>3. CASE CreateProcess
  BY <1>1, <1>3 DEF CreateProcess, Fail, fixed
<1>4. CASE ConvertPosix
  <2>1. files' = files \/ (files' = {"in_wr", "out_rd"} /\ parent' = parent)
    BY <1>4 DEF ConvertPosix
  <2>2. platform' = platform /\ mpc' \in {"converted", "failed"} /\ mpc = "spawned"
    BY <1>4 DEF ConvertPosix, Fail, fixed
  <2>3. mpc' = "failed" => files' = files
    BY <1>4 DEF ConvertPosix, Fail
  <2>4. twice' = twice
    <3>1. CASE \E opened \in {<<>>, <<"in_wr">>} : CloseAll(opened)
      BY <1>1, <1>4, <3>1, CloseNone, CloseOne DEF ConvertPosix
    <3>. QED
      BY <1>4, <3>1 DEF ConvertPosix
  <2>. QED
    BY <1>1, <2>1, <2>2, <2>3, <2>4
<1>5. CASE ConvertWindows
  <2>1. platform = "windows" /\ platform' = platform /\ mpc = "spawned"
        /\ mpc' \in {"converted", "failed"}
    BY <1>5 DEF ConvertWindows, Fail, fixed
  <2>2. \/ files' = files
        \/ files' = {"in_wr", "out_rd"} /\ parent' = parent /\ mpc' = "converted"
    BY <1>5 DEF ConvertWindows
  <2>3. files = {} /\ twice = {} /\ parent = {"in_wr", "out_rd"}
    BY <1>1, <2>1
  <2>4. files' = {} => twice' = {} \/ (twice' = {"in_wr"} /\ parent' = {})
    <3>1. CASE CloseAll(<<>>) \/ CloseAll(<<"in_wr">>)
      BY <2>3, <3>1, CloseNone, CloseOne
    <3>2. CASE CloseAll(<<"in_wr", "out_rd">>)
      BY <2>3, <3>2, CloseTwo
    <3>3. CASE CloseAll(<<"in_wr", "out_rd", "in_wr">>)
      BY <2>3, <3>3, CloseThree
    <3>. QED
      BY <1>5, <2>3, <3>1, <3>2, <3>3 DEF ConvertWindows
  <2>5. files' # {} => twice' = {}
    BY <1>5, <2>3 DEF ConvertWindows
  <2>. QED
    BY <2>1, <2>2, <2>3, <2>4, <2>5
<1>6. CASE CreateDriver
  BY <1>1, <1>6 DEF CreateDriver, fixed, holding
<1>7. CASE Finish
  <2>1. platform' = platform /\ files' = files /\ mpc' = "finished"
        /\ mpc \in {"started", "failed"}
    BY <1>7 DEF Finish, fixed
  <2>2. CASE files = {}
    BY <1>1, <1>7, <2>1, <2>2 DEF Finish
  <2>3. CASE files # {}
    <3>1. mpc = "started" /\ parent = Handed
      BY <1>1, <2>1, <2>3
    <3>2. parent' = parent \ {"out_rd", "in_wr"} /\ twice' = twice
      BY <1>7, <2>3, <3>1, CloseTwo DEF Finish
    <3>3. Handed \ {"out_rd", "in_wr"} = IF Windows THEN {} ELSE {"in_rd", "out_wr"}
      OBVIOUS
    <3>. QED
      BY <1>1, <2>1, <3>1, <3>2, <3>3
  <2>. QED
    BY <2>2, <2>3
<1>8. CASE DriverAsk \/ DriverAwait \/ DriverSteps \/ HostSteps \/ HostExit \/ UNCHANGED vars
  <2>1. /\ platform' = platform /\ parent' = parent /\ files' = files
        /\ twice' = twice /\ mpc' = mpc
    BY <1>8 DEF DriverAsk, DriverAwait, DriverSteps, DriverWrite, DriverWriteFails, DriverRead, DriverEof,
                HostSteps, HostRead, HostLog, HostSend, HostSilent, HostReply, HostEof, HostSpin,
                AtEof, HostWriteFails, HostExit, Exit, quiet, vars, fixed, holding
  <2>. QED
    BY <1>1, <2>1
<1>. QED
  BY <1>2, <1>3, <1>4, <1>5, <1>6, <1>7, <1>8 DEF Next, StartSteps

-----------------------------------------------------------------------------
(* The host *)

LEMMA HostStep == IInv /\ [Next]_vars => HostInv'
<1>. SUFFICES ASSUME IInv, [Next]_vars PROVE HostInv'
  OBVIOUS
<1>. USE DEF HostInv, Running
<1>1. TypeOK /\ HostInv
  BY DEF IInv
<1>2. CASE CreatePipe \/ ConvertPosix \/ ConvertWindows \/ CreateDriver \/ Finish
  <2>1. host' = host /\ child' = child /\ dpc' = dpc /\ asked' = asked
    BY <1>2 DEF CreatePipe, ConvertPosix, ConvertWindows, CreateDriver, Finish, holding, talk
  <2>2. /\ mpc' \in {"new", "piped"} => mpc = "new"
        /\ mpc' \in {"spawned", "converted", "started"} => mpc \in {"spawned", "converted"}
    BY <1>2 DEF CreatePipe, ConvertPosix, ConvertWindows, CreateDriver, Finish, Fail
  <2>. QED
    BY <1>1, <2>1, <2>2
<1>3. CASE CreateProcess
  BY <1>1, <1>3 DEF CreateProcess, Fail, talk, Ends
<1>4. CASE DriverAsk \/ DriverAwait
  BY <1>1, <1>4, CapAssumption DEF DriverAsk, DriverAwait, TypeOK, holding
<1>5. CASE DriverSteps
  BY <1>1, <1>5 DEF DriverSteps, DriverWrite, DriverWriteFails, DriverRead, DriverEof, holding
<1>6. CASE HostSteps \/ HostExit
  BY <1>1, <1>6 DEF HostSteps, HostRead, HostLog, HostSend, HostSilent, HostReply, HostEof,
                    HostSpin, AtEof, HostWriteFails, HostExit, Exit, quiet
<1>7. CASE UNCHANGED vars
  BY <1>1, <1>7 DEF vars, holding, talk
<1>. QED
  BY <1>2, <1>3, <1>4, <1>5, <1>6, <1>7 DEF Next, StartSteps

-----------------------------------------------------------------------------
(* The conversation *)

\* Who waits for a stream without holders on the host's side waits for one that has gone.
LEMMA NoHolders ==
    ASSUME HostInv, TypeOK, dpc # "idle",
           Holders("in_rd") = {} \/ Holders("out_wr") = {}
    PROVE  host = "exited"
<1>1. "in_rd" \notin child \/ "out_wr" \notin child
  BY DEF Holders
<1>. QED
  BY <1>1 DEF HostInv, TypeOK

LEMMA TalkStep == IInv /\ [Next]_vars => TalkInv'
<1>. SUFFICES ASSUME IInv, [Next]_vars, logTo' = "file" PROVE TalkInv'
  BY DEF TalkInv
<1>1. TypeOK /\ HostInv
  BY DEF IInv
<1>2. logTo = "file"
  BY DEF Next, StartSteps, CreatePipe, CreateProcess, ConvertPosix, ConvertWindows,
         CreateDriver, Finish, DriverAsk, DriverAwait, DriverSteps, DriverWrite, DriverWriteFails,
         DriverRead, DriverEof, HostSteps, HostRead, HostLog, HostSend, HostSilent,
         HostReply, HostEof, HostSpin, HostWriteFails, HostExit, Exit, quiet, vars, fixed
<1>3. /\ dpc # "astray" /\ host \notin {"logging", "tracing"}
      /\ \A n \in DOMAIN got : got[n] = n
      /\ Gone \/ Lockstep
  BY <1>2 DEF IInv, TalkInv
<1>4. CASE CreatePipe \/ ConvertPosix \/ ConvertWindows \/ CreateDriver \/ Finish
           \/ UNCHANGED vars
  <2>1. /\ host' = host /\ serving' = serving /\ inq' = inq /\ outq' = outq
        /\ dpc' = dpc /\ asked' = asked /\ got' = got
    BY <1>4 DEF CreatePipe, ConvertPosix, ConvertWindows, CreateDriver, Finish, vars,
                holding, talk
  <2>. QED
    BY <1>3, <2>1 DEF TalkInv, Gone, Lockstep, Busy
<1>5. CASE CreateProcess
  <2>1. /\ host = "none" /\ host' \in {"none", "reading"} /\ serving' = serving
        /\ inq' = inq /\ outq' = outq /\ dpc' = dpc /\ asked' = asked /\ got' = got
    BY <1>1, <1>5 DEF CreateProcess, HostInv, talk
  <2>. QED
    BY <1>3, <2>1 DEF TalkInv, Gone, Lockstep, Busy
<1>6. CASE DriverAsk \/ DriverAwait
  BY <1>1, <1>3, <1>6 DEF DriverAsk, DriverAwait, TypeOK, Calls, TalkInv, Gone, Lockstep, Busy
<1>7. CASE DriverWrite
  <2>1. Lockstep => inq' = <<asked>>
    BY <1>7 DEF DriverWrite, Lockstep
  <2>. QED
    BY <1>1, <1>3, <1>7, <2>1 DEF DriverWrite, TypeOK, TalkInv, Gone, Lockstep, Busy
<1>8. CASE DriverWriteFails
  <2>1. host = "exited"
    BY <1>1, <1>8, NoHolders DEF DriverWriteFails
  <2>2. outq = <<>>
    BY <1>3, <1>8 DEF DriverWriteFails, Gone, Lockstep
  <2>. QED
    BY <1>3, <1>8, <2>1, <2>2 DEF DriverWriteFails, TalkInv, Gone
<1>9. CASE DriverRead
  <2>1. dpc = "reading" /\ outq # <<>> /\ Lockstep
    BY <1>3, <1>9 DEF DriverRead, Gone
  <2>2. /\ outq = <<asked>> /\ Len(got) + 1 = asked /\ inq = <<>> /\ ~ Busy
    BY <2>1 DEF Lockstep
  <2>3. /\ asked # Text /\ outq' = <<>> /\ got' = Append(got, asked) /\ dpc' = "idle"
        /\ inq' = inq /\ asked' = asked /\ host' = host
    BY <1>1, <1>9, <2>1, <2>2 DEF DriverRead, HostInv, Text
  <2>4. /\ Len(got') = asked /\ \A n \in DOMAIN got' : got'[n] = n
    <3>1. asked \in 1..MaxRequests /\ got \in Seq(1..MaxRequests)
      BY <1>1, <2>1, CapAssumption DEF TypeOK, HostInv
    <3>. QED
      BY <1>3, <2>2, <2>3, <3>1, Appended
  <2>. QED
    BY <1>3, <2>2, <2>3, <2>4 DEF TalkInv, Lockstep, Busy
<1>10. CASE DriverEof
  <2>1. host = "exited"
    BY <1>1, <1>3, <1>10, NoHolders DEF DriverEof
  <2>. QED
    BY <1>3, <1>10, <2>1 DEF DriverEof, TalkInv, Gone
<1>11. CASE HostRead
  <2>1. Lockstep /\ host = "reading" /\ inq # <<>>
    BY <1>3, <1>11 DEF HostRead, Gone
  <2>2. dpc \in {"written", "reading"} /\ inq = <<asked>> /\ outq = <<>>
    BY <1>1, <1>3, <2>1 DEF Lockstep, TypeOK, Calls
  <2>3. inq' = <<>> /\ serving' = asked /\ host' = "handling" /\ outq' = <<>>
    BY <1>2, <1>11, <2>2 DEF HostRead
  <2>. QED
    BY <1>3, <1>11, <2>1, <2>2, <2>3 DEF HostRead, quiet, TalkInv, Lockstep, Busy
<1>12. CASE HostLog
  BY <1>3, <1>12 DEF HostLog
<1>13. CASE HostSend \/ HostSilent \/ HostWriteFails
  <2>1. Lockstep /\ Busy
    BY <1>3, <1>13 DEF HostSend, HostSilent, HostWriteFails, Gone, Busy
  <2>. QED
    BY <1>2, <1>3, <1>13, <2>1 DEF HostSend, HostSilent, HostWriteFails, quiet, TalkInv,
                                   Lockstep, Busy
<1>14. CASE HostReply
  <2>1. Lockstep /\ Busy
    BY <1>3, <1>14 DEF HostReply, Gone, Busy
  <2>2. dpc \in {"written", "reading"} /\ serving = asked /\ outq = <<>> /\ inq = <<>>
    BY <1>1, <1>3, <2>1 DEF Lockstep, TypeOK, Calls
  <2>3. outq' = <<asked>> /\ inq' = <<>> /\ host' = "reading"
    BY <1>14, <2>2 DEF HostReply, Put
  <2>. QED
    BY <1>3, <1>14, <2>1, <2>2, <2>3 DEF HostReply, quiet, TalkInv, Lockstep, Busy
<1>15. CASE HostEof \/ HostExit
  <2>1. /\ host' = "exited" /\ serving' = serving /\ inq' = inq /\ outq' = outq
        /\ dpc' = dpc /\ asked' = asked /\ got' = got
    BY <1>15 DEF HostEof, HostExit, Exit, quiet
  <2>. QED
    BY <1>3, <2>1 DEF TalkInv, Gone, Lockstep, Busy
<1>16. CASE HostSpin
  <2>1. /\ host = "reading" /\ host' = "spinning" /\ serving' = serving /\ inq' = inq
        /\ outq' = outq /\ dpc' = dpc /\ asked' = asked /\ got' = got
    BY <1>16 DEF HostSpin, AtEof, quiet
  <2>. QED
    BY <1>3, <2>1 DEF TalkInv, Gone, Lockstep, Busy
<1>. QED
  BY <1>4, <1>5, <1>6, <1>7, <1>8, <1>9, <1>10, <1>11, <1>12, <1>13, <1>14, <1>15, <1>16
     DEF Next, StartSteps, DriverSteps, HostSteps

-----------------------------------------------------------------------------
(* The conversation with the log in it *)

LEMMA NoiseStep == IInv /\ [Next]_vars => NoiseInv'
<1>. SUFFICES ASSUME IInv, [Next]_vars, logTo' # "file" PROVE NoiseInv'
  BY DEF NoiseInv
<1>1. TypeOK /\ HostInv
  BY DEF IInv
<1>2. logTo # "file"
  BY DEF Next, StartSteps, CreatePipe, CreateProcess, ConvertPosix, ConvertWindows,
         CreateDriver, Finish, DriverAsk, DriverAwait, DriverSteps, DriverWrite, DriverWriteFails,
         DriverRead, DriverEof, HostSteps, HostRead, HostLog, HostSend, HostSilent,
         HostReply, HostEof, HostSpin, HostWriteFails, HostExit, Exit, quiet, vars, fixed
<1>3. /\ got = <<>>
      /\ dpc # "astray" /\ outq # <<>> => Head(outq) = Text
      /\ Past /\ dpc # "astray" /\ outq = <<>> => Holders("out_rd") = {}
  BY <1>2 DEF IInv, NoiseInv
<1>a. logTo = "stderr"
  BY <1>1, <1>2, LogAssumption DEF TypeOK
<1>4. CASE StartSteps \/ Finish \/ UNCHANGED vars
  <2>1. outq' = outq /\ dpc' = dpc /\ got' = got
    BY <1>4 DEF StartSteps, CreatePipe, CreateProcess, ConvertPosix, ConvertWindows,
                CreateDriver, Finish, vars, talk
  <2>2. ASSUME Past' PROVE Past /\ Holders("out_rd")' \subseteq Holders("out_rd")
    <3>1. CASE CreatePipe \/ CreateProcess
      BY <1>1, <2>2, <3>1 DEF CreatePipe, CreateProcess, HostInv, Past
    <3>2. CASE ConvertPosix \/ ConvertWindows \/ CreateDriver \/ Finish \/ UNCHANGED vars
      <4>1. host' = host /\ child' = child /\ parent' \subseteq parent
        BY <3>2 DEF ConvertPosix, ConvertWindows, CreateDriver, Finish, CloseAll, vars, holding
      <4>. QED
        BY <2>2, <4>1 DEF Past, Holders
    <3>. QED
      BY <1>4, <3>1, <3>2 DEF StartSteps
  <2>. QED
    BY <1>3, <2>1, <2>2 DEF NoiseInv
<1>5. CASE DriverAsk \/ DriverAwait \/ DriverWrite \/ DriverWriteFails
  <2>1. /\ outq' = outq /\ got' = got /\ host' = host /\ dpc # "astray"
        /\ parent' = parent /\ child' = child
    BY <1>5 DEF DriverAsk, DriverAwait, DriverWrite, DriverWriteFails, holding
  <2>. QED
    BY <1>3, <2>1 DEF NoiseInv, Past, Holders
<1>6. CASE DriverRead
  BY <1>3, <1>6 DEF DriverRead, NoiseInv
<1>7. CASE DriverEof
  <2>1. host = "exited"
    BY <1>1, <1>7, NoHolders DEF DriverEof
  <2>. QED
    BY <1>3, <1>7, <2>1 DEF DriverEof, NoiseInv, Past, holding
<1>8. CASE HostRead
  BY <1>a, <1>3, <1>8 DEF HostRead, NoiseInv, Past, quiet
<1>9. CASE HostLog \/ HostReply
  <2>1. /\ host \in {"logging", "tracing", "replying"} /\ Holders("out_rd") # {}
        /\ got' = got /\ dpc' = dpc
        /\ (HostLog /\ outq' = Append(outq, Text)) \/ (Past /\ outq' = Append(outq, serving))
    BY <1>9 DEF HostLog, HostReply, Put, quiet, Past
  <2>2. outq \in Seq(0..MaxRequests) /\ serving \in 0..MaxRequests /\ Text \in 0..MaxRequests
    BY <1>1, CapAssumption DEF TypeOK, Text
  <2>3. outq' # <<>>
    BY <2>1, <2>2, Appended
  <2>4. ASSUME dpc # "astray" PROVE Head(outq') = Text
    <3>1. CASE outq = <<>>
      <4>1. outq' = Append(outq, Text)
        BY <1>3, <2>1, <2>4, <3>1
      <4>. QED
        BY <3>1, <4>1
    <3>2. CASE outq # <<>>
      <4>1. Head(outq) = Text
        BY <1>3, <2>4, <3>2
      <4>2. PICK e \in 0..MaxRequests : outq' = Append(outq, e)
        BY <2>1, <2>2
      <4>3. Head(Append(outq, e)) = Head(outq)
        BY <2>2, <3>2
      <4>. QED
        BY <4>1, <4>2, <4>3
    <3>. QED
      BY <3>1, <3>2
  <2>. QED
    BY <1>3, <2>1, <2>3, <2>4 DEF NoiseInv
<1>10. CASE HostSend \/ HostSilent
  <2>1. /\ Past /\ got' = got /\ dpc' = dpc /\ outq' = outq /\ parent' = parent
        /\ child' = child
    BY <1>10 DEF HostSend, HostSilent, quiet, Past
  <2>. QED
    BY <1>3, <2>1 DEF NoiseInv, Holders
<1>11. CASE HostWriteFails
  BY <1>3, <1>11 DEF HostWriteFails, quiet, NoiseInv, Holders
<1>12. CASE HostEof \/ HostExit \/ HostSpin
  <2>1. got' = got /\ dpc' = dpc /\ outq' = outq /\ host' \in {"exited", "spinning"}
    BY <1>12 DEF HostEof, HostExit, HostSpin, Exit, quiet
  <2>. QED
    BY <1>3, <2>1 DEF NoiseInv, Past
<1>. QED
  BY <1>4, <1>5, <1>6, <1>7, <1>8, <1>9, <1>10, <1>11, <1>12
     DEF Next, DriverSteps, HostSteps

-----------------------------------------------------------------------------
(* Theorems *)

\* IInv is inductive: ends, host and conversation together, whatever the log.
THEOREM InductiveInvariant == Spec => []IInv
<1>1. IInv /\ [Next]_vars => IInv'
  BY TypeStep, EndsStep, HostStep, TalkStep, NoiseStep DEF IInv
<1>. QED
  BY InitIInv, <1>1, PTL DEF Spec

\* Every variable keeps its type, and no pipe holds more than it can.
THEOREM TypeCorrect == Spec => []TypeOK
<1>1. IInv => TypeOK
  BY DEF IInv
<1>. QED
  BY InductiveInvariant, <1>1, PTL

\* After BecoMockFinish the POSIX parent is left with the host's two ends, the
\* Windows parent with none (mock.c:76-80, 156-170, 271-278).
THEOREM ResidueIsExact == Spec => []Residue
<1>1. IInv => Residue
  BY DEF IInv, EndsInv
<1>. QED
  BY InductiveInvariant, <1>1, PTL

\* The POSIX half closes no end twice, however its start goes, the Windows half
\* in_wr alone and only where it is left without any end (mock.c:110-131, 290-293).
THEOREM NoDoubleClose == Spec => []ClosedOnce
<1>1. IInv => ClosedOnce
  BY DEF IInv, EndsInv
<1>. QED
  BY InductiveInvariant, <1>1, PTL

\* Whatever the capacity of the pipes and whenever the host dies, the n-th reply
\* the driver reads answers its n-th request when the log is in a file, and it
\* reads no reply at all when the log is in the pipe (mock.c:64, 280-288).
THEOREM Conversation == Spec => []InStep
<1>1. IInv => InStep
  BY DEF IInv, TalkInv, NoiseInv, InStep
<1>. QED
  BY InductiveInvariant, <1>1, PTL

=============================================================================
