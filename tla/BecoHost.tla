------------------------------ MODULE BecoHost ------------------------------
(***************************************************************************)
(* A host: the handlers of a BecoContext (beco.c:170-202 and 398-432),     *)
(* BecoMainLoop and BecoNext (beco.c:204-246), and the browser or driver   *)
(* at the other end of its input and output.                               *)
(*                                                                         *)
(* A frame is what one successful BecoReadRaw yields, reduced to what      *)
(* BecoRead makes of it: BadJson, or the value of "command", NoCmd when    *)
(* the field is missing or is not a string.  A handler entry is an index   *)
(* of made, the history of all the calls of CreateHandler; live says which *)
(* of them are allocated.                                                  *)
(***************************************************************************)
EXTENDS Integers, Sequences, FiniteSets

CONSTANTS Cmds,        \* command names
          NoCmd,       \* req.cmd = NULL
          BadJson,     \* a frame yyjson_read rejects
          Funs,        \* the application's handler functions
          NullFun,     \* handler = NULL
          Unset,       \* what a missing handler shows as in the table's abstraction
          InCap,       \* frames that fit between the peer and the host
          OutCap,      \* frames that fit between the host and the peer
          MaxFrames,   \* bound of the model: frames the peer writes
          MaxEntries,  \* bound of the model: calls of CreateHandler
          MaxTable,    \* bound of the model: entries in the table at a time
          MaxSends     \* bound of the model: responses a handler sends

ASSUME NameAssumption ==
    /\ NoCmd \notin Cmds /\ BadJson \notin Cmds \cup {NoCmd}
    /\ NullFun \notin Funs /\ Unset \notin Funs \cup {NullFun}
ASSUME CapAssumption == InCap \in Nat \ {0} /\ OutCap \in Nat \ {0}
ASSUME BoundAssumption == MaxFrames \in Nat /\ MaxEntries \in Nat /\ MaxSends \in Nat

\* Fewer than the ten entries of one bucket at which uthash expands a table and
\* turns its chains around (uthash.h:132, 778-780, 869; UtHash!FindsNewest).
ASSUME TableAssumption == MaxTable \in 0..9

VARIABLES inbox, outbox,     \* frames under way; a response is the number of its request
          closed,            \* the peer has gone
          made, live,        \* handler entries: contents, and those not freed
          table,             \* the entries in ctx->handler_entries
          nullH, defaultH,   \* ctx->null_cmd_handler, default_cmd_handler, or 0
          lost,              \* history: entries no pointer leads to any more
          pc,
          exit, exitOnFail,  \* the arguments of BecoMainLoop, *exit and exit_on_fail
          cmd,               \* the request's command
          running,           \* the entry being invoked
          err,               \* what the last BecoNext returned
          hret,              \* what the last handler returned
          ret,               \* what the last BecoMainLoop returned
          nread, nsent,      \* history: frames read; responses of this handler
          given,             \* history: requests dispatched
          slack, late        \* history: see LateBound

peer    == <<inbox, outbox, closed>>
entries == <<made, live, table, nullH, defaultH, lost>>
flow    == <<cmd, running, err, hret, ret>>
count   == <<nread, nsent, given, slack, late>>
vars    == <<peer, entries, pc, exit, exitOnFail, flow, count>>

-----------------------------------------------------------------------------
Frames == Cmds \cup {NoCmd, BadJson}
Looping == {"top", "reading", "dispatch", "handling", "sending", "check"}
InLoop == pc \in Looping

TypeOK ==
    /\ inbox \in Seq(Frames) /\ Len(inbox) <= InCap
    /\ outbox \in Seq(1..nread) /\ Len(outbox) <= OutCap
    /\ closed \in BOOLEAN
    /\ made \in Seq([cmd : Cmds \cup {NoCmd}, fun : Funs \cup {NullFun}])
    /\ Len(made) <= MaxEntries
    /\ live \subseteq 1..Len(made) /\ lost \subseteq 1..Len(made)
    /\ table \subseteq 1..Len(made)
    /\ nullH \in 0..Len(made) /\ defaultH \in 0..Len(made)
    /\ pc \in Looping \cup {"app", "destroyed", "killed"}
    /\ exit \in BOOLEAN /\ exitOnFail \in BOOLEAN
    /\ cmd \in Cmds \cup {NoCmd} /\ running \in 0..Len(made)
    /\ err \in {"OK", "IO", "INVALID_JSON", "NO_IMPL"}
    /\ hret \in {"OK", "ERR"} /\ ret \in {"none", "OK"}
    /\ nread \in 0..MaxFrames /\ given \in 0..nread /\ nsent \in 0..MaxSends
    /\ slack \in {0, 1} /\ late \in Nat

Init ==
    /\ inbox = <<>> /\ outbox = <<>> /\ closed = FALSE
    /\ made = <<>> /\ live = {} /\ table = {} /\ nullH = 0 /\ defaultH = 0
    /\ lost = {}
    /\ pc = "app" /\ exit = FALSE /\ exitOnFail = FALSE
    /\ cmd = NoCmd /\ running = 0
    /\ err = "OK" /\ hret = "OK" /\ ret = "none"
    /\ nread = 0 /\ nsent = 0 /\ given = 0 /\ slack = 0 /\ late = 0

-----------------------------------------------------------------------------
(* Handlers: the application calls these before and after the loop, and    *)
(* its handlers call them from inside it.                                  *)

Calling == pc \in {"app", "handling"}
calls   == <<peer, pc, exit, exitOnFail, flow, count>>

CreateHandler(c, f) ==
    /\ Len(made) < MaxEntries
    /\ made' = Append(made, [cmd |-> c, fun |-> f])

RegisterCommand(c, f) ==
    /\ Calling /\ Cardinality(table) < MaxTable
    /\ CreateHandler(c, f)
    /\ live' = live \cup {Len(made')} /\ table' = table \cup {Len(made')}
    /\ UNCHANGED <<nullH, defaultH, lost, calls>>

Registered(c) == {i \in table : made[i].cmd = c}

\* Mutant: a bucket searched from the wrong end.
FindOldest(c) ==
    IF Registered(c) = {} THEN 0
    ELSE CHOOSE i \in Registered(c) : \A j \in Registered(c) : i <= j

\* HASH_FIND_STR returns the entry added last among those of the same key, in a
\* table that was never expanded (TableAssumption).
Find(c) ==
    IF Registered(c) = {} THEN 0
    ELSE CHOOSE i \in Registered(c) : \A j \in Registered(c) : j <= i

\* Mutant: an entry freed but left in the table.
RemoveCommandLinked(c) ==
    /\ Calling /\ Find(c) # 0
    /\ table' = table /\ live' = live \ {Find(c)}
    /\ UNCHANGED <<made, nullH, defaultH, lost, calls>>

RemoveCommand(c) ==
    /\ Calling /\ Find(c) # 0
    /\ table' = table \ {Find(c)} /\ live' = live \ {Find(c)}
    /\ UNCHANGED <<made, nullH, defaultH, lost, calls>>

\* The pointer is overwritten; the entry it led to stays allocated.
SetNullCmdHandler(f) ==
    /\ Calling
    /\ CreateHandler(NoCmd, f)
    /\ live' = live \cup {Len(made')} /\ nullH' = Len(made')
    /\ lost' = lost \cup ({nullH} \ {0})
    /\ UNCHANGED <<table, defaultH, calls>>

SetDefaultCmdHandler(f) ==
    /\ Calling
    /\ CreateHandler(NoCmd, f)
    /\ live' = live \cup {Len(made')} /\ defaultH' = Len(made')
    /\ lost' = lost \cup ({defaultH} \ {0})
    /\ UNCHANGED <<table, nullH, calls>>

\* BecoContextDestroy: both FILEs are closed, every entry is freed.  The table is
\* empty once its last entry is unlinked; the two pointers stay as they are.
ContextDestroy ==
    /\ pc = "app"
    /\ live' = live \ (table \cup {nullH, defaultH})
    /\ table' = {}
    /\ pc' = "destroyed"
    /\ UNCHANGED <<made, nullH, defaultH, lost, peer, exit, exitOnFail, flow, count>>

-----------------------------------------------------------------------------
(* BecoMainLoop and BecoNext *)

StartLoop ==
    /\ pc = "app"
    /\ pc' = "top" /\ err' = "OK" /\ ret' = "none" /\ exitOnFail' \in BOOLEAN
    /\ hret' = "OK"
    /\ UNCHANGED <<peer, entries, exit, cmd, running, count>>

\* Mutant: the test of *exit hoisted out of the loop.
LoopTopHoisted ==
    /\ pc = "top"
    /\ pc' = "reading"
    /\ UNCHANGED <<peer, entries, exit, exitOnFail, flow, count>>

\* Mutant: *exit looked at only when there is nothing to read.
LoopTopBusy ==
    /\ pc = "top"
    /\ IF exit /\ inbox = <<>> THEN pc' = "app" /\ ret' = "OK"
                               ELSE pc' = "reading" /\ ret' = ret
    /\ UNCHANGED <<peer, entries, exit, exitOnFail, cmd, running, err, hret,
                   count>>

LoopTop ==
    /\ pc = "top"
    /\ IF exit THEN pc' = "app" /\ ret' = "OK"
               ELSE pc' = "reading" /\ ret' = ret
    /\ UNCHANGED <<peer, entries, exit, exitOnFail, cmd, running, err, hret,
                   count>>

\* BecoRead returns a request; without a frame in the pipe it blocks.
ReadRequest ==
    /\ pc = "reading" /\ inbox # <<>>
    /\ inbox' = Tail(inbox) /\ nread' = nread + 1
    /\ IF Head(inbox) = BadJson
       THEN pc' = "check" /\ err' = "INVALID_JSON" /\ cmd' = cmd
       ELSE pc' = "dispatch" /\ err' = "OK" /\ cmd' = Head(inbox)
    /\ UNCHANGED <<outbox, closed, entries, exit, exitOnFail, running, hret, ret,
                   nsent, given, slack, late>>

\* Mutant: the end of the input taken for a request that needs no answer.
ReadFailsSilently ==
    /\ pc = "reading" /\ inbox = <<>> /\ closed
    /\ pc' = "check" /\ err' = "OK"
    /\ UNCHANGED <<peer, entries, exit, exitOnFail, cmd, running, hret, ret,
                   count>>

\* BecoRead meets the end of the input, now and at every later call.
ReadFails ==
    /\ pc = "reading" /\ inbox = <<>> /\ closed
    /\ pc' = "check" /\ err' = "IO"
    /\ UNCHANGED <<peer, entries, exit, exitOnFail, cmd, running, hret, ret,
                   count>>

\* The entry BecoNext invokes, 0 for BECO_ERR_NO_IMPL.
Target ==
    CASE cmd = NoCmd /\ nullH # 0      -> nullH
      [] cmd # NoCmd /\ Find(cmd) # 0  -> Find(cmd)
      [] OTHER                         -> defaultH

\* InvokeHandler calls the entry's function, unless it is NULL.
Dispatch ==
    /\ pc = "dispatch"
    /\ running' = Target
    /\ late' = IF exit THEN late + 1 ELSE late
    /\ nsent' = 0 /\ given' = given + 1
    /\ \/ /\ Target = 0
          /\ pc' = "check" /\ err' = "NO_IMPL" /\ cmd' = NoCmd
       \/ /\ Target # 0 /\ made[Target].fun = NullFun
          /\ pc' = "check" /\ err' = "OK" /\ cmd' = NoCmd
       \/ /\ Target # 0 /\ made[Target].fun # NullFun
          /\ pc' = "handling" /\ err' = "OK" /\ cmd' = cmd
    /\ UNCHANGED <<peer, entries, exit, exitOnFail, hret, ret, nread, slack>>

\* The handler calls BecoSendResponse with an object that can be written.
SendResponse ==
    /\ pc = "handling" /\ nsent < MaxSends
    /\ pc' = "sending" /\ nsent' = nsent + 1
    /\ UNCHANGED <<peer, entries, exit, exitOnFail, flow, nread, given, slack, late>>

\* Mutant: a write that wants more room than it needs.
SentRoomy ==
    /\ pc = "sending" /\ Len(outbox) < OutCap - 1 /\ ~ closed
    /\ outbox' = Append(outbox, nread)
    /\ pc' = "handling"
    /\ UNCHANGED <<inbox, closed, entries, exit, exitOnFail, flow, count>>

\* The response is flushed; on a full pipe the write blocks.
Sent ==
    /\ pc = "sending" /\ Len(outbox) < OutCap /\ ~ closed
    /\ outbox' = Append(outbox, nread)
    /\ pc' = "handling"
    /\ UNCHANGED <<inbox, closed, entries, exit, exitOnFail, flow, count>>

\* A write to a peer that has gone raises SIGPIPE, which nothing handles.
Killed ==
    /\ pc = "sending" /\ closed
    /\ pc' = "killed"
    /\ UNCHANGED <<peer, entries, exit, exitOnFail, flow, count>>

\* The handler's result is dropped: BecoNext returns OK.
HandlerReturn ==
    /\ pc = "handling"
    /\ pc' = "check" /\ cmd' = NoCmd /\ hret' \in {"OK", "ERR"}
    /\ UNCHANGED <<peer, entries, exit, exitOnFail, running, err, ret,
                   count>>

LoopCheck ==
    /\ pc = "check"
    /\ IF err # "OK" /\ exitOnFail THEN pc' = "app" /\ ret' = "OK"
                                   ELSE pc' = "top" /\ ret' = ret
    /\ UNCHANGED <<peer, entries, exit, exitOnFail, cmd, running, err, hret,
                   count>>

-----------------------------------------------------------------------------
(* The environment *)

\* A signal handler, or a handler of the application, writes *exit.
SetExit ==
    /\ pc \in Looping \cup {"app"} /\ ~ exit
    /\ exit' = TRUE
    /\ slack' = IF pc \in {"reading", "dispatch"} THEN 1 ELSE 0
    /\ UNCHANGED <<peer, entries, pc, exitOnFail, flow, nread, nsent, given, late>>

PeerSend(f) ==
    /\ ~ closed /\ Len(inbox) < InCap /\ nread + Len(inbox) < MaxFrames
    /\ inbox' = Append(inbox, f)
    /\ UNCHANGED <<outbox, closed, entries, pc, exit, exitOnFail, flow,
                   count>>

PeerReceive ==
    /\ ~ closed /\ outbox # <<>>
    /\ outbox' = Tail(outbox)
    /\ UNCHANGED <<inbox, closed, entries, pc, exit, exitOnFail, flow,
                   count>>

PeerClose ==
    /\ ~ closed /\ closed' = TRUE
    /\ UNCHANGED <<inbox, outbox, entries, pc, exit, exitOnFail, flow,
                   count>>

-----------------------------------------------------------------------------
Api ==
    \/ \E c \in Cmds : RemoveCommand(c) \/ \E f \in Funs : RegisterCommand(c, f)
    \/ \E f \in Funs \cup {NullFun} : SetNullCmdHandler(f) \/ SetDefaultCmdHandler(f)

LoopSteps ==
    \/ LoopTop \/ ReadRequest \/ ReadFails \/ Dispatch
    \/ Sent \/ Killed \/ HandlerReturn \/ LoopCheck

Environment == \/ SetExit \/ PeerReceive \/ PeerClose
               \/ \E f \in Frames : PeerSend(f)

Next == Api \/ ContextDestroy \/ StartLoop \/ LoopSteps \/ SendResponse \/ Environment

Spec == Init /\ [][Next]_vars

\* The host's thread runs, its handlers return, and the peer reads what it is
\* sent; nobody has to send, to signal or to close.
FairSpec == Spec /\ WF_vars(LoopSteps) /\ WF_vars(PeerReceive)

-----------------------------------------------------------------------------
(* Properties *)

\* What the context leads to: nothing of it is left once it is destroyed, though
\* null_cmd_handler and default_cmd_handler still hold the freed addresses.
Led == IF pc = "destroyed" THEN {} ELSE table \cup ({nullH, defaultH} \ {0})

\* In a context in use no pointer leads to freed memory, whatever the application
\* and its handlers register and remove, and nothing else stays allocated than
\* what SetNull and SetDefault have overwritten; when it is destroyed everything
\* is freed, once, but that (beco.c:170-202, 398-423).
HeapExact ==
    /\ live = Led \cup lost
    /\ lost \cap (table \cup {nullH, defaultH}) = {}
    /\ table \cap {nullH, defaultH} = {} /\ (nullH = defaultH => nullH = 0)

\* Once *exit is true at most one more request is answered, and only if the
\* loop was already past its test (the while of beco.c:208 sees nothing while
\* BecoNext blocks in fread).
LateBound == late <= slack

\* The k-th of a set of numbers.
Rank(S, i) == Cardinality({j \in S : j < i})
Nth(S, k)  == CHOOSE i \in S : Rank(S, i) = k - 1

\* The functions bound to c, newest last.
Stack(c) ==
    [k \in 1..Cardinality(Registered(c)) |-> made[Nth(Registered(c), k)].fun]

FunOf(h) == IF h = 0 THEN Unset ELSE made[h].fun

\* The function a pointer of the context stands for: in a destroyed one, none.
PointerFun(h) == IF pc = "destroyed" THEN Unset ELSE FunOf(h)

\* The hash table and the two pointers are a command table: a duplicate
\* registration covers the older one and a removal uncovers it, a request
\* without a command goes to the null handler, and one nobody takes to the
\* default (beco.c:215-246, 398-432).  So it is however many commands are added in
\* a context's life, with at most MaxTable in the table at a time.
Table == INSTANCE CommandTable
         WITH bindings <- [c \in Cmds |-> Stack(c)],
              nullFun <- PointerFun(nullH), defaultFun <- PointerFun(defaultH),
              handled <- given, chosen <- FunOf(running)
ImplementsTable == Table!Spec

\* A frame in the pipe is read, unless the loop ends or the host is killed:
\* neither a handler nor an error makes the loop forget one (beco.c:204-246).
Served ==
    \A n \in 1..MaxFrames :
        InLoop /\ nread + Len(inbox) >= n ~> ~ InLoop \/ nread >= n

\* The loop ends: with exit_on_fail once the peer has gone, and after *exit is
\* true provided the read it may be blocked in has something to return
\* (beco.c:208-210).
Stops ==
    InLoop /\ ((closed /\ exitOnFail) \/ (exit /\ (closed \/ inbox # <<>>))) ~> ~ InLoop

=============================================================================
