----------------------------- MODULE BecoContext -----------------------------
(***************************************************************************)
(* The streams of contexts: creation, with and without a configuration,    *)
(* the setters, and destruction, which closes two of the three streams a   *)
(* context refers to (76-186).  A process may have several contexts, as    *)
(* the mock framework's user does, and they all start on stdin and stdout. *)
(*                                                                         *)
(* beco.h does not say who closes what.  CtxRules are the rules a program  *)
(* keeps:                                                                  *)
(*   "give"  an open stream is given to one context, for one direction,    *)
(*           and is the context's from then on; stdin and stdout are given *)
(*           when a context that still has them is used or destroyed, or   *)
(*           when a configuration has no streams;                          *)
(*   "log"   a stream to log to is given to nobody, and when it is closed  *)
(*           the contexts that log to it are only destroyed.               *)
(* Handlers, of entries and of signals, are left to BecoHost.              *)
(***************************************************************************)
CONSTANTS Contexts, \* contexts of the process
          Files,    \* streams the program has opened
          CtxRules  \* the rules it keeps

ASSUME CtxRulesAssumption == CtxRules \subseteq {"give", "log"}
ASSUME StreamsAssumption ==
    /\ Files \cap {"stdin", "stdout", "stderr", "NULL"} = {}
    /\ Contexts \cap {"program", "log", "closed"} = {}

VARIABLES ctx,   \* the FILE pointers of each context
          open,  \* the streams that are open
          owner, \* a context, the program, closed by a context, or a "log"
          stale  \* history: a stream that is closed was used or closed again

cvars == <<ctx, open, owner, stale>>

Streams == Files \cup {"stdin", "stdout", "stderr"}
NoContext == [in |-> "NULL", out |-> "NULL", log |-> "NULL"]
Exists(c) == ctx[c] # NoContext

\* BecoContextInit.
Default == [in |-> "stdin", out |-> "stdout", log |-> "stderr"]

CtxTypeOK ==
    /\ ctx \in [Contexts -> [in : Streams, out : Streams, log : Streams] \cup {NoContext}]
    /\ open \subseteq Streams
    /\ owner \in [Streams -> Contexts \cup {"program", "log", "closed"}]
    /\ stale \in BOOLEAN

CtxInit ==
    /\ ctx = [c \in Contexts |-> NoContext]
    /\ open = Streams
    /\ owner = [s \in Streams |-> IF s = "stderr" THEN "log" ELSE "program"]
    /\ stale = FALSE

-----------------------------------------------------------------------------
(* The rules *)

Rule(name, kept) == name \in CtxRules => kept

\* The program may give s away, or log to it.
Givable(s) == s \in open /\ owner[s] = "program"
Loggable(s) == s \in open /\ owner[s] \in {"program", "log"}

\* The streams are c's already, or become so.
Settled(c, x) ==
    x.in # x.out /\ \A s \in {x.in, x.out} : owner[s] = c \/ Givable(s)

Logging(x) == [owner EXCEPT ![x.log] = "log"]

-----------------------------------------------------------------------------
(* The operations *)

\* BecoContextNew, and BecoContextInit of a context on the stack.
New(c) ==
    /\ ~ Exists(c)
    /\ ctx' = [ctx EXCEPT ![c] = Default]
    /\ UNCHANGED <<open, owner, stale>>

\* Mutant: the log is closed with the others.
FcloseLog(x) ==
    /\ open' = open \ {x.in, x.out, x.log}
    /\ stale' = (stale \/ x.in = x.out \/ ~({x.in, x.out, x.log} \subseteq open))

\* fclose(ctx->in) and fclose(ctx->out).
Fclose(x) ==
    /\ open' = open \ {x.in, x.out}
    /\ stale' = (stale \/ x.in = x.out \/ ~({x.in, x.out} \subseteq open))

\* BecoContextNewWithConf with stdio, or with both streams.
NewWithConf(c, x) ==
    /\ ~ Exists(c)
    /\ Rule("give", x.in = "stdin" \/ Settled(c, x))
    /\ Rule("log", Loggable(x.log) /\ x.log \notin {x.in, x.out})
    /\ ctx' = [ctx EXCEPT ![c] = x]
    /\ owner' = IF x.in = "stdin" THEN Logging(x)
                ELSE [Logging(x) EXCEPT ![x.in] = c, ![x.out] = c]
    /\ UNCHANGED <<open, stale>>

\* With a stream missing: the context, still on stdin and stdout, logs that,
\* and is freed.
NewWithConfFails(c, log) ==
    /\ ~ Exists(c)
    /\ LET x == [Default EXCEPT !.log = log]
       IN  /\ Rule("give", Settled(c, x)) /\ Rule("log", Loggable(log))
           /\ open' = open \ {"stdin", "stdout"}
           /\ stale' = (stale \/ ~({"stdin", "stdout", log} \subseteq open))
           /\ owner' = [Logging(x) EXCEPT !["stdin"] = "closed", !["stdout"] = "closed"]
    /\ UNCHANGED ctx

\* The stream it replaces is the program's again.
Replaced(c, old, new) ==
    [s \in Streams |-> CASE s = new -> c
                         [] s = old /\ s # new /\ owner[s] = c -> "program"
                         [] OTHER -> owner[s]]

\* Mutant: the stream it replaces is forgotten, and closed.
SetInClosing(c, f) ==
    /\ Exists(c) /\ Rule("give", Givable(f))
    /\ ctx' = [ctx EXCEPT ![c].in = f]
    /\ owner' = Replaced(c, ctx[c].in, f)
    /\ open' = open \ {ctx[c].in}
    /\ UNCHANGED stale

SetIn(c, f) ==
    /\ Exists(c) /\ Rule("give", Givable(f))
    /\ ctx' = [ctx EXCEPT ![c].in = f]
    /\ owner' = Replaced(c, ctx[c].in, f)
    /\ UNCHANGED <<open, stale>>

SetOut(c, f) ==
    /\ Exists(c) /\ Rule("give", Givable(f))
    /\ ctx' = [ctx EXCEPT ![c].out = f]
    /\ owner' = Replaced(c, ctx[c].out, f)
    /\ UNCHANGED <<open, stale>>

SetLog(c, f) ==
    /\ Exists(c) /\ Rule("log", Loggable(f))
    /\ ctx' = [ctx EXCEPT ![c].log = f]
    /\ owner' = [owner EXCEPT ![f] = "log"]
    /\ UNCHANGED <<open, stale>>

\* The loop, a request, a response: every stream is used.
Use(c) ==
    /\ Exists(c)
    /\ Rule("give", Settled(c, ctx[c])) /\ Rule("log", ctx[c].log \in open)
    /\ owner' = [owner EXCEPT ![ctx[c].in] = c, ![ctx[c].out] = c]
    /\ stale' = (stale \/ ~({ctx[c].in, ctx[c].out, ctx[c].log} \subseteq open))
    /\ UNCHANGED <<ctx, open>>

\* BecoContextDestroy, BecoContextFree.
Destroy(c) ==
    /\ Exists(c) /\ Rule("give", Settled(c, ctx[c]))
    /\ Fclose(ctx[c])
    /\ owner' = [owner EXCEPT ![ctx[c].in] = "closed", ![ctx[c].out] = "closed"]
    /\ ctx' = [ctx EXCEPT ![c] = NoContext]

\* The program closes what is its own, or a log.
Close(f) ==
    /\ f \in open /\ Rule("give", owner[f] \in {"program", "log"})
    /\ open' = open \ {f}
    /\ UNCHANGED <<ctx, owner, stale>>

Configurations ==
    {[in |-> i, out |-> o, log |-> l] : i \in Files, o \in Files, l \in Files \cup {"stderr"}}
        \cup {[Default EXCEPT !.log = l] : l \in Files \cup {"stderr"}}

CtxNext ==
    \/ \E c \in Contexts :
        \/ New(c) \/ Use(c) \/ Destroy(c)
        \/ \E x \in Configurations : NewWithConf(c, x)
        \/ \E f \in Files : SetIn(c, f) \/ SetOut(c, f) \/ SetLog(c, f)
        \/ \E l \in Files \cup {"stderr"} : NewWithConfFails(c, l)
    \/ \E f \in Files : Close(f)

CtxSpec == CtxInit /\ [][CtxNext]_cvars

-----------------------------------------------------------------------------
(* Properties *)

\* While the rules are kept no stream is used or closed after it was closed,
\* though contexts share stdin and stdout by default and a configuration
\* without streams closes these (95-138, 165-178); and a stream a context was
\* given is open, and the context's to close.
StreamsOwned ==
    /\ ~ stale
    /\ \A s \in Streams : owner[s] \in Contexts =>
            s \in open /\ s \in {ctx[owner[s]].in, ctx[owner[s]].out}

=============================================================================
