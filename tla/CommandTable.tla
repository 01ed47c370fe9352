---------------------------- MODULE CommandTable ----------------------------
(***************************************************************************)
(* What a context promises about its handlers: a stack of functions for    *)
(* every command, of which the top one answers, a function for requests    *)
(* that carry no command, and one for requests nobody else takes.          *)
(***************************************************************************)
EXTENDS Naturals, Sequences

CONSTANTS Cmds,     \* command names
          Funs,     \* functions an application registers
          NullFun,  \* a function pointer that is NULL
          Unset,    \* no function was ever set
          NoCmd     \* a request without a command

VARIABLES bindings,    \* bindings[c]: the functions registered for c, newest last
          nullFun, defaultFun,
          handled,     \* number of requests given out
          chosen       \* the function the last one was given to, Unset if refused

vars == <<bindings, nullFun, defaultFun, handled, chosen>>

Init ==
    /\ bindings = [c \in Cmds |-> <<>>]
    /\ nullFun = Unset /\ defaultFun = Unset
    /\ handled = 0 /\ chosen = Unset

Register(c, f) ==
    /\ bindings' = [bindings EXCEPT ![c] = Append(@, f)]
    /\ UNCHANGED <<nullFun, defaultFun, handled, chosen>>

\* Uncovers the function registered before the newest one.
Remove(c) ==
    /\ bindings[c] # <<>>
    /\ bindings' = [bindings EXCEPT ![c] = SubSeq(@, 1, Len(@) - 1)]
    /\ UNCHANGED <<nullFun, defaultFun, handled, chosen>>

SetNull(f) ==
    /\ nullFun' = f
    /\ UNCHANGED <<bindings, defaultFun, handled, chosen>>

SetDefault(f) ==
    /\ defaultFun' = f
    /\ UNCHANGED <<bindings, nullFun, handled, chosen>>

Answering(c) ==
    CASE c = NoCmd /\ nullFun # Unset         -> nullFun
      [] c # NoCmd /\ bindings[c] # <<>>      -> bindings[c][Len(bindings[c])]
      [] OTHER                                -> defaultFun

Handle(c) ==
    /\ handled' = handled + 1
    /\ chosen' = Answering(c)
    /\ UNCHANGED <<bindings, nullFun, defaultFun>>

\* The context is destroyed, with every registration it holds.
Drop ==
    /\ bindings' = [c \in Cmds |-> <<>>]
    /\ nullFun' = Unset /\ defaultFun' = Unset
    /\ UNCHANGED <<handled, chosen>>

Next ==
    \/ \E c \in Cmds : Remove(c) \/ \E f \in Funs : Register(c, f)
    \/ \E f \in Funs \cup {NullFun} : SetNull(f) \/ SetDefault(f)
    \/ \E c \in Cmds \cup {NoCmd} : Handle(c)
    \/ Drop

Spec == Init /\ [][Next]_vars

=============================================================================
