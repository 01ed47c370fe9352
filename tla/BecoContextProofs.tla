-------------------------- MODULE BecoContextProofs --------------------------
(***************************************************************************)
(* A program that keeps both rules never meets a closed stream, however    *)
(* many contexts and files it has.                                         *)
(***************************************************************************)
EXTENDS BecoContext, TLAPS

CtxInv == CtxTypeOK /\ StreamsOwned

\* A context that does not exist owns nothing, and what it is given it may have.
LEMMA NothingOwned ==
    ASSUME CtxInv, NEW c \in Contexts, ~ Exists(c), NEW s \in Streams
    PROVE  owner[s] # c
  BY StreamsAssumption DEF CtxInv, StreamsOwned, Exists, NoContext, Streams

\* What is settled is open.
LEMMA SettledIsOpen ==
    ASSUME CtxInv, NEW c \in Contexts, NEW x \in [in : Streams, out : Streams, log : Streams],
           Settled(c, x)
    PROVE  /\ x.in \in open /\ x.out \in open /\ x.in # x.out
           /\ \A s \in {x.in, x.out} : owner[s] = c \/ owner[s] = "program"
  BY DEF CtxInv, StreamsOwned, Settled, Givable

\* Types hold by themselves.
LEMMA CtxTypes == CtxTypeOK /\ [CtxNext]_cvars => CtxTypeOK'
<1> SUFFICES ASSUME CtxTypeOK, [CtxNext]_cvars PROVE CtxTypeOK'
    OBVIOUS
<1> USE DEF CtxTypeOK
<1> DEFINE Fields == [in : Streams, out : Streams, log : Streams]
<1>0. {"stdin", "stdout", "stderr"} \subseteq Streams /\ Files \subseteq Streams
    BY DEF Streams
<1>1. Default \in Fields
    BY <1>0 DEF Default
<1>2. \A x \in Configurations : x \in Fields
    BY <1>0 DEF Configurations, Default
<1>3. ASSUME NEW c \in Contexts, New(c) PROVE CtxTypeOK'
    BY <1>1, <1>3 DEF New
<1>4. ASSUME NEW c \in Contexts, Use(c) PROVE CtxTypeOK'
    BY <1>4 DEF Use
<1>5. ASSUME NEW c \in Contexts, Destroy(c) PROVE CtxTypeOK'
    BY <1>5 DEF Destroy, Fclose
<1>6. ASSUME NEW c \in Contexts, NEW x \in Fields, NewWithConf(c, x) PROVE CtxTypeOK'
    BY <1>6 DEF NewWithConf, Logging
<1>7. ASSUME NEW c \in Contexts, NEW f \in Files, SetIn(c, f) PROVE CtxTypeOK'
    <2>1. Exists(c) => ctx[c] \in Fields
        BY DEF Exists
    <2> QED BY <1>0, <1>7, <2>1 DEF SetIn, Replaced
<1>8. ASSUME NEW c \in Contexts, NEW f \in Files, SetOut(c, f) PROVE CtxTypeOK'
    <2>1. Exists(c) => ctx[c] \in Fields
        BY DEF Exists
    <2> QED BY <1>0, <1>8, <2>1 DEF SetOut, Replaced
<1>9. ASSUME NEW c \in Contexts, NEW f \in Files, SetLog(c, f) PROVE CtxTypeOK'
    <2>1. Exists(c) => ctx[c] \in Fields
        BY DEF Exists
    <2> QED BY <1>0, <1>9, <2>1 DEF SetLog
<1>10. ASSUME NEW c \in Contexts, NEW l \in Streams, NewWithConfFails(c, l) PROVE CtxTypeOK'
    BY <1>10 DEF NewWithConfFails, Logging
<1>11. ASSUME NEW f \in Files, Close(f) PROVE CtxTypeOK'
    BY <1>11 DEF Close
<1>12. CASE UNCHANGED cvars
    BY <1>12 DEF cvars
<1> QED
    BY <1>0, <1>2, <1>3, <1>4, <1>5, <1>6, <1>7, <1>8, <1>9, <1>10, <1>11, <1>12 DEF CtxNext

\* The streams stay as the rules want them.
LEMMA CtxStep ==
    ASSUME {"give", "log"} \subseteq CtxRules, CtxInv, [CtxNext]_cvars
    PROVE  StreamsOwned'
<1> DEFINE Fields == [in : Streams, out : Streams, log : Streams]
<1>. USE DEF Rule
<1>0. {"stdin", "stdout", "stderr"} \subseteq Streams /\ Files \subseteq Streams
    BY DEF Streams
<1>1. \A c \in Contexts : Exists(c) => ctx[c] \in Fields
    BY DEF CtxInv, CtxTypeOK, Exists
<1>2. \A c \in Contexts : c \notin {"program", "log", "closed"}
    BY StreamsAssumption
<1>T. owner \in [Streams -> Contexts \cup {"program", "log", "closed"}] /\ ~ stale
    BY DEF CtxInv, CtxTypeOK, StreamsOwned
<1>D. ctx = [c \in Contexts |-> ctx[c]]
    BY DEF CtxInv, CtxTypeOK
<1>3. ASSUME NEW c \in Contexts, New(c) PROVE StreamsOwned'
    BY <1>3, <1>D, NothingOwned DEF New, StreamsOwned, CtxInv
<1>4. ASSUME NEW c \in Contexts, Use(c) PROVE StreamsOwned'
    <2> DEFINE x == ctx[c]
    <2>1. x \in Fields
        BY <1>1, <1>4 DEF Use
    <2>2. /\ x.in \in open /\ x.out \in open /\ x.log \in open
          /\ \A s \in {x.in, x.out} : owner[s] = c \/ owner[s] = "program"
        BY <1>4, <2>1, SettledIsOpen DEF Use
    <2> QED BY <1>2, <1>4, <1>T, <2>1, <2>2 DEF Use, StreamsOwned, CtxInv
<1>5. ASSUME NEW c \in Contexts, Destroy(c) PROVE StreamsOwned'
    <2> DEFINE x == ctx[c]
    <2>1. x \in Fields
        BY <1>1, <1>5 DEF Destroy
    <2>2. /\ x.in \in open /\ x.out \in open /\ x.in # x.out
          /\ \A s \in {x.in, x.out} : owner[s] = c \/ owner[s] = "program"
        BY <1>5, <2>1, SettledIsOpen DEF Destroy
    <2>3. ~ stale'
        BY <1>5, <1>T, <2>2 DEF Destroy, Fclose
    <2>4. ASSUME NEW s \in Streams, owner'[s] \in Contexts
          PROVE  s \in open' /\ s \in {ctx'[owner'[s]].in, ctx'[owner'[s]].out}
        <3>1. s \notin {x.in, x.out} /\ owner'[s] = owner[s]
            BY <1>2, <1>5, <1>T, <2>1, <2>4 DEF Destroy
        <3>2. s \in open /\ s \in {ctx[owner[s]].in, ctx[owner[s]].out}
            BY <2>4, <3>1 DEF CtxInv, StreamsOwned
        <3>3. owner[s] # c /\ s \in open'
            BY <1>5, <3>1, <3>2 DEF Destroy, Fclose
        <3> QED BY <1>5, <1>D, <2>4, <3>1, <3>2, <3>3 DEF Destroy
    <2> QED BY <2>3, <2>4 DEF StreamsOwned
<1>6. ASSUME NEW c \in Contexts, NEW x \in Fields, NewWithConf(c, x) PROVE StreamsOwned'
    <2>1. \A s \in Streams : owner[s] # c
        BY <1>6, NothingOwned DEF NewWithConf
    <2>2. ctx' = [ctx EXCEPT ![c] = x] /\ open' = open /\ ~ stale'
        BY <1>6, <1>T DEF NewWithConf
    <2>3. /\ x.log \in open /\ x.log \notin {x.in, x.out}
          /\ owner[x.log] \in {"program", "log"}
        BY <1>6 DEF NewWithConf, Loggable
    <2>4. CASE x.in = "stdin"
        BY <1>2, <1>6, <1>D, <1>T, <2>1, <2>2, <2>3, <2>4 DEF NewWithConf, Logging, StreamsOwned, CtxInv
    <2>5. CASE x.in # "stdin"
        <3>1. x.in \in open /\ x.out \in open
            BY <1>6, <2>5, SettledIsOpen DEF NewWithConf
        <3> QED BY <1>2, <1>6, <1>D, <1>T, <2>1, <2>2, <2>3, <2>5, <3>1
                DEF NewWithConf, Logging, StreamsOwned, CtxInv
    <2> QED BY <2>4, <2>5
<1>7. ASSUME NEW c \in Contexts, NEW f \in Files, SetIn(c, f) PROVE StreamsOwned'
    <2> DEFINE x == ctx[c]
    <2>1. x \in Fields /\ f \in open /\ owner[f] = "program"
        BY <1>1, <1>7 DEF SetIn, Givable
    <2>2. ctx' = [ctx EXCEPT ![c].in = f] /\ open' = open /\ ~ stale'
        BY <1>7, <1>T DEF SetIn
    <2>3. /\ ctx'[c].in = f /\ ctx'[c].out = x.out
          /\ \A d \in Contexts : d # c => ctx'[d] = ctx[d]
        BY <1>D, <2>1, <2>2
    <2>4. \A s \in Streams : owner'[s] = CASE s = f -> c
                                  [] s = x.in /\ s # f /\ owner[s] = c -> "program"
                                  [] OTHER -> owner[s]
        BY <1>7 DEF SetIn, Replaced
    <2>5. ASSUME NEW s \in Streams, owner'[s] \in Contexts
          PROVE  s \in open' /\ s \in {ctx'[owner'[s]].in, ctx'[owner'[s]].out}
        <3>1. CASE s = f
            BY <2>1, <2>2, <2>3, <2>4, <3>1
        <3>2. CASE s # f
            <4>1. owner'[s] = owner[s] /\ ~(s = x.in /\ owner[s] = c)
                BY <1>2, <2>4, <2>5, <3>2
            <4>2. s \in open /\ s \in {ctx[owner[s]].in, ctx[owner[s]].out}
                BY <2>5, <4>1 DEF CtxInv, StreamsOwned
            <4> QED BY <2>2, <2>3, <2>5, <4>1, <4>2
        <3> QED BY <3>1, <3>2
    <2> QED BY <2>2, <2>5 DEF StreamsOwned
<1>8. ASSUME NEW c \in Contexts, NEW f \in Files, SetOut(c, f) PROVE StreamsOwned'
    <2> DEFINE x == ctx[c]
    <2>1. x \in Fields /\ f \in open /\ owner[f] = "program"
        BY <1>1, <1>8 DEF SetOut, Givable
    <2>2. ctx' = [ctx EXCEPT ![c].out = f] /\ open' = open /\ ~ stale'
        BY <1>8, <1>T DEF SetOut
    <2>3. /\ ctx'[c].out = f /\ ctx'[c].in = x.in
          /\ \A d \in Contexts : d # c => ctx'[d] = ctx[d]
        BY <1>D, <2>1, <2>2
    <2>4. \A s \in Streams : owner'[s] = CASE s = f -> c
                                  [] s = x.out /\ s # f /\ owner[s] = c -> "program"
                                  [] OTHER -> owner[s]
        BY <1>8 DEF SetOut, Replaced
    <2>5. ASSUME NEW s \in Streams, owner'[s] \in Contexts
          PROVE  s \in open' /\ s \in {ctx'[owner'[s]].in, ctx'[owner'[s]].out}
        <3>1. CASE s = f
            BY <2>1, <2>2, <2>3, <2>4, <3>1
        <3>2. CASE s # f
            <4>1. owner'[s] = owner[s] /\ ~(s = x.out /\ owner[s] = c)
                BY <1>2, <2>4, <2>5, <3>2
            <4>2. s \in open /\ s \in {ctx[owner[s]].in, ctx[owner[s]].out}
                BY <2>5, <4>1 DEF CtxInv, StreamsOwned
            <4> QED BY <2>2, <2>3, <2>5, <4>1, <4>2
        <3> QED BY <3>1, <3>2
    <2> QED BY <2>2, <2>5 DEF StreamsOwned
<1>9. ASSUME NEW c \in Contexts, NEW f \in Files, SetLog(c, f) PROVE StreamsOwned'
    <2>1. ctx[c] \in Fields /\ owner[f] \in {"program", "log"}
        BY <1>1, <1>9 DEF SetLog, Loggable
    <2>2. ctx' = [ctx EXCEPT ![c].log = f] /\ open' = open /\ ~ stale'
        BY <1>9, <1>T DEF SetLog
    <2>3. \A d \in Contexts : ctx'[d].in = ctx[d].in /\ ctx'[d].out = ctx[d].out
        BY <1>D, <2>1, <2>2
    <2>4. \A s \in Streams : owner'[s] \in Contexts => owner'[s] = owner[s]
        BY <1>2, <1>9, <1>T DEF SetLog
    <2> QED BY <2>2, <2>3, <2>4 DEF StreamsOwned, CtxInv
<1>10. ASSUME NEW c \in Contexts, NEW l \in Streams, NewWithConfFails(c, l) PROVE StreamsOwned'
    <2> DEFINE x == [Default EXCEPT !.log = l]
    <2>1. x \in Fields /\ x.in = "stdin" /\ x.out = "stdout" /\ x.log = l
        BY <1>0 DEF Default
    <2>2. /\ "stdin" \in open /\ "stdout" \in open /\ l \in open
          /\ \A s \in {"stdin", "stdout"} : owner[s] = c \/ owner[s] = "program"
          /\ owner[l] \in {"program", "log"}
        BY <1>10, <2>1, SettledIsOpen DEF NewWithConfFails, Loggable
    <2>3. ~ stale'
        BY <1>10, <1>T, <2>2 DEF NewWithConfFails
    <2>4. \A s \in Streams : owner[s] # c
        BY <1>10, NothingOwned DEF NewWithConfFails
    <2>5. \A s \in Streams : owner'[s] \in Contexts =>
                owner'[s] = owner[s] /\ s \notin {"stdin", "stdout"}
        BY <1>0, <1>2, <1>10, <1>T, <2>1 DEF NewWithConfFails, Logging
    <2> QED BY <1>10, <2>3, <2>4, <2>5 DEF NewWithConfFails, StreamsOwned, CtxInv
<1>11. ASSUME NEW f \in Files, Close(f) PROVE StreamsOwned'
    BY <1>2, <1>11 DEF Close, StreamsOwned, CtxInv
<1>12. CASE UNCHANGED cvars
    BY <1>12 DEF cvars, CtxInv, StreamsOwned
<1>13. \A x \in Configurations : x \in Fields
    BY <1>0 DEF Configurations, Default
<1> QED
    BY <1>0, <1>3, <1>4, <1>5, <1>6, <1>7, <1>8, <1>9, <1>10, <1>11, <1>12, <1>13 DEF CtxNext

\* With both rules kept StreamsOwned always holds: contexts never close or use
\* a stream that is closed, and have what they were given (95-178).
THEOREM StreamsAreOwned ==
    ASSUME {"give", "log"} \subseteq CtxRules
    PROVE  CtxSpec => []StreamsOwned
<1>1. CtxInit => CtxInv
    <2> SUFFICES ASSUME CtxInit PROVE CtxInv
        OBVIOUS
    <2>1. \A s \in Streams : owner[s] \in {"program", "log"}
        BY DEF CtxInit
    <2>2. CtxTypeOK
        BY DEF CtxInit, CtxTypeOK
    <2> QED BY <2>1, <2>2, StreamsAssumption DEF CtxInit, CtxInv, StreamsOwned
<1>2. CtxInv /\ [CtxNext]_cvars => CtxInv'
    BY CtxTypes, CtxStep DEF CtxInv
<1>3. CtxInv => StreamsOwned
    BY DEF CtxInv
<1> QED BY <1>1, <1>2, <1>3, PTL DEF CtxSpec

=============================================================================
