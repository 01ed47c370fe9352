--------------------------- MODULE BecoHostProofs ---------------------------
(***************************************************************************)
(* Proofs about BecoHost, for every value of its constants.                *)
(*                                                                         *)
(* HeapExact is inductive given the types.  TypeOK needs to know how many  *)
(* frames there are (Counted) and LateBound where the loop was when *exit  *)
(* was set (Slackened): IInv is their conjunction.  With it every step of  *)
(* the host is shown to be a step of CommandTable or to leave it alone.    *)
(***************************************************************************)
EXTENDS BecoHost, FiniteSetTheorems, TLAPS

Answering == {"dispatch", "handling", "sending"}

\* A request is in hand while it is answered, and until then it is not given.
Counted ==
    /\ nread + Len(inbox) <= MaxFrames
    /\ pc \in Answering => nread > 0
    /\ pc = "dispatch" => given < nread

\* The loop past its test with *exit true: the one request it may yet answer.
Slackened ==
    /\ ~ exit => slack = 0 /\ late = 0
    /\ exit /\ pc \in {"reading", "dispatch"} => slack = 1 /\ late = 0

IInv == TypeOK /\ HeapExact /\ Counted /\ Slackened /\ LateBound

-----------------------------------------------------------------------------
(* Frames and entries *)

LEMMA HeadTail ==
    ASSUME NEW S, NEW s \in Seq(S), s # <<>>
    PROVE  Head(s) \in S /\ Tail(s) \in Seq(S) /\ Len(Tail(s)) = Len(s) - 1
  OBVIOUS

LEMMA SeqMonotone ==
    ASSUME NEW S, NEW T, S \subseteq T, NEW s \in Seq(S)
    PROVE  s \in Seq(T)
  OBVIOUS

\* The entry HASH_FIND_STR returns is the greatest, the one made last.
LEMMA FindGreatest ==
    ASSUME TypeOK, NEW c, Registered(c) # {}
    PROVE  Find(c) \in Registered(c) /\ \A j \in Registered(c) : j <= Find(c)
<1>. DEFINE R == Registered(c)
            D == {Len(made) - i : i \in R}
<1>1. R \subseteq 1..Len(made) /\ Len(made) \in Nat
  <2>1. table \subseteq 1..Len(made) /\ Len(made) \in Nat
    BY DEF TypeOK
  <2>. QED
    BY <2>1 DEF Registered
<1>2. D \subseteq Nat /\ D # {}
  BY <1>1
<1>. HIDE DEF D
<1>3. PICK d \in D : \A e \in D : ~ (<<e, d>> \in OpToRel(<, Nat))
  BY <1>2, NatLessThanWellFounded, WFMin
<1>4. \A e \in D : ~ (e < d) /\ e \in Nat /\ d \in Nat
  BY <1>2, <1>3 DEF OpToRel
<1>5. PICK i \in R : d = Len(made) - i
  BY DEF D
<1>6. ASSUME NEW j \in R PROVE j <= i
  <2>1. Len(made) - j \in D
    BY DEF D
  <2>. QED
    BY <1>1, <1>4, <1>5, <2>1
<1>. QED
  BY <1>5, <1>6 DEF Find

\* What is returned is in the table.
LEMMA FindInTable ==
    ASSUME TypeOK, NEW c
    PROVE  /\ Find(c) \in table \cup {0}
           /\ Find(c) # 0 => made[Find(c)].cmd = c
<1>1. CASE Registered(c) = {}
  BY <1>1 DEF Find
<1>2. CASE Registered(c) # {}
  BY <1>2, FindGreatest DEF Registered
<1>. QED
  BY <1>1, <1>2

\* What BecoNext invokes, if anything, is an entry made.
LEMMA TargetTyped ==
    ASSUME TypeOK
    PROVE  Target \in 0..Len(made)
  BY FindInTable DEF Target, TypeOK

LEMMA InitIInv == Init => IInv
<1>. SUFFICES ASSUME Init PROVE IInv
  OBVIOUS
<1>1. TypeOK
  <2>1. /\ inbox = <<>> /\ outbox = <<>> /\ made = <<>>
        /\ Len(inbox) = 0 /\ Len(outbox) = 0 /\ Len(made) = 0
    BY DEF Init
  <2>2. /\ inbox \in Seq(Frames) /\ outbox \in Seq(1..nread)
        /\ made \in Seq([cmd : Cmds \cup {NoCmd}, fun : Funs \cup {NullFun}])
    BY <2>1
  <2>3. /\ Len(inbox) <= InCap /\ Len(outbox) <= OutCap /\ Len(made) <= MaxEntries
        /\ nread \in 0..MaxFrames /\ given \in 0..nread /\ nsent \in 0..MaxSends
    BY <2>1, CapAssumption, BoundAssumption DEF Init
  <2>4. /\ live = {} /\ table = {} /\ lost = {}
        /\ nullH \in 0..Len(made) /\ defaultH \in 0..Len(made) /\ running \in 0..Len(made)
    BY <2>1 DEF Init
  <2>. QED
    BY <2>2, <2>3, <2>4 DEF Init, TypeOK, Looping
<1>2. HeapExact
  BY DEF Init, HeapExact, Led
<1>3. Counted /\ Slackened /\ LateBound
  BY BoundAssumption DEF Init, Counted, Slackened, LateBound, Answering
<1>. QED
  BY <1>1, <1>2, <1>3 DEF IInv

-----------------------------------------------------------------------------
(* The handlers *)

\* A step that makes one entry and gives a pointer of the context to it.
LEMMA CreateStep ==
    ASSUME IInv, Calling, UNCHANGED calls,
           NEW c \in Cmds \cup {NoCmd}, NEW f \in Funs \cup {NullFun},
           CreateHandler(c, f), live' = live \cup {Len(made')},
           \/ table' = table \cup {Len(made')} /\ UNCHANGED <<nullH, defaultH, lost>>
           \/ /\ nullH' = Len(made') /\ UNCHANGED <<table, defaultH>>
              /\ lost' = lost \cup ({nullH} \ {0})
           \/ /\ defaultH' = Len(made') /\ UNCHANGED <<table, nullH>>
              /\ lost' = lost \cup ({defaultH} \ {0})
    PROVE  IInv'
<1>. DEFINE n == Len(made) + 1
<1>. USE DEF IInv
<1>1. /\ made \in Seq([cmd : Cmds \cup {NoCmd}, fun : Funs \cup {NullFun}])
      /\ Len(made) \in Nat /\ Len(made) < MaxEntries
      /\ made' = Append(made, [cmd |-> c, fun |-> f])
  BY DEF TypeOK, CreateHandler
<1>2. /\ made' \in Seq([cmd : Cmds \cup {NoCmd}, fun : Funs \cup {NullFun}])
      /\ Len(made') = n /\ n <= MaxEntries
  BY <1>1, BoundAssumption
<1>3. n \notin live /\ n \notin table /\ n # nullH /\ n # defaultH /\ n \notin lost /\ n # 0
  BY <1>1 DEF TypeOK
<1>4. TypeOK'
  <2>1. n \in 1..n /\ 1..Len(made) \subseteq 1..n /\ 0..Len(made) \subseteq 0..n
    BY <1>1
  <2>2. live' \subseteq 1..n
    BY <1>2, <2>1 DEF TypeOK
  <2>4. nullH \in {0} \cup 1..n /\ defaultH \in {0} \cup 1..n
    BY <1>1, <2>1 DEF TypeOK
  <2>5. table' \subseteq 1..n /\ lost' \subseteq 1..n
    BY <1>2, <2>1, <2>4 DEF TypeOK
  <2>6. nullH' \in 0..n /\ defaultH' \in 0..n
    BY <1>1, <1>2, <2>1, <2>4 DEF TypeOK
  <2>3. running' \in 0..n
    BY <1>1 DEF TypeOK, calls, flow
  <2>. QED
    BY <1>2, <2>2, <2>3, <2>5, <2>6 DEF TypeOK, calls, peer, flow, count
<1>5. HeapExact'
  <2>1. pc # "destroyed" /\ pc' = pc
    BY DEF Calling, calls
  <2>. QED
    BY <1>2, <1>3, <2>1 DEF HeapExact, Led
<1>6. (Counted /\ Slackened /\ LateBound)'
  BY DEF Counted, Slackened, LateBound, calls, peer, flow, count
<1>. QED
  BY <1>4, <1>5, <1>6

LEMMA RegisterStep ==
    ASSUME IInv, NEW c \in Cmds, NEW f \in Funs, RegisterCommand(c, f)
    PROVE  IInv'
  BY CreateStep DEF RegisterCommand

LEMMA SetNullStep ==
    ASSUME IInv, NEW f \in Funs \cup {NullFun}, SetNullCmdHandler(f)
    PROVE  IInv'
  BY CreateStep DEF SetNullCmdHandler

LEMMA SetDefaultStep ==
    ASSUME IInv, NEW f \in Funs \cup {NullFun}, SetDefaultCmdHandler(f)
    PROVE  IInv'
  BY CreateStep DEF SetDefaultCmdHandler

LEMMA RemoveStep ==
    ASSUME IInv, NEW c \in Cmds, RemoveCommand(c)
    PROVE  IInv'
<1>. USE DEF IInv
<1>1. PICK i \in table : table' = table \ {i} /\ live' = live \ {i}
  BY FindInTable DEF RemoveCommand
<1>2. UNCHANGED <<made, nullH, defaultH, lost, calls>>
  BY DEF RemoveCommand
<1>3. TypeOK'
  BY <1>1, <1>2 DEF TypeOK, calls, peer, flow, count
<1>4. HeapExact'
  <2>1. pc # "destroyed" /\ pc' = pc
    BY DEF RemoveCommand, Calling, calls
  <2>. QED
    BY <1>1, <1>2, <2>1 DEF HeapExact, Led, TypeOK
<1>5. (Counted /\ Slackened /\ LateBound)'
  BY <1>2 DEF Counted, Slackened, LateBound, calls, peer, flow, count
<1>. QED
  BY <1>3, <1>4, <1>5

LEMMA DestroyStep ==
    ASSUME IInv, ContextDestroy
    PROVE  IInv'
<1>. USE DEF IInv, ContextDestroy
<1>1. TypeOK'
  BY DEF TypeOK, peer, flow, count
<1>2. HeapExact'
  <2>1. live' = lost /\ Led' = {}
    BY DEF HeapExact, Led, TypeOK
  <2>. QED
    BY <2>1 DEF HeapExact
<1>3. (Counted /\ Slackened /\ LateBound)'
  BY DEF Counted, Slackened, LateBound, Answering, peer, flow, count
<1>. QED
  BY <1>1, <1>2, <1>3

-----------------------------------------------------------------------------
(* The loop *)

\* A step that leaves the entries alone leaves the heap exact.
LEMMA HeapKept ==
    ASSUME HeapExact, UNCHANGED entries, (pc # "destroyed" /\ pc' # "destroyed") \/ pc' = pc
    PROVE  HeapExact'
  BY DEF HeapExact, Led, entries

\* Steps inside the loop that neither read, nor dispatch, nor write.
LEMMA QuietStep ==
    ASSUME IInv, StartLoop \/ LoopTop \/ ReadFails \/ SendResponse \/ Killed
                 \/ HandlerReturn \/ LoopCheck
    PROVE  IInv'
<1>. USE DEF IInv, StartLoop, LoopTop, ReadFails, SendResponse, Killed,
         HandlerReturn, LoopCheck
<1>1. TypeOK'
  <2>. USE BoundAssumption DEF TypeOK, Looping, entries, peer, flow, count
  <2>1. CASE StartLoop
    BY <2>1
  <2>2. CASE LoopTop
    BY <2>2
  <2>3. CASE ReadFails
    BY <2>3
  <2>4. CASE SendResponse
    BY <2>4
  <2>5. CASE Killed
    BY <2>5
  <2>6. CASE HandlerReturn
    BY <2>6
  <2>7. CASE LoopCheck
    BY <2>7
  <2>. QED
    BY <2>1, <2>2, <2>3, <2>4, <2>5, <2>6, <2>7
<1>2. HeapExact'
  BY HeapKept
<1>3. Counted'
  BY DEF Counted, Answering, peer, flow, count
<1>4. (Slackened /\ LateBound)'
  BY DEF Slackened, LateBound, flow, count, TypeOK
<1>. QED
  BY <1>1, <1>2, <1>3, <1>4

LEMMA ReadStep ==
    ASSUME IInv, ReadRequest
    PROVE  IInv'
<1>. USE DEF IInv, ReadRequest
<1>1. /\ Head(inbox) \in Frames /\ Tail(inbox) \in Seq(Frames)
      /\ Len(Tail(inbox)) = Len(inbox) - 1 /\ Len(inbox) \in Nat \ {0}
  BY HeadTail DEF TypeOK
<1>2. nread' = nread + 1 /\ nread \in Nat /\ nread' \in 0..MaxFrames
  BY <1>1, BoundAssumption DEF TypeOK, Counted
<1>3. outbox' \in Seq(1..nread')
  <2>1. outbox \in Seq(1..nread) /\ outbox' = outbox
    BY DEF TypeOK
  <2>2. 1..nread \subseteq 1..nread'
    BY <1>2
  <2>. QED
    BY <2>1, <2>2, SeqMonotone
<1>4. TypeOK'
  BY <1>1, <1>2, <1>3, CapAssumption DEF TypeOK, Looping, Frames, entries
<1>5. HeapExact'
  BY HeapKept
<1>6. Counted'
  BY <1>1, <1>2 DEF Counted, Answering, TypeOK
<1>7. (Slackened /\ LateBound)'
  BY DEF Slackened, LateBound
<1>. QED
  BY <1>4, <1>5, <1>6, <1>7

LEMMA DispatchStep ==
    ASSUME IInv, Dispatch
    PROVE  IInv'
<1>. USE DEF IInv, Dispatch
<1>1. Target \in 0..Len(made)
  BY TargetTyped
<1>2. TypeOK'
  BY <1>1, BoundAssumption DEF TypeOK, Looping, Counted, entries, peer
<1>3. HeapExact'
  BY HeapKept
<1>4. Counted'
  BY DEF Counted, Answering, peer
<1>5. (Slackened /\ LateBound)'
  BY DEF Slackened, LateBound, TypeOK
<1>. QED
  BY <1>2, <1>3, <1>4, <1>5

LEMMA SentStep ==
    ASSUME IInv, Sent
    PROVE  IInv'
<1>. USE DEF IInv, Sent
<1>1. nread \in 1..nread
  BY DEF TypeOK, Counted, Answering
<1>2. outbox' \in Seq(1..nread) /\ Len(outbox') <= OutCap
  BY <1>1, CapAssumption DEF TypeOK
<1>3. TypeOK'
  BY <1>2 DEF TypeOK, Looping, entries, flow, count
<1>4. HeapExact'
  BY HeapKept
<1>5. (Counted /\ Slackened /\ LateBound)'
  BY DEF Counted, Answering, Slackened, LateBound, flow, count
<1>. QED
  BY <1>3, <1>4, <1>5

LEMMA EnvironmentStep ==
    ASSUME IInv, Environment
    PROVE  IInv'
<1>. USE DEF IInv
<1>1. CASE SetExit
  <2>1. TypeOK'
    BY <1>1 DEF SetExit, TypeOK, entries, peer, flow
  <2>2. HeapExact'
    BY <1>1, HeapKept DEF SetExit
  <2>3. (Counted /\ Slackened /\ LateBound)'
    BY <1>1 DEF SetExit, Counted, Slackened, LateBound, peer
  <2>. QED
    BY <2>1, <2>2, <2>3
<1>2. CASE \E f \in Frames : PeerSend(f)
  <2>1. PICK f \in Frames : PeerSend(f)
    BY <1>2
  <2>2. /\ inbox' \in Seq(Frames) /\ Len(inbox') = Len(inbox) + 1
        /\ Len(inbox') <= InCap /\ Len(inbox) \in Nat /\ nread + Len(inbox) < MaxFrames
    BY <2>1, CapAssumption DEF PeerSend, TypeOK
  <2>3. TypeOK'
    BY <2>1, <2>2 DEF PeerSend, TypeOK, entries, flow, count
  <2>4. HeapExact'
    BY <2>1, HeapKept DEF PeerSend
  <2>5. (Counted /\ Slackened /\ LateBound)'
    BY <2>1, <2>2, BoundAssumption
       DEF PeerSend, TypeOK, Counted, Slackened, LateBound, count
  <2>. QED
    BY <2>3, <2>4, <2>5
<1>3. CASE PeerReceive
  <2>1. outbox' \in Seq(1..nread) /\ Len(outbox') <= OutCap
    <3>1. outbox \in Seq(1..nread) /\ outbox # <<>> /\ Len(outbox) <= OutCap
      BY <1>3 DEF PeerReceive, TypeOK
    <3>. QED
      BY <1>3, <3>1, CapAssumption, HeadTail DEF PeerReceive
  <2>2. TypeOK'
    BY <1>3, <2>1 DEF PeerReceive, TypeOK, entries, flow, count
  <2>3. HeapExact'
    BY <1>3, HeapKept DEF PeerReceive
  <2>4. (Counted /\ Slackened /\ LateBound)'
    BY <1>3 DEF PeerReceive, Counted, Slackened, LateBound, count
  <2>. QED
    BY <2>2, <2>3, <2>4
<1>4. CASE PeerClose
  <2>1. TypeOK'
    BY <1>4 DEF PeerClose, TypeOK, entries, flow, count
  <2>2. HeapExact'
    BY <1>4, HeapKept DEF PeerClose
  <2>3. (Counted /\ Slackened /\ LateBound)'
    BY <1>4 DEF PeerClose, Counted, Slackened, LateBound, count
  <2>. QED
    BY <2>1, <2>2, <2>3
<1>. QED
  BY <1>1, <1>2, <1>3, <1>4 DEF Environment

LEMMA NextIInv == IInv /\ [Next]_vars => IInv'
<1>. SUFFICES ASSUME IInv, [Next]_vars PROVE IInv'
  OBVIOUS
<1>1. CASE Api
  BY <1>1, RegisterStep, RemoveStep, SetNullStep, SetDefaultStep DEF Api
<1>2. CASE ContextDestroy
  BY <1>2, DestroyStep
<1>3. CASE StartLoop \/ SendResponse
  BY <1>3, QuietStep
<1>4. CASE LoopSteps
  BY <1>4, QuietStep, ReadStep, DispatchStep, SentStep DEF LoopSteps
<1>5. CASE Environment
  BY <1>5, EnvironmentStep
<1>6. CASE UNCHANGED vars
  BY <1>6 DEF IInv, TypeOK, HeapExact, Led, Counted, Slackened, LateBound,
              vars, entries, peer, flow, count
<1>. QED
  BY <1>1, <1>2, <1>3, <1>4, <1>5, <1>6 DEF Next

-----------------------------------------------------------------------------
(* The elements of a finite set of numbers, in their order *)

LEMMA RankTyped ==
    ASSUME NEW S \in SUBSET Nat, IsFiniteSet(S), NEW i \in Nat
    PROVE  Rank(S, i) \in 0..Cardinality(S)
<1>. DEFINE B == {j \in S : j < i}
<1>1. B \in SUBSET S
  OBVIOUS
<1>. HIDE DEF B
<1>2. IsFiniteSet(B) /\ Cardinality(B) <= Cardinality(S)
  BY <1>1, FS_Subset
<1>3. Cardinality(B) \in Nat /\ Cardinality(S) \in Nat
  BY <1>2, FS_CardinalityType
<1>. QED
  BY <1>2, <1>3 DEF Rank, B

\* A larger element has a larger rank, and no element has the last.
LEMMA RankRises ==
    ASSUME NEW S \in SUBSET Nat, IsFiniteSet(S),
           NEW i \in S, NEW k \in Nat, i < k
    PROVE  Rank(S, i) < Rank(S, k)
<1>. DEFINE B(n) == {j \in S : j < n}
<1>1. \A j \in S : j \in Nat
  OBVIOUS
<1>2. B(i) \cup {i} \in SUBSET B(k) /\ i \notin B(i) /\ B(i) \in SUBSET S /\ B(k) \in SUBSET S
  <2>1. i \in B(k) /\ i \notin B(i)
    BY <1>1
  <2>2. \A j \in B(i) : j \in B(k)
    BY <1>1
  <2>. QED
    BY <2>1, <2>2
<1>. HIDE DEF B
<1>3. IsFiniteSet(B(i)) /\ IsFiniteSet(B(k))
  BY <1>2, FS_Subset
<1>4. Cardinality(B(i) \cup {i}) = Cardinality(B(i)) + 1
  BY <1>2, <1>3, FS_AddElement
<1>5. Cardinality(B(i) \cup {i}) <= Cardinality(B(k))
  BY <1>2, <1>3, FS_Subset
<1>6. Cardinality(B(i)) \in Nat /\ Cardinality(B(k)) \in Nat
  BY <1>3, FS_CardinalityType
<1>7. Cardinality(B(i)) < Cardinality(B(k))
  BY <1>4, <1>5, <1>6
<1>. QED
  BY <1>7 DEF Rank, B

\* Every place up to the cardinality is taken, so Nth is an element.
LEMMA RankTaken ==
    ASSUME NEW S \in SUBSET Nat, IsFiniteSet(S), NEW k \in 1..Cardinality(S)
    PROVE  \E i \in S : Rank(S, i) = k - 1
<1>. DEFINE n == Cardinality(S)
            T == 0..(n - 1)
            f == [i \in S |-> Rank(S, i)]
<1>1. n \in Nat
  BY FS_CardinalityType
<1>2. IsFiniteSet(T) /\ Cardinality(T) = n
  <2>1. 0 \in Int /\ n - 1 \in Int
    BY <1>1
  <2>2. IsFiniteSet(T) /\ Cardinality(T) = IF 0 > n - 1 THEN 0 ELSE (n - 1) - 0 + 1
    BY ONLY <2>1, FS_Interval
  <2>. QED
    BY <1>1, <2>2
<1>3. \A i \in S : Rank(S, i) \in T
  <2>. SUFFICES ASSUME NEW i \in S PROVE Rank(S, i) \in T
    OBVIOUS
  <2>. DEFINE B == {j \in S : j < i}
  <2>1. B \in SUBSET S /\ B # S
    OBVIOUS
  <2>. HIDE DEF B
  <2>2. IsFiniteSet(B) /\ Cardinality(B) <= n /\ Cardinality(B) # n
    BY <2>1, FS_Subset
  <2>3. Cardinality(B) \in Nat
    BY <2>2, FS_CardinalityType
  <2>4. Cardinality(B) \in T
    BY <1>1, <2>2, <2>3
  <2>. QED
    BY <2>4 DEF Rank, B
<1>4. f \in [S -> T]
  BY <1>3
<1>5. \A i, j \in S : f[i] = f[j] => i = j
  <2>. SUFFICES ASSUME NEW i \in S, NEW j \in S, i # j PROVE f[i] # f[j]
    OBVIOUS
  <2>1. i < j \/ j < i
    OBVIOUS
  <2>2. Rank(S, i) \in Nat /\ Rank(S, j) \in Nat
    BY <1>3, <1>1
  <2>. QED
    BY <2>1, <2>2, RankRises
<1>6. f \in Injection(S, T)
  BY <1>4, <1>5 DEF Injection, IsInjective
<1>. HIDE DEF f
<1>7. f \in Surjection(S, T)
  BY <1>2, <1>6, FS_Injection
<1>8. k - 1 \in T
  BY <1>1
<1>. QED
  BY <1>7, <1>8 DEF Surjection, f

LEMMA NthTyped ==
    ASSUME NEW S \in SUBSET Nat, IsFiniteSet(S), NEW k \in 1..Cardinality(S)
    PROVE  Nth(S, k) \in S /\ Rank(S, Nth(S, k)) = k - 1
  BY RankTaken DEF Nth

LEMMA NthUnique ==
    ASSUME NEW S \in SUBSET Nat, IsFiniteSet(S), NEW k \in 1..Cardinality(S),
           NEW i \in S, Rank(S, i) = k - 1
    PROVE  Nth(S, k) = i
<1>1. Nth(S, k) \in S /\ Rank(S, Nth(S, k)) = k - 1
  BY NthTyped
<1>2. Cardinality(S) \in Nat /\ \A j \in S : j \in Nat
  BY FS_CardinalityType
<1>3. \A j \in S : Rank(S, j) \in Nat
  BY <1>2, RankTyped
<1>. DEFINE m == Nth(S, k)
<1>. HIDE DEF m
<1>4. m \in S /\ m \in Nat /\ i \in Nat /\ Rank(S, m) = Rank(S, i) /\ Rank(S, i) \in Nat
  BY <1>1, <1>2, <1>3 DEF m
<1>5. ~ (m < i)
  BY <1>4, RankRises
<1>6. ~ (i < m)
  BY <1>4, RankRises
<1>. QED
  BY <1>4, <1>5, <1>6 DEF m

\* A number above all the others is the last, and moves none of them.
LEMMA NthAbove ==
    ASSUME NEW S \in SUBSET Nat, IsFiniteSet(S),
           NEW n \in Nat, \A j \in S : j < n
    PROVE  /\ IsFiniteSet(S \cup {n}) /\ Cardinality(S \cup {n}) = Cardinality(S) + 1
           /\ Nth(S \cup {n}, Cardinality(S) + 1) = n
           /\ \A k \in 1..Cardinality(S) : Nth(S \cup {n}, k) = Nth(S, k)
<1>. DEFINE T == S \cup {n}
<1>1. n \notin S /\ T \in SUBSET Nat /\ S \subseteq T /\ n \in T
  OBVIOUS
<1>2. IsFiniteSet(T) /\ Cardinality(T) = Cardinality(S) + 1
  BY <1>1, FS_AddElement
<1>3. Cardinality(S) \in Nat
  BY FS_CardinalityType
<1>a. \A i \in S : i \in Nat /\ i < n /\ ~ (n < i)
  OBVIOUS
<1>b. ~ (n < n)
  OBVIOUS
<1>c. {j \in T : j < n} = S
  BY <1>a, <1>b
<1>4. {j \in T : j < n} = S /\ \A i \in S : {j \in T : j < i} = {j \in S : j < i}
  BY <1>a, <1>c
<1>5. Rank(T, n) = Cardinality(S) /\ \A i \in S : Rank(T, i) = Rank(S, i)
  BY <1>4 DEF Rank
<1>. HIDE DEF T
<1>6. Nth(T, Cardinality(S) + 1) = n
  BY <1>1, <1>2, <1>3, <1>5, NthUnique
<1>7. ASSUME NEW k \in 1..Cardinality(S)
      PROVE  Nth(T, k) = Nth(S, k)
  <2>1. Nth(S, k) \in S /\ Rank(S, Nth(S, k)) = k - 1
    BY NthTyped
  <2>2. k \in 1..Cardinality(T)
    BY <1>2, <1>3
  <2>. DEFINE m == Nth(S, k)
  <2>. HIDE DEF m
  <2>3. m \in T /\ Rank(T, m) = k - 1
    BY <1>1, <1>5, <2>1 DEF m
  <2>4. Nth(T, k) = m
    BY <1>1, <1>2, <2>2, <2>3, NthUnique
  <2>. QED
    BY <2>4 DEF m
<1>. QED
  BY <1>2, <1>6, <1>7 DEF T

-----------------------------------------------------------------------------
(* The table of handlers as stacks of functions *)

LEMMA RegisteredFinite ==
    ASSUME TypeOK, NEW c
    PROVE  /\ Registered(c) \in SUBSET Nat /\ IsFiniteSet(Registered(c))
           /\ Registered(c) \subseteq 1..Len(made)
           /\ Cardinality(Registered(c)) \in Nat
<1>1. Registered(c) \in SUBSET (1..Len(made)) /\ Len(made) \in Nat
  <2>1. table \subseteq 1..Len(made) /\ Len(made) \in Nat
    BY DEF TypeOK
  <2>. QED
    BY <2>1 DEF Registered
<1>2. IsFiniteSet(1..Len(made))
  BY <1>1, FS_Interval
<1>3. IsFiniteSet(Registered(c))
  BY <1>1, <1>2, FS_Subset
<1>. QED
  BY <1>1, <1>3, FS_CardinalityType

LEMMA EntryTyped ==
    ASSUME TypeOK, NEW i \in 1..Len(made)
    PROVE  made[i].fun \in Funs \cup {NullFun} /\ made[i].cmd \in Cmds \cup {NoCmd}
<1>1. made \in Seq([cmd : Cmds \cup {NoCmd}, fun : Funs \cup {NullFun}])
  BY DEF TypeOK
<1>. DEFINE E == [cmd : Cmds \cup {NoCmd}, fun : Funs \cup {NullFun}]
<1>. HIDE DEF E
<1>2. made[i] \in E
  <2>1. made \in Seq(E)
    BY <1>1 DEF E
  <2>. QED
    BY <2>1
<1>. QED
  BY <1>2 DEF E

\* A stack is a sequence of functions.
LEMMA StackTyped ==
    ASSUME TypeOK, NEW c
    PROVE  /\ Stack(c) \in Seq(Funs \cup {NullFun})
           /\ Len(Stack(c)) = Cardinality(Registered(c))
           /\ \A k \in 1..Len(Stack(c)) : Stack(c)[k] = made[Nth(Registered(c), k)].fun
<1>. DEFINE R == Registered(c)
<1>1. /\ R \in SUBSET Nat /\ IsFiniteSet(R) /\ R \subseteq 1..Len(made) /\ Cardinality(R) \in Nat
  BY RegisteredFinite
<1>. HIDE DEF R
<1>2. \A k \in 1..Cardinality(R) : Nth(R, k) \in R
  BY <1>1, NthTyped
<1>3. \A i \in R : made[i].fun \in Funs \cup {NullFun}
  BY <1>1, EntryTyped
<1>4. Stack(c) = [k \in 1..Cardinality(R) |-> made[Nth(R, k)].fun]
  BY DEF Stack, R
<1>5. \A k \in 1..Cardinality(R) : made[Nth(R, k)].fun \in Funs \cup {NullFun}
  BY <1>2, <1>3
<1>. QED
  BY <1>1, <1>4, <1>5 DEF R

\* Two equal sets of entries with the same contents are the same stack.
LEMMA StackKept ==
    ASSUME TypeOK, NEW c, Registered(c)' = Registered(c),
           \A i \in 1..Len(made) : made'[i] = made[i]
    PROVE  Stack(c)' = Stack(c)
<1>1. /\ Registered(c) \in SUBSET Nat /\ IsFiniteSet(Registered(c))
      /\ Registered(c) \subseteq 1..Len(made)
  BY RegisteredFinite
<1>2. \A k \in 1..Cardinality(Registered(c)) :
        made'[Nth(Registered(c), k)].fun = made[Nth(Registered(c), k)].fun
  BY <1>1, NthTyped
<1>3. Stack(c)' = [k \in 1..Cardinality(Registered(c)) |-> made'[Nth(Registered(c), k)].fun]
  BY DEF Stack
<1>. QED
  BY <1>2, <1>3 DEF Stack

\* HASH_FIND_STR returns the top of a command's stack.
LEMMA FindIsTop ==
    ASSUME TypeOK, NEW c
    PROVE  /\ Find(c) = 0 <=> Stack(c) = <<>>
           /\ Find(c) # 0 => FunOf(Find(c)) = Stack(c)[Len(Stack(c))]
<1>. DEFINE R == Registered(c)
<1>1. R \in SUBSET Nat /\ IsFiniteSet(R) /\ R \subseteq 1..Len(made) /\ Cardinality(R) \in Nat
  BY RegisteredFinite
<1>2. Cardinality(R) = 0 <=> R = {}
  BY <1>1, FS_EmptySet
<1>3. Find(c) = 0 <=> R = {}
  <2>1. Find(c) \in table \cup {0} /\ (Find(c) # 0 => made[Find(c)].cmd = c)
    BY FindInTable
  <2>2. Find(c) # 0 => Find(c) \in R
    BY <2>1 DEF Registered
  <2>3. R # {} => Find(c) \in R
    BY FindGreatest
  <2>4. \A i \in R : i # 0
    BY <1>1
  <2>5. R = {} => Find(c) = 0
    BY DEF Find
  <2>. QED
    BY <2>2, <2>3, <2>4, <2>5
<1>4. Find(c) = 0 <=> Stack(c) = <<>>
  BY <1>2, <1>3, <1>1, StackTyped
<1>5. ASSUME Find(c) # 0 PROVE FunOf(Find(c)) = Stack(c)[Len(Stack(c))]
  <2>1. Find(c) \in R /\ \A j \in R : j <= Find(c)
    BY <1>3, <1>5, FindGreatest
  <2>. DEFINE S == R \ {Find(c)}
  <2>2. S \in SUBSET Nat /\ R = S \cup {Find(c)} /\ \A j \in S : j < Find(c)
    BY <1>1, <2>1
  <2>3. IsFiniteSet(S)
    BY <1>1, FS_RemoveElement
  <2>4. Find(c) \in Nat
    BY <1>1, <2>1
  <2>. HIDE DEF S, R
  <2>5. Cardinality(R) = Cardinality(S) + 1 /\ Nth(R, Cardinality(R)) = Find(c)
    BY <2>2, <2>3, <2>4, NthAbove
  <2>6. Cardinality(R) \in 1..Len(Stack(c)) /\ Len(Stack(c)) = Cardinality(R)
    BY <2>3, <2>5, FS_CardinalityType, StackTyped DEF R
  <2>. QED
    BY <1>5, <2>5, <2>6, StackTyped DEF FunOf, R
<1>. QED
  BY <1>4, <1>5

-----------------------------------------------------------------------------
(* Every step is a step of the command table *)

Bound == [c \in Cmds |-> Stack(c)]
tvars == <<Bound, PointerFun(nullH), PointerFun(defaultH), given, FunOf(running)>>

\* What an entry's function is does not change.
LEMMA FunKept ==
    ASSUME TypeOK, NEW h \in 0..Len(made), \A i \in 1..Len(made) : made'[i] = made[i]
    PROVE  (IF h = 0 THEN Unset ELSE made'[h].fun) = FunOf(h)
  BY DEF FunOf, TypeOK

\* Steps of a context in use that touch no entry, and steps beside it.
LEMMA EntriesKept ==
    ASSUME TypeOK, UNCHANGED entries, (pc # "destroyed" /\ pc' # "destroyed") \/ pc' = pc
    PROVE  /\ Bound' = Bound
           /\ PointerFun(nullH)' = PointerFun(nullH)
           /\ PointerFun(defaultH)' = PointerFun(defaultH)
  BY DEF entries, Bound, Stack, Registered, Nth, Rank, FunOf, PointerFun

\* What CreateHandler returns is new, and leaves the others as they are.
LEMMA Created ==
    ASSUME TypeOK, NEW c \in Cmds \cup {NoCmd}, NEW f \in Funs \cup {NullFun},
           CreateHandler(c, f)
    PROVE  /\ Len(made) \in Nat /\ Len(made') = Len(made) + 1
           /\ made'[Len(made')] = [cmd |-> c, fun |-> f]
           /\ \A i \in 1..Len(made) : made'[i] = made[i]
<1>. DEFINE E == [cmd : Cmds \cup {NoCmd}, fun : Funs \cup {NullFun}]
            e == [cmd |-> c, fun |-> f]
<1>1. made \in Seq(E) /\ e \in E
  BY DEF TypeOK
<1>2. made' = Append(made, e)
  BY DEF CreateHandler
<1>. HIDE DEF E, e
<1>3. /\ Len(made) \in Nat /\ Len(made') = Len(made) + 1
      /\ made'[Len(made')] = e /\ \A i \in 1..Len(made) : made'[i] = made[i]
  BY <1>1, <1>2
<1>. QED
  BY <1>3 DEF e

LEMMA RegisterSimulation ==
    ASSUME IInv, NEW c \in Cmds, NEW f \in Funs, RegisterCommand(c, f)
    PROVE  Table!Register(c, f)
<1>. DEFINE n == Len(made) + 1
            R == Registered(c)
<1>1. TypeOK /\ CreateHandler(c, f) /\ table' = table \cup {Len(made')}
      /\ UNCHANGED <<nullH, defaultH, given, running, pc>>
  BY DEF IInv, RegisterCommand, calls, count, flow
<1>2. /\ Len(made) \in Nat /\ Len(made') = n
      /\ made'[n] = [cmd |-> c, fun |-> f] /\ \A i \in 1..Len(made) : made'[i] = made[i]
  BY <1>1, Created
<1>3. table \subseteq 1..Len(made) /\ n \notin 1..Len(made)
  BY <1>1, <1>2 DEF TypeOK
<1>4. \A d \in Cmds : Registered(d)' = IF d = c THEN Registered(d) \cup {n} ELSE Registered(d)
  <2>1. table' = table \cup {n} /\ made'[n].cmd = c /\ \A i \in table : made'[i].cmd = made[i].cmd
    BY <1>1, <1>2, <1>3
  <2>. QED
    BY <2>1 DEF Registered
<1>5. ASSUME NEW d \in Cmds, d # c PROVE Stack(d)' = Stack(d)
  BY <1>1, <1>2, <1>4, <1>5, StackKept
<1>6. /\ R \in SUBSET Nat /\ IsFiniteSet(R) /\ R \subseteq 1..Len(made) /\ Cardinality(R) \in Nat
  BY <1>1, RegisteredFinite
<1>. HIDE DEF R
<1>7. n \in Nat /\ \A j \in R : j < n
  BY <1>2, <1>6
<1>8. /\ Cardinality(R \cup {n}) = Cardinality(R) + 1
      /\ Nth(R \cup {n}, Cardinality(R) + 1) = n
      /\ \A k \in 1..Cardinality(R) : Nth(R \cup {n}, k) = Nth(R, k)
  <2>. HIDE DEF n
  <2>. QED
    BY <1>6, <1>7, NthAbove
<1>9. Stack(c)' = [k \in 1..Cardinality(R) + 1 |-> made'[Nth(R \cup {n}, k)].fun]
  <2>1. Registered(c)' = R \cup {n}
    BY <1>4 DEF R
  <2>2. Stack(c)' = [k \in 1..Cardinality(Registered(c)') |-> made'[Nth(Registered(c)', k)].fun]
    BY DEF Stack, Nth, Rank
  <2>. QED
    BY <1>8, <2>1, <2>2
<1>10. \A k \in 1..Cardinality(R) : made'[Nth(R \cup {n}, k)].fun = Stack(c)[k]
  <2>. SUFFICES ASSUME NEW k \in 1..Cardinality(R)
                PROVE  made'[Nth(R \cup {n}, k)].fun = Stack(c)[k]
    OBVIOUS
  <2>1. Nth(R, k) \in 1..Len(made)
    BY <1>6, NthTyped
  <2>2. Stack(c)[k] = made[Nth(R, k)].fun
    BY DEF Stack, R
  <2>. QED
    BY <1>2, <1>8, <2>1, <2>2
<1>11. made'[Nth(R \cup {n}, Cardinality(R) + 1)].fun = f
  BY <1>2, <1>8
<1>12. Stack(c)' = Append(Stack(c), f)
  <2>. DEFINE q == Cardinality(R)
              t == Stack(c)
              u == Stack(c)'
  <2>1. t \in Seq(Funs \cup {NullFun}) /\ Len(t) = q
    BY <1>1, StackTyped DEF R
  <2>2. u = [k \in 1..q + 1 |-> u[k]]
    BY <1>9
  <2>3. \A k \in 1..q : u[k] = t[k]
    <3>1. \A k \in 1..q : k \in 1..q + 1
      BY <1>6
    <3>. QED
      BY <3>1, <1>9, <1>10
  <2>4. u[q + 1] = f
    BY <1>6, <1>9, <1>11
  <2>5. q \in Nat
    BY <1>6
  <2>. HIDE DEF q, t, u
  <2>6. \A k \in 1..q : u[k] \in Funs \cup {NullFun}
    BY <2>1, <2>3
  <2>7. u \in Seq(Funs \cup {NullFun}) /\ Len(u) = q + 1
    <3>1. \A k \in 1..q + 1 : u[k] \in Funs \cup {NullFun}
      BY <2>4, <2>5, <2>6
    <3>2. q + 1 \in Nat
      BY <2>5
    <3>. QED
      BY <2>2, <3>1, <3>2
  <2>8. u = Append(t, f)
    BY <2>1, <2>3, <2>4, <2>5, <2>7
  <2>. QED
    BY <2>8 DEF t, u
<1>13. Bound' = [Bound EXCEPT ![c] = Append(@, f)]
  BY <1>5, <1>12 DEF Bound
<1>14. /\ PointerFun(nullH)' = PointerFun(nullH) /\ PointerFun(defaultH)' = PointerFun(defaultH)
       /\ FunOf(running)' = FunOf(running)
  <2>1. nullH \in 0..Len(made) /\ defaultH \in 0..Len(made) /\ running \in 0..Len(made)
    BY <1>1 DEF TypeOK
  <2>. QED
    BY <1>1, <1>2, <2>1, FunKept DEF FunOf, PointerFun
<1>. QED
  BY <1>1, <1>13, <1>14 DEF Table!Register, Bound

LEMMA RemoveSimulation ==
    ASSUME IInv, NEW c \in Cmds, RemoveCommand(c)
    PROVE  Table!Remove(c)
<1>. DEFINE m == Find(c)
            R == Registered(c)
            S == R \ {m}
<1>1. TypeOK /\ m # 0 /\ table' = table \ {m}
      /\ UNCHANGED <<made, nullH, defaultH, given, running, pc>>
  BY DEF IInv, RemoveCommand, calls, count, flow
<1>2. R \in SUBSET Nat /\ IsFiniteSet(R) /\ R \subseteq 1..Len(made) /\ Cardinality(R) \in Nat
  BY <1>1, RegisteredFinite
<1>3. m \in R /\ \A j \in R : j <= m
  <2>1. R # {}
    BY <1>1 DEF Find
  <2>. QED
    BY <1>1, <2>1, FindGreatest
<1>4. made[m].cmd = c
  BY <1>3 DEF Registered
<1>5. \A d \in Cmds : Registered(d)' = IF d = c THEN S ELSE Registered(d)
  BY <1>1, <1>4 DEF Registered
<1>6. \A d \in Cmds : d # c => Stack(d)' = Stack(d)
  BY <1>1, <1>5, StackKept
<1>7. S \in SUBSET Nat /\ IsFiniteSet(S) /\ R = S \cup {m} /\ m \in Nat
  BY <1>2, <1>3, FS_RemoveElement
<1>8. \A j \in S : j < m
  BY <1>2, <1>3
<1>. HIDE DEF m
<1>9. Stack(c)' = [k \in 1..Cardinality(S) |-> made[Nth(S, k)].fun]
  <2>1. Stack(c)' = [k \in 1..Cardinality(Registered(c)') |-> made'[Nth(Registered(c)', k)].fun]
    BY DEF Stack, Nth, Rank
  <2>. QED
    BY <1>1, <1>5, <2>1
<1>. HIDE DEF R, S
<1>10. /\ Cardinality(R) = Cardinality(S) + 1 /\ Cardinality(S) \in Nat
       /\ \A k \in 1..Cardinality(S) : Nth(R, k) = Nth(S, k)
  BY <1>7, <1>8, NthAbove, FS_CardinalityType
<1>11. Stack(c) = [k \in 1..Cardinality(S) + 1 |-> made[Nth(R, k)].fun]
  BY <1>10 DEF Stack, R
<1>12. /\ Stack(c) \in Seq(Funs \cup {NullFun}) /\ Len(Stack(c)) = Cardinality(S) + 1
  BY <1>1, <1>10, StackTyped DEF R
<1>13. \A k \in 1..Cardinality(S) : Stack(c)'[k] = Stack(c)[k]
  BY <1>9, <1>10, <1>11
<1>14. Stack(c)' = SubSeq(Stack(c), 1, Len(Stack(c)) - 1)
  <2>1. SubSeq(Stack(c), 1, Cardinality(S)) = [k \in 1..Cardinality(S) |-> Stack(c)[k]]
    BY <1>10, <1>12
  <2>2. Stack(c)' = [k \in 1..Cardinality(S) |-> Stack(c)[k]]
    BY <1>9, <1>13
  <2>3. Len(Stack(c)) - 1 = Cardinality(S)
    BY <1>10, <1>12
  <2>. QED
    BY <2>1, <2>2, <2>3
<1>15. Bound' = [Bound EXCEPT ![c] = SubSeq(@, 1, Len(@) - 1)]
  BY <1>6, <1>14 DEF Bound
<1>16. Bound[c] # <<>>
  BY <1>10, <1>12 DEF Bound
<1>. QED
  BY <1>1, <1>15, <1>16 DEF Table!Remove, Bound, FunOf, PointerFun

\* A new entry without a command, which is not put in the table.
LEMMA PointerSimulation ==
    ASSUME IInv, NEW f \in Funs \cup {NullFun}
    PROVE  /\ SetNullCmdHandler(f) => Table!SetNull(f)
           /\ SetDefaultCmdHandler(f) => Table!SetDefault(f)
<1>. SUFFICES ASSUME SetNullCmdHandler(f) \/ SetDefaultCmdHandler(f)
              PROVE  /\ SetNullCmdHandler(f) => Table!SetNull(f)
                     /\ SetDefaultCmdHandler(f) => Table!SetDefault(f)
  OBVIOUS
<1>1. /\ TypeOK /\ CreateHandler(NoCmd, f) /\ UNCHANGED <<table, given, running, pc>>
      /\ pc # "destroyed"
  BY DEF IInv, SetNullCmdHandler, SetDefaultCmdHandler, Calling, calls, count, flow
<1>2. /\ Len(made) \in Nat /\ Len(made') = Len(made) + 1
      /\ made'[Len(made')] = [cmd |-> NoCmd, fun |-> f]
      /\ \A i \in 1..Len(made) : made'[i] = made[i]
  BY <1>1, Created
<1>3. \A d \in Cmds : Registered(d)' = Registered(d)
  <2>1. \A i \in table : made'[i] = made[i]
    BY <1>1, <1>2 DEF TypeOK
  <2>. QED
    BY <1>1, <2>1 DEF Registered
<1>4. \A d \in Cmds : Stack(d)' = Stack(d)
  BY <1>1, <1>2, <1>3, StackKept
<1>5. Bound' = Bound
  BY <1>4 DEF Bound
<1>6. nullH \in 0..Len(made) /\ defaultH \in 0..Len(made) /\ running \in 0..Len(made)
  BY <1>1 DEF TypeOK
<1>7. FunOf(running)' = FunOf(running)
  BY <1>1, <1>2, <1>6, FunKept DEF FunOf
<1>8. ASSUME SetNullCmdHandler(f) PROVE Table!SetNull(f)
  <2>1. PointerFun(nullH)' = f
    BY <1>1, <1>2, <1>8 DEF PointerFun, SetNullCmdHandler, FunOf
  <2>2. PointerFun(defaultH)' = PointerFun(defaultH)
    BY <1>1, <1>2, <1>6, <1>8, FunKept DEF PointerFun, SetNullCmdHandler, FunOf
  <2>. QED
    BY <1>1, <1>5, <1>7, <2>1, <2>2 DEF Table!SetNull, Bound
<1>9. ASSUME SetDefaultCmdHandler(f) PROVE Table!SetDefault(f)
  <2>1. PointerFun(defaultH)' = f
    BY <1>1, <1>2, <1>9 DEF PointerFun, SetDefaultCmdHandler, FunOf
  <2>2. PointerFun(nullH)' = PointerFun(nullH)
    BY <1>1, <1>2, <1>6, <1>9, FunKept DEF PointerFun, SetDefaultCmdHandler, FunOf
  <2>. QED
    BY <1>1, <1>5, <1>7, <2>1, <2>2 DEF Table!SetDefault, Bound
<1>. QED
  BY <1>8, <1>9

LEMMA DestroySimulation ==
    ASSUME IInv, ContextDestroy
    PROVE  Table!Drop
<1>1. /\ table' = {} /\ pc' = "destroyed"
      /\ UNCHANGED <<made, given, running>>
  BY DEF ContextDestroy, flow, count
<1>2. \A d \in Cmds : Registered(d)' = {}
  BY <1>1 DEF Registered
<1>3. \A d \in Cmds : Stack(d)' = <<>>
  <2>. SUFFICES ASSUME NEW d \in Cmds PROVE Stack(d)' = <<>>
    OBVIOUS
  <2>1. Cardinality(Registered(d)') = 0
    BY <1>2, FS_EmptySet
  <2>2. Stack(d)' = [k \in 1..Cardinality(Registered(d)') |-> made'[Nth(Registered(d)', k)].fun]
    BY DEF Stack, Nth, Rank
  <2>. QED
    BY <2>1, <2>2
<1>. QED
  BY <1>1, <1>3 DEF Table!Drop, FunOf, PointerFun

\* BecoNext gives the request to the function the table answers with.
LEMMA DispatchSimulation ==
    ASSUME IInv, Dispatch
    PROVE  \E c \in Cmds \cup {NoCmd} : Table!Handle(c)
<1>1. TypeOK /\ cmd \in Cmds \cup {NoCmd} /\ NoCmd \notin Cmds
  BY NameAssumption DEF IInv, TypeOK
<1>2. /\ UNCHANGED entries /\ given' = given + 1 /\ running' = Target
      /\ pc # "destroyed" /\ pc' # "destroyed"
  BY DEF Dispatch
<1>3. FunOf(running)' = FunOf(Target)
  BY <1>2 DEF FunOf, entries
<1>4. nullH # 0 <=> PointerFun(nullH) # Unset
  <2>1. nullH \in 0..Len(made)
    BY <1>1 DEF TypeOK
  <2>2. nullH # 0 => nullH \in 1..Len(made)
    BY <1>1, <2>1 DEF TypeOK
  <2>. QED
    BY <1>1, <1>2, <2>2, EntryTyped, NameAssumption DEF FunOf, PointerFun
<1>5. FunOf(Target) = Table!Answering(cmd)
  <2>1. CASE cmd = NoCmd
    BY <1>2, <1>4, <2>1 DEF Target, Table!Answering, PointerFun
  <2>2. CASE cmd # NoCmd /\ Find(cmd) # 0
    <3>1. /\ Stack(cmd) # <<>>
          /\ FunOf(Find(cmd)) = Stack(cmd)[Len(Stack(cmd))]
      BY <1>1, <2>2, FindIsTop
    <3>. QED
      BY <1>1, <2>2, <3>1 DEF Target, Table!Answering
  <2>3. CASE cmd # NoCmd /\ Find(cmd) = 0
    <3>1. Stack(cmd) = <<>>
      BY <1>1, <2>3, FindIsTop
    <3>. QED
      BY <1>1, <1>2, <2>3, <3>1 DEF Target, Table!Answering, PointerFun
  <2>. QED
    BY <2>1, <2>2, <2>3
<1>6. /\ Bound' = Bound /\ PointerFun(nullH)' = PointerFun(nullH)
      /\ PointerFun(defaultH)' = PointerFun(defaultH)
  BY <1>1, <1>2, EntriesKept
<1>7. Table!Handle(cmd)
  BY <1>2, <1>3, <1>5, <1>6 DEF Table!Handle, Bound
<1>. QED
  BY <1>1, <1>7

LEMMA TableSimulation == IInv /\ [Next]_vars => [Table!Next]_(Table!vars)
<1>. SUFFICES ASSUME IInv, [Next]_vars PROVE Table!Next \/ UNCHANGED tvars
  BY DEF Table!vars, tvars, Bound
<1>1. CASE Api
  BY <1>1, RegisterSimulation, RemoveSimulation, PointerSimulation DEF Api, Table!Next
<1>2. CASE ContextDestroy
  BY <1>2, DestroySimulation DEF Table!Next
<1>3. CASE Dispatch
  BY <1>3, DispatchSimulation DEF Table!Next
<1>4. ASSUME UNCHANGED <<entries, given, running>>,
             (pc # "destroyed" /\ pc' # "destroyed") \/ pc' = pc
      PROVE  UNCHANGED tvars
  BY <1>4, EntriesKept DEF IInv, tvars, FunOf, entries
<1>5. CASE StartLoop \/ SendResponse \/ Environment
  BY <1>4, <1>5 DEF StartLoop, SendResponse, Environment, SetExit, PeerReceive, PeerClose,
                    PeerSend, flow, count
<1>6. CASE LoopSteps /\ ~ Dispatch
  BY <1>4, <1>6 DEF LoopSteps, LoopTop, ReadRequest, ReadFails, Sent, Killed, HandlerReturn,
                    LoopCheck, flow, count
<1>7. CASE UNCHANGED vars
  BY <1>4, <1>7 DEF vars, flow, count
<1>. QED
  BY <1>1, <1>2, <1>3, <1>5, <1>6, <1>7 DEF Next

-----------------------------------------------------------------------------
(* Theorems *)

THEOREM InductiveInvariant == Spec => []IInv
  BY InitIInv, NextIInv, PTL DEF Spec

\* For every value of the constants the state is well typed (BecoHost!TypeOK).
THEOREM TypeCorrect == Spec => []TypeOK
<1>1. IInv => TypeOK
  BY DEF IInv
<1>. QED
  BY <1>1, InductiveInvariant, PTL

\* For every value of the constants no pointer of a context in use leads to a
\* freed handler entry and only overwritten null and default entries stay
\* allocated besides; once it is destroyed these are all that is not freed.
THEOREM HeapIsExact == Spec => []HeapExact
<1>1. IInv => HeapExact
  BY DEF IInv
<1>. QED
  BY <1>1, InductiveInvariant, PTL

\* For every value of the constants at most one request is answered after
\* *exit became true, and none if the loop was at its test or in a handler.
THEOREM AtMostOneLate == Spec => []LateBound
<1>1. IInv => LateBound
  BY DEF IInv
<1>. QED
  BY <1>1, InductiveInvariant, PTL

\* For every value of the constants the handler entries, of which a context
\* keeps only pointers, implement a table of stacked functions: what a request
\* is given to, and what a registration covers and a removal uncovers.  The
\* number of entries ever made is free; TableAssumption bounds those in the
\* table at a time by the size at which uthash would turn a bucket around.
THEOREM TableRefinement == Spec => ImplementsTable
<1>1. Init => Table!Init
  <2>. SUFFICES ASSUME Init PROVE Table!Init
    OBVIOUS
  <2>1. \A c \in Cmds : Registered(c) = {}
    BY DEF Init, Registered
  <2>2. \A c \in Cmds : Stack(c) = <<>>
    <3>1. Cardinality({}) = 0
      BY FS_EmptySet
    <3>. QED
      BY <2>1, <3>1 DEF Stack
  <2>. QED
    BY <2>2 DEF Init, Table!Init, FunOf, PointerFun
<1>. QED
  BY <1>1, TableSimulation, InductiveInvariant, PTL DEF Spec, ImplementsTable, Table!Spec

=============================================================================
