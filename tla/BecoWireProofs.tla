--------------------------- MODULE BecoWireProofs ---------------------------
(***************************************************************************)
(* Proofs about BecoWire, for every value of its constants.                *)
(*                                                                         *)
(* FaithfulUntilTorn is not inductive: it says nothing of the bytes still  *)
(* under way.  IInv adds what does: the bytes of the stream are in order   *)
(* (Ordered) and, below the first torn frame, each byte is followed by its *)
(* successor (Chained); the writer stands at the end of that chain         *)
(* (WriterAt, WriterClean), the pipe cuts it no earlier than the first     *)
(* torn frame (PipeCut), and the reader stands in it at the boundary where *)
(* its next frame, or the body of it, begins (ReaderAt).                   *)
(***************************************************************************)
EXTENDS BecoWire, FiniteSetTheorems, SequenceTheorems, TLAPS

\* The byte that follows byte b in an untorn stream.
Succ(b) == IF b[2] < Total(b[1]) THEN <<b[1], b[2] + 1>> ELSE <<b[1] + 1, 1>>

Before(b, c) == b[1] < c[1] \/ (b[1] = c[1] /\ b[2] < c[2])

\* Every byte belongs to a frame that was begun.
Labelled == \A p \in 1..Len(log) :
                /\ log[p][1] \in 1..Len(sent)
                /\ log[p][2] \in 1..Total(log[p][1])

Ordered == \A p, q \in 1..Len(log) : p < q => Before(log[p], log[q])

Chained == \A p \in 1..Len(log) - 1 :
               Whole(Succ(log[p])[1]) => log[p + 1] = Succ(log[p])

Rooted == log # <<>> /\ Whole(1) => log[1] = <<1, 1>>

\* The frames accepted are within the limit.
Accepted == \A k \in 1..Len(sent) : Size[sent[k]] <= MaxSize

\* The last byte in the stdio buffer, or before it, is the last one put.
WriterAt ==
    wpc \in Busy =>
        /\ Len(sent) > 0
        /\ wpc = "header" => wn < HdrLen
        /\ wpc = "data" => wn \in HdrLen..Total(Len(sent))
        /\ wpc = "flush" => wn = Total(Len(sent))
        /\ IF wn > 0 THEN log # <<>> /\ log[Len(log)] = <<Len(sent), wn>>
                     ELSE log # <<>> => log[Len(log)][1] < Len(sent)

EndsAt(k) == IF log = <<>> THEN k = 0 ELSE log[Len(log)] = <<k, Total(k)>>

WriterClean ==
    bad = 0 =>
        /\ wpc \in {"idle", "closing"} => EndsAt(Len(sent)) /\ dr = Len(log)
        /\ wpc \in Busy /\ wn = 0 => EndsAt(Len(sent) - 1)

\* All frames before k have entered the pipe in full.
InPipeUpTo(k) == IF dr = 0 THEN k = 1 ELSE Succ(log[dr])[1] >= k

PipeCut ==
    /\ bad = 0 /\ wpc \in Busy => InPipeUpTo(Len(sent))
    /\ bad # 0 => InPipeUpTo(bad)

\* The reader has begun to read the header of frame k, or its body.
InHeaderOf(k) ==
    /\ rd - fr <= HdrLen
    /\ IF fr = 0 THEN k = 1 ELSE k > 1 /\ log[fr] = <<k - 1, Total(k - 1)>>
    /\ \A i \in 1 .. rd - fr : log[fr + i] = <<k, i>>

InBodyOf(k) ==
    /\ k <= Len(sent) /\ rfrm = k /\ rsize = Size[sent[k]]
    /\ rd - fr <= rsize
    /\ fr > 0 /\ log[fr] = <<k, HdrLen>>
    /\ \A i \in 1 .. rd - fr : log[fr + i] = <<k, HdrLen + i>>

ReaderAt ==
    Whole(Len(rcvd) + 1) =>
        /\ Len(rcvd) <= Len(sent)
        /\ rpc = "header" => InHeaderOf(Len(rcvd) + 1)
        /\ rpc = "body" => InBodyOf(Len(rcvd) + 1)

IInv ==
    /\ TypeOK /\ Labelled /\ Ordered /\ Chained /\ Rooted /\ Accepted
    /\ WriterAt /\ WriterClean /\ PipeCut /\ ReaderAt
    /\ FaithfulUntilTorn /\ AckedHasLeft

-----------------------------------------------------------------------------
(* Lemmas *)

\* A length within the limit survives its conversion to uint32_t (beco.c:374).
LEMMA LengthFits == \A s \in 0..MaxSize : s % Width = s
BY HeaderAssumption, LimitAssumption

\* What the type invariant says of the frames and of the bytes.
LEMMA Typed ==
    ASSUME TypeOK
    PROVE  /\ \A k \in 1..Len(sent) : /\ sent[k] \in Msgs
                                      /\ Size[sent[k]] \in Nat
                                      /\ Total(k) \in Nat /\ Total(k) >= HdrLen
           /\ \A p \in 1..Len(log) : /\ log[p][1] \in Nat /\ log[p][2] \in Nat
                                     /\ log[p] = <<log[p][1], log[p][2]>>
           /\ Len(sent) \in Nat /\ Len(log) \in Nat /\ Len(rcvd) \in Nat
           /\ HdrLen \in Nat /\ HdrLen > 0
<1>1. Len(sent) \in Nat /\ Len(log) \in Nat /\ Len(rcvd) \in Nat
  BY DEF TypeOK
<1>2. HdrLen \in Nat /\ HdrLen > 0
  BY HeaderAssumption
<1>3. ASSUME NEW k \in 1..Len(sent)
      PROVE  /\ sent[k] \in Msgs /\ Size[sent[k]] \in Nat
             /\ Total(k) \in Nat /\ Total(k) >= HdrLen
  <2>1. sent[k] \in Msgs
    BY DEF TypeOK
  <2>2. Size[sent[k]] \in Nat
    BY <2>1, SizeAssumption
  <2>. QED
    BY <2>1, <2>2, <1>2 DEF Total
<1>4. ASSUME NEW p \in 1..Len(log)
      PROVE  /\ log[p][1] \in Nat /\ log[p][2] \in Nat
             /\ log[p] = <<log[p][1], log[p][2]>>
  <2>1. log[p] \in Nat \X Nat
    BY DEF TypeOK
  <2>. QED
    BY <2>1
<1>. QED
  BY <1>1, <1>2, <1>3, <1>4

LEMMA SuccTyped ==
    ASSUME TypeOK, NEW p \in 1..Len(log)
    PROVE  /\ log[p][1] \in Nat /\ Succ(log[p])[1] \in Nat
           /\ Succ(log[p])[1] \in log[p][1] .. log[p][1] + 1
<1>1. log[p][1] \in Nat
  BY Typed
<1>2. Succ(log[p])[1] = log[p][1] \/ Succ(log[p])[1] = log[p][1] + 1
  BY DEF Succ
<1>. QED
  BY <1>1, <1>2

\* Along the stream the frame of the next byte never goes back.
LEMMA SuccMonotone ==
    ASSUME TypeOK, Labelled, Ordered,
           NEW p \in 1..Len(log), NEW q \in p..Len(log)
    PROVE  /\ log[p][1] <= log[q][1]
           /\ Succ(log[p])[1] <= Succ(log[q])[1]
           /\ log[q][1] <= Succ(log[q])[1]
<1>. p \in Nat /\ q \in 1..Len(log)
  BY Typed
<1>1. CASE p = q
  BY <1>1, Typed DEF Succ
<1>2. CASE p < q
  <2>1. Before(log[p], log[q])
    BY <1>2 DEF Ordered
  <2>2. /\ log[p][1] \in 1..Len(sent) /\ log[q][1] \in 1..Len(sent)
        /\ log[p][2] \in Nat /\ log[q][2] \in 1..Total(log[q][1])
    BY Typed DEF Labelled
  <2>3. Total(log[q][1]) \in Nat /\ Len(sent) \in Nat
    BY <2>2, Typed
  <2>4. CASE log[p][1] < log[q][1]
    BY <2>4, SuccTyped
  <2>5. CASE log[p][1] = log[q][1] /\ log[p][2] < log[q][2]
    <3>1. log[p][2] < Total(log[p][1])
      BY <2>2, <2>3, <2>5
    <3>. QED
      BY <2>2, <2>3, <2>5, <3>1 DEF Succ
  <2>. QED
    BY <2>1, <2>4, <2>5 DEF Before
<1>. QED
  BY <1>1, <1>2

\* What the writer does behind the pipe leaves the reader, the payloads it has
\* and the acknowledged frames as they were.
LEMMA WriterLeavesReader ==
    ASSUME IInv,
           UNCHANGED <<fr, rd, rvars, acked>>, dr' = dr \/ dr' = dr + 1,
           \A p \in 1..dr : log'[p] = log[p],
           Len(sent') \in Nat, Len(sent') >= Len(sent),
           \A k \in 1..Len(sent) : sent'[k] = sent[k],
           \A i \in Nat : Whole(i)' => Whole(i)
    PROVE  ReaderAt' /\ FaithfulUntilTorn' /\ AckedHasLeft'
<1>1. /\ TypeOK /\ Len(rcvd) \in Nat /\ Len(sent) \in Nat
      /\ dr \in Nat /\ fr \in 0..dr /\ rd \in fr..dr
  BY Typed DEF IInv, TypeOK
<1>2. UNCHANGED <<fr, rd, rpc, rfrm, rsize, rcvd, acked>>
  BY DEF rvars
<1>3. /\ fr > 0 => log'[fr] = log[fr]
      /\ \A i \in 1 .. rd - fr : log'[fr + i] = log[fr + i]
  BY <1>1
<1>4. \A k \in 1..Len(sent) : Total(k)' = Total(k)
  BY DEF Total
<1>5. ReaderAt'
  <2>1. ASSUME NEW k \in 1..Len(sent) + 1, InHeaderOf(k)
        PROVE  InHeaderOf(k)'
    <3>1. fr = 0 => k = 1
      BY <2>1 DEF InHeaderOf
    <3>2. fr # 0 => k > 1 /\ log'[fr] = <<k - 1, Total(k - 1)>>
      BY <2>1, <1>1, <1>3 DEF InHeaderOf
    <3>3. fr # 0 => Total(k - 1)' = Total(k - 1)
      BY <2>1, <3>2, <1>1, <1>4
    <3>4. /\ \A i \in 1 .. rd - fr : log'[fr + i] = <<k, i>>
          /\ rd - fr <= HdrLen
      BY <2>1, <1>3 DEF InHeaderOf
    <3>. QED
      BY <3>1, <3>2, <3>3, <3>4, <1>2 DEF InHeaderOf
  <2>2. ASSUME NEW k \in 1..Len(sent) + 1, InBodyOf(k)
        PROVE  InBodyOf(k)'
    <3>1. /\ k \in 1..Len(sent) /\ k <= Len(sent')
      BY <2>2, <1>1 DEF InBodyOf
    <3>2. sent'[k] = sent[k]
      BY <3>1
    <3>. QED
      BY <2>2, <3>1, <3>2, <1>1, <1>2, <1>3 DEF InBodyOf
  <2>3. SUFFICES ASSUME Whole(Len(rcvd) + 1)'
                 PROVE  /\ Len(rcvd) <= Len(sent')
                        /\ rpc = "header" => InHeaderOf(Len(rcvd) + 1)'
                        /\ rpc = "body" => InBodyOf(Len(rcvd) + 1)'
    BY <1>2 DEF ReaderAt, Whole
  <2>4. Whole(Len(rcvd) + 1)
    BY <2>3, <1>2 DEF Whole
  <2>5. ReaderAt /\ Len(rcvd) + 1 \in 1..Len(sent) + 1
    BY <2>4, <1>1 DEF IInv, ReaderAt
  <2>. QED
    BY <2>1, <2>2, <2>4, <2>5, <1>1, <1>2 DEF ReaderAt
<1>6. FaithfulUntilTorn'
  BY <1>1, <1>2 DEF IInv, FaithfulUntilTorn
<1>7. AckedHasLeft'
  <2>1. ASSUME NEW k \in acked
        PROVE  \E p \in 1..dr' : log'[p] = <<k, Total(k)'>>
    <3>1. PICK p \in 1..dr : log[p] = <<k, Total(k)>>
      BY <2>1 DEF IInv, AckedHasLeft
    <3>2. k \in 1..Len(sent)
      BY <1>1 DEF TypeOK
    <3>3. p \in 1..dr'
      BY <1>1
    <3>. QED
      BY <3>1, <3>2, <3>3, <1>4
  <2>. QED
    BY <2>1, <1>2 DEF AckedHasLeft
<1>. QED
  BY <1>5, <1>6, <1>7

\* Cutting bytes off the end of the stream, and beginning another frame, keep
\* the order of the bytes.
LEMMA StreamShrinks ==
    ASSUME IInv,
           Len(log') \in 0..Len(log), log' \in Seq(Nat \X Nat),
           \A p \in 1..Len(log') : log'[p] = log[p],
           Len(sent') \in Nat, Len(sent') >= Len(sent),
           \A k \in 1..Len(sent) : sent'[k] = sent[k],
           \A i \in Nat : Whole(i)' => Whole(i)
    PROVE  Labelled' /\ Ordered' /\ Chained' /\ Rooted'
<1>1. TypeOK /\ Len(log) \in Nat /\ Len(sent) \in Nat
  BY Typed DEF IInv
<1>2. \A p \in 1..Len(log') : p \in 1..Len(log)
  BY <1>1
<1>3. \A k \in 1..Len(sent) : Total(k)' = Total(k)
  BY DEF Total
<1>4. ASSUME NEW p \in 1..Len(log')
      PROVE  /\ log'[p][1] \in 1..Len(sent)
             /\ log'[p][2] \in 1..Total(log[p][1])'
  <2>1. log'[p] = log[p] /\ p \in 1..Len(log)
    BY <1>2
  <2>2. /\ log[p][1] \in 1..Len(sent)
        /\ log[p][2] \in 1..Total(log[p][1])
    BY <2>1 DEF IInv, Labelled
  <2>. QED
    BY <2>1, <2>2 DEF Total
<1>5. Labelled'
  BY <1>1, <1>4 DEF Labelled
<1>6. Ordered'
  BY <1>2 DEF IInv, Ordered
<1>7. \A p \in 1..Len(log') : Succ(log[p])' = Succ(log[p])
  BY <1>2, <1>4 DEF Succ, Total
<1>8. Chained'
  <2>1. ASSUME NEW p \in 1..Len(log') - 1, Whole(Succ(log[p])[1])'
        PROVE  log'[p + 1] = Succ(log[p])'
    <3>1. p \in 1..Len(log') /\ p + 1 \in 1..Len(log') /\ p \in 1..Len(log) - 1
      BY <1>1
    <3>2. Succ(log[p])[1] \in Nat
      BY <1>1, <1>2, <3>1, SuccTyped
    <3>3. PICK i \in Nat : i = Succ(log[p])[1]
      BY <3>2
    <3>4. Whole(i)'
      BY <2>1, <3>1, <3>3, <1>7 DEF Whole
    <3>5. Whole(Succ(log[p])[1])
      BY <3>3, <3>4
    <3>. QED
      BY <3>1, <3>5, <1>7 DEF IInv, Chained
  <2>. QED
    BY <2>1 DEF Chained
<1>9. Rooted'
  BY <1>1, <1>2 DEF IInv, Rooted
<1>. QED
  BY <1>5, <1>6, <1>8, <1>9

\* fwrite adds the next byte of the frame being written to the buffer.
LEMMA PutStep ==
    ASSUME IInv, PutHeader \/ PutData
    PROVE  IInv'
<1> DEFINE N == Len(sent)
           L == Len(log)
           b == <<N, wn + 1>>
<1>1. /\ wpc \in {"header", "data"} /\ wpc' \in {"header", "data"}
      /\ log' = Append(log, b) /\ wn' = wn + 1
      /\ UNCHANGED <<wres, sent, acked, fr, rd, dr, rvars, bad>>
  BY DEF PutHeader, PutData, Put
<1>2. /\ TypeOK /\ N > 0 /\ N \in Nat /\ L \in Nat /\ wn \in Nat
      /\ \A k \in 1..N : Total(k) \in Nat /\ Total(k) >= HdrLen
      /\ HdrLen \in Nat /\ HdrLen > 0
  BY <1>1, Typed DEF IInv, WriterAt, Busy, TypeOK
<1>3. /\ Len(log') = L + 1 /\ log'[L + 1] = b
      /\ \A p \in 1..L : log'[p] = log[p]
      /\ log' \in Seq(Nat \X Nat) /\ log' # <<>>
  <2>1. b \in Nat \X Nat /\ log \in Seq(Nat \X Nat)
    BY <1>2 DEF TypeOK
  <2>. QED
    BY <1>1, <1>2, <2>1, AppendProperties, SMTT(20)
<1>4. wn + 1 \in 1..Total(N)
  <2>1. N \in 1..N /\ WriterAt
    BY <1>2 DEF IInv
  <2>2. CASE PutHeader
    BY <2>1, <2>2, <1>2 DEF WriterAt, PutHeader, Busy
  <2>3. CASE PutData
    BY <2>3, <1>2 DEF PutData
  <2>. QED
    BY <2>2, <2>3
<1>5. \A k : Total(k)' = Total(k) /\ Whole(k)' = Whole(k)
  BY <1>1 DEF Total, Whole
<1>6. TypeOK'
  <2>1. dr \in rd..Len(log') /\ wn' \in Nat /\ wpc' \in Busy
    BY <1>1, <1>2, <1>3 DEF TypeOK, Busy
  <2>2. UNCHANGED <<wres, sent, acked, fr, rd, dr, rpc, rsize, rfrm, rres, rcvd, bad>>
    BY <1>1 DEF rvars
  <2>. QED
    BY <2>1, <2>2, <1>2, <1>3, SMTT(20) DEF TypeOK
<1>7. Labelled'
  BY <1>1, <1>2, <1>3, <1>4, <1>5 DEF IInv, Labelled
<1>8. ASSUME NEW p \in 1..L
      PROVE  Before(log[p], b)
  <2>1. /\ L \in 1..L /\ log # <<>>
        /\ log[p][1] \in Nat /\ log[p][2] \in Nat
        /\ log[L][1] \in Nat /\ log[L][2] \in Nat
    BY <1>2, Typed
  <2>2. p = L \/ Before(log[p], log[L])
    BY <2>1, <1>2 DEF IInv, Ordered
  <2>3. IF wn > 0 THEN log[L][1] = N /\ log[L][2] = wn ELSE log[L][1] < N
    BY <2>1, <1>1 DEF IInv, WriterAt, Busy
  <2>4. b[1] = N /\ b[2] = wn + 1
    OBVIOUS
  <2>. QED
    BY <2>1, <2>2, <2>3, <2>4, <1>2 DEF Before
<1>9. Ordered'
  <2>1. SUFFICES ASSUME NEW p \in 1..L + 1, NEW q \in 1..L + 1, p < q
                 PROVE  Before(log'[p], log'[q])
    BY <1>2, <1>3 DEF Ordered
  <2>2. p \in 1..L
    BY <1>2, <2>1
  <2>3. CASE q = L + 1
    BY <2>2, <2>3, <1>3, <1>8
  <2>4. CASE q \in 1..L
    BY <2>1, <2>2, <2>4, <1>3 DEF IInv, Ordered
  <2>. QED
    BY <2>3, <2>4, <1>2
<1>10. ASSUME L > 0, Whole(Succ(log[L])[1])
       PROVE  b = Succ(log[L])
  <2>1. /\ L \in 1..L /\ log # <<>>
        /\ log[L] = <<log[L][1], log[L][2]>>
        /\ log[L][1] \in 1..N /\ log[L][2] \in 1..Total(log[L][1])
    BY <1>2, <1>10, Typed DEF IInv, Labelled
  <2>2. CASE wn > 0
    <3>1. log[L] = <<N, wn>>
      BY <2>1, <2>2, <1>1 DEF IInv, WriterAt, Busy
    <3>. QED
      BY <3>1, <1>2, <1>4 DEF Succ
  <2>3. CASE wn = 0 /\ bad = 0
    <3>1. log[L] = <<N - 1, Total(N - 1)>>
      BY <2>1, <2>3, <1>1 DEF IInv, WriterClean, EndsAt, Busy
    <3>. QED
      BY <3>1, <2>3, <2>1, <1>2 DEF Succ
  <2>4. CASE bad # 0
    <3>1. InPipeUpTo(bad) /\ bad \in Nat /\ dr \in 0..L
      BY <2>4, <1>2 DEF IInv, PipeCut, TypeOK
    <3>2. dr = 0 => ~ Whole(Succ(log[L])[1])
      BY <3>1, <2>1, <2>4, <1>2 DEF InPipeUpTo, Whole, Succ
    <3>3. dr > 0 => Succ(log[dr])[1] <= Succ(log[L])[1]
      BY <3>1, <1>2, SuccMonotone DEF IInv
    <3>4. dr > 0 => Succ(log[dr])[1] \in Nat /\ Succ(log[L])[1] \in Nat
      BY <3>1, <1>2, Typed DEF Succ
    <3>. QED
      BY <3>1, <3>2, <3>3, <3>4, <2>4, <1>10 DEF InPipeUpTo, Whole
  <2>. QED
    BY <2>2, <2>3, <2>4, <1>2
<1>11. Chained'
  <2>1. ASSUME NEW p \in 1..L, Whole(Succ(log[p])[1])
        PROVE  log'[p + 1] = Succ(log[p])
    <3>1. CASE p = L
      BY <2>1, <3>1, <1>2, <1>3, <1>10
    <3>2. CASE p # L
      <4>. p \in 1..L - 1 /\ p + 1 \in 1..L
        BY <3>2, <1>2
      <4>. QED
        BY <2>1, <1>3 DEF IInv, Chained
    <3>. QED
      BY <3>1, <3>2
  <2>2. Len(log') - 1 = L
    BY <1>2, <1>3
  <2>. QED
    BY <2>1, <2>2, <1>1, <1>3 DEF Chained, Whole, Succ, Total
<1>12. Rooted'
  <2>1. CASE L > 0
    <3>1. log # <<>> /\ 1 \in 1..L /\ log'[1] = log[1]
      BY <2>1, <1>2, <1>3
    <3>. QED
      BY <3>1, <1>1 DEF IInv, Rooted, Whole
  <2>2. CASE L = 0
    <3>1. log = <<>> /\ dr = 0 /\ wn = 0
      BY <2>2, <1>1, <1>2 DEF IInv, WriterAt, Busy, TypeOK
    <3>2. Whole(1) => bad = 0
      <4>1. bad # 0 => InPipeUpTo(bad)
        BY DEF IInv, PipeCut
      <4>2. bad # 0 => bad = 1
        BY <4>1, <3>1 DEF InPipeUpTo
      <4>. QED
        BY <4>2 DEF Whole
    <3>3. bad = 0 => N = 1
      BY <3>1, <1>1, <1>2 DEF IInv, WriterClean, EndsAt, Busy
    <3>. QED
      BY <3>1, <3>2, <3>3, <2>2, <1>3, <1>5 DEF Rooted
  <2>. QED
    BY <2>1, <2>2, <1>2
<1>13. Accepted' /\ WriterAt'
  <2>1. Accepted'
    BY <1>1 DEF IInv, Accepted
  <2>2. wn' > 0 /\ log'[Len(log')] = <<N, wn'>>
    BY <1>1, <1>2, <1>3
  <2>3. /\ wpc' = "header" => wn' < HdrLen
        /\ wpc' = "data" => wn' \in HdrLen..Total(N)
    <3>1. WriterAt /\ N \in 1..N
      BY <1>2 DEF IInv
    <3>2. CASE PutHeader
      BY <3>1, <3>2, <1>2, <1>4 DEF PutHeader, Put, WriterAt, Busy
    <3>3. CASE PutData
      BY <3>1, <3>3, <1>2, <1>4 DEF PutData, Put, WriterAt, Busy
    <3>. QED
      BY <3>2, <3>3
  <2>4. WriterAt'
    BY <2>2, <2>3, <1>1, <1>2, <1>3 DEF WriterAt, Total
  <2>. QED
    BY <2>1, <2>4
<1>14. WriterClean' /\ PipeCut'
  <2>1. WriterClean'
    BY <1>1, <1>2 DEF WriterClean
  <2>2. dr \in 0..L
    BY <1>2 DEF TypeOK
  <2>3. \A k : InPipeUpTo(k)' = InPipeUpTo(k)
    BY <2>2, <1>1, <1>3, <1>5 DEF InPipeUpTo, Succ
  <2>. QED
    BY <2>1, <2>3, <1>1 DEF IInv, PipeCut, Busy
<1>15. ReaderAt' /\ FaithfulUntilTorn' /\ AckedHasLeft'
  <2>1. dr \in 0..L
    BY <1>2 DEF TypeOK
  <2>. QED
    BY <2>1, <1>1, <1>2, <1>3, <1>5, WriterLeavesReader DEF IInv
<1>. QED
  BY <1>6, <1>7, <1>9, <1>11, <1>12, <1>13, <1>14, <1>15 DEF IInv

\* A call refused, a step between two calls of stdio, a close begun or ended.
LEMMA QuietStep ==
    ASSUME IInv, (\E m \in Msgs : Refuse(m)) \/ DataWritten \/ StartClose \/ Closed
    PROVE  IInv'
<1>1. /\ UNCHANGED <<wn, sent, acked, log, fr, rd, dr, rvars, bad>>
      /\ \/ wpc' = wpc
         \/ wpc = "data" /\ wn = Total(Len(sent)) /\ wpc' = "flush"
         \/ wpc = "idle" /\ wpc' = "closing"
         \/ wpc = "closing" /\ wpc' = "closed"
      /\ wres' \in {"NULL", "OVERFLOW"} \/ wres' = wres
  BY DEF Refuse, DataWritten, StartClose, Closed
<1>2. TypeOK
  BY DEF IInv
<1>3. TypeOK'
  BY <1>1, <1>2 DEF TypeOK, rvars, Busy
<1>4. /\ Len(log) \in Nat /\ Len(sent) \in Nat /\ log \in Seq(Nat \X Nat)
      /\ \A i \in Nat : Whole(i)' => Whole(i)
  BY <1>1, <1>2, Typed DEF TypeOK, Whole
<1>5. Labelled' /\ Ordered' /\ Chained' /\ Rooted'
  <2>. log' = log /\ sent' = sent
    BY <1>1
  <2>. QED
    BY <1>4, StreamShrinks
<1>6. ReaderAt' /\ FaithfulUntilTorn' /\ AckedHasLeft'
  BY <1>1, <1>4, WriterLeavesReader
<1>7. Accepted'
  BY <1>1 DEF IInv, Accepted
<1>8. WriterAt'
  BY <1>1 DEF IInv, WriterAt, Busy, Total
<1>9. WriterClean'
  BY <1>1 DEF IInv, WriterClean, EndsAt, Total, Busy
<1>10. PipeCut'
  BY <1>1 DEF IInv, PipeCut, InPipeUpTo, Succ, Total, Busy
<1>. QED
  BY <1>3, <1>5, <1>6, <1>7, <1>8, <1>9, <1>10 DEF IInv

\* BecoWriteRaw accepts another frame.
LEMMA StartWriteStep ==
    ASSUME IInv, NEW m \in Msgs, StartWrite(m)
    PROVE  IInv'
<1> DEFINE N == Len(sent)
<1>1. /\ wpc = "idle" /\ wpc' = "header" /\ wn' = 0 /\ wres' = "none"
      /\ sent' = Append(sent, m) /\ ~ TooBig(m) /\ N < MaxWrites
      /\ UNCHANGED <<acked, log, fr, rd, dr, rvars, bad>>
  BY DEF StartWrite
<1>2. /\ TypeOK /\ N \in Nat /\ Len(log) \in Nat /\ log \in Seq(Nat \X Nat)
      /\ HdrLen \in Nat /\ HdrLen > 0 /\ dr \in 0..Len(log)
  BY Typed DEF IInv, TypeOK
<1>3. /\ Len(sent') = N + 1 /\ sent'[N + 1] = m
      /\ \A k \in 1..N : sent'[k] = sent[k]
      /\ sent' \in Seq(Msgs)
  BY <1>1, <1>2 DEF TypeOK
<1>4. \A i \in Nat : Whole(i)' => Whole(i)
  BY <1>1 DEF Whole
<1>5. TypeOK'
  <2>1. UNCHANGED <<acked, log, fr, rd, dr, rpc, rsize, rfrm, rres, rcvd, bad>>
    BY <1>1 DEF rvars
  <2>2. N + 1 <= MaxWrites
    BY <1>1, <1>2, PipeAssumption
  <2>3. acked' \subseteq 1..N + 1 /\ rfrm' \in 0..N + 1 /\ bad' \in 0..N + 1
    BY <2>1, <1>2 DEF TypeOK
  <2>4. wpc' \in Busy /\ wn' \in Nat /\ wres' = "none"
    BY <1>1 DEF Busy
  <2>5. /\ log \in Seq(Nat \X Nat) /\ dr - rd <= PipeCap
        /\ fr \in Nat /\ rd \in fr..dr /\ dr \in rd..Len(log)
        /\ rpc \in {"header", "body", "eof"} /\ rsize \in Nat
        /\ rres \in {"none", "OK", "IO"} /\ rcvd \in Seq(Msgs \cup {Garbled})
    BY <1>2 DEF TypeOK
  <2>. QED
    BY <2>1, <2>2, <2>3, <2>4, <2>5, <1>3 DEF TypeOK
<1>6. Labelled' /\ Ordered' /\ Chained' /\ Rooted'
  BY <1>1, <1>2, <1>3, <1>4, StreamShrinks
<1>7. ReaderAt' /\ FaithfulUntilTorn' /\ AckedHasLeft'
  BY <1>1, <1>2, <1>3, <1>4, WriterLeavesReader
<1>8. Accepted'
  <2>1. Size[m] <= MaxSize
    BY <1>1, SizeAssumption, LimitAssumption DEF TooBig
  <2>2. \A k \in 1..N + 1 : k \in 1..N \/ k = N + 1
    BY <1>2
  <2>. QED
    BY <2>1, <2>2, <1>3 DEF IInv, Accepted
<1>9. WriterAt'
  <2>1. log # <<>> => Len(log) \in 1..Len(log) /\ log[Len(log)][1] \in 1..N
    BY <1>2 DEF IInv, Labelled
  <2>. QED
    BY <2>1, <1>1, <1>2, <1>3 DEF WriterAt, Busy
<1>10. WriterClean'
  <2>1. CASE bad # 0
    BY <2>1, <1>1 DEF WriterClean
  <2>2. CASE bad = 0
    <3>1. EndsAt(Len(sent)) /\ dr = Len(log)
      BY <2>2, <1>1 DEF IInv, WriterClean
    <3>2. PICK n \in Nat : n = Len(sent)
      BY <1>2
    <3>3. log # <<>> => n \in 1..N
      BY <3>2, <1>2 DEF IInv, Labelled
    <3>4. log # <<>> => Total(n)' = Total(n)
      BY <3>2, <3>3, <1>3 DEF Total
    <3>5. EndsAt(n)'
      BY <3>1, <3>2, <3>4, <1>1 DEF EndsAt
    <3>6. Len(sent') - 1 = n
      BY <3>2, <1>2, <1>3
    <3>. QED
      BY <3>5, <3>6, <1>1 DEF WriterClean, Busy
  <2>. QED
    BY <2>1, <2>2
<1>11. PipeCut'
  <2>1. dr > 0 => Succ(log[dr])' = Succ(log[dr])
    <3>1. dr > 0 => log[dr][1] \in 1..N
      BY <1>2 DEF IInv, Labelled
    <3>. QED
      BY <3>1, <1>1, <1>3 DEF Succ, Total
  <2>2. CASE bad # 0
    BY <2>1, <2>2, <1>1, <1>2 DEF IInv, PipeCut, InPipeUpTo
  <2>3. CASE bad = 0
    <3>1. EndsAt(N) /\ dr = Len(log)
      BY <2>3, <1>1 DEF IInv, WriterClean
    <3>2. dr > 0 => log[dr] = <<N, Total(N)>> /\ Succ(log[dr])[1] = N + 1
      BY <3>1, <1>2 DEF EndsAt, Succ
    <3>3. dr = 0 => N = 0
      BY <3>1, <1>2, EmptySeq DEF EndsAt
    <3>. QED
      BY <2>1, <2>3, <3>2, <3>3, <1>1, <1>2, <1>3 DEF PipeCut, InPipeUpTo
  <2>. QED
    BY <2>2, <2>3
<1>. QED
  BY <1>5, <1>6, <1>7, <1>8, <1>9, <1>10, <1>11 DEF IInv

\* A byte goes from the stdio buffer to the pipe.
LEMMA DrainStep ==
    ASSUME IInv, Drain
    PROVE  IInv'
<1>1. /\ wpc \in Busy \cup {"closing"} /\ dr < Len(log) /\ dr - rd < PipeCap
      /\ dr' = dr + 1
      /\ UNCHANGED <<wpc, wn, wres, sent, acked, log, fr, rd, rvars, bad>>
  BY DEF Drain, wvars
<1>2. /\ TypeOK /\ Len(sent) \in Nat /\ Len(log) \in Nat /\ bad \in Nat
      /\ log \in Seq(Nat \X Nat) /\ dr \in Nat /\ rd \in Nat /\ rd <= dr
  BY Typed DEF IInv, TypeOK
<1>3. TypeOK'
  <2>1. rd \in fr..dr' /\ dr' \in rd..Len(log) /\ dr' - rd <= PipeCap
    BY <1>1, <1>2, PipeAssumption DEF TypeOK
  <2>. QED
    BY <2>1, <1>1, <1>2 DEF TypeOK, rvars
<1>4. \A i \in Nat : Whole(i)' => Whole(i)
  BY <1>1 DEF Whole
<1>5. Labelled' /\ Ordered' /\ Chained' /\ Rooted'
  <2>. log' = log /\ sent' = sent
    BY <1>1
  <2>. QED
    BY <1>2, <1>4, StreamShrinks
<1>6. ReaderAt' /\ FaithfulUntilTorn' /\ AckedHasLeft'
  BY <1>1, <1>2, <1>4, WriterLeavesReader
<1>7. Accepted' /\ WriterAt'
  BY <1>1 DEF IInv, Accepted, WriterAt, Total
<1>8. WriterClean'
  BY <1>1, <1>2 DEF IInv, WriterClean, EndsAt, Total, Busy
<1>9. ASSUME NEW k \in Nat, InPipeUpTo(k), k > 0
      PROVE  InPipeUpTo(k)'
  <2>1. dr + 1 \in 1..Len(log)
    BY <1>1, <1>2
  <2>2. /\ Succ(log[dr + 1])[1] \in Nat /\ Succ(log[dr + 1])[1] > 0
    <3>1. log[dr + 1][1] \in 1..Len(sent)
      BY <2>1 DEF IInv, Labelled
    <3>. QED
      BY <2>1, <3>1, <1>2, SuccTyped
  <2>3. CASE dr = 0
    BY <2>2, <2>3, <1>1, <1>9 DEF InPipeUpTo, Succ, Total
  <2>4. CASE dr > 0
    <3>1. dr \in 1..Len(log) /\ dr + 1 \in dr..Len(log)
      BY <2>4, <1>1, <1>2
    <3>2. Succ(log[dr])[1] <= Succ(log[dr + 1])[1]
      BY <3>1, <1>2, SuccMonotone DEF IInv
    <3>3. Succ(log[dr])[1] \in Nat /\ Succ(log[dr])[1] >= k
      <4>1. Succ(log[dr])[1] >= k
        BY <2>4, <1>2, <1>9 DEF InPipeUpTo
      <4>. QED
        BY <4>1, <3>1, <1>2, SuccTyped
    <3>4. Succ(log[dr + 1])[1] >= k
      BY <3>2, <3>3, <2>2
    <3>. QED
      BY <3>4, <1>1, <1>2 DEF InPipeUpTo, Succ, Total
  <2>. QED
    BY <2>3, <2>4, <1>2
<1>10. PipeCut'
  <2>1. bad # 0 => InPipeUpTo(bad)'
    <3>. PICK k \in Nat : k = bad
      BY <1>2
    <3>. QED
      BY <1>1, <1>9 DEF IInv, PipeCut, InPipeUpTo
  <2>2. bad = 0 /\ wpc \in Busy => InPipeUpTo(Len(sent))'
    <3>1. wpc \in Busy => Len(sent) > 0
      BY DEF IInv, WriterAt
    <3>. PICK k \in Nat : k = Len(sent)
      BY <1>2
    <3>. QED
      BY <3>1, <1>1, <1>9 DEF IInv, PipeCut, InPipeUpTo
  <2>. QED
    BY <2>1, <2>2, <1>1 DEF PipeCut
<1>. QED
  BY <1>3, <1>5, <1>6, <1>7, <1>8, <1>10 DEF IInv

\* BecoWriteRaw returns OK: fflush has emptied the buffer.
LEMMA FlushedStep ==
    ASSUME IInv, Flushed
    PROVE  IInv'
<1> DEFINE N == Len(sent)
<1>1. /\ wpc = "flush" /\ dr = Len(log) /\ wpc' = "idle" /\ wres' = "OK"
      /\ acked' = acked \cup {N}
      /\ UNCHANGED <<wn, sent, log, fr, rd, dr, rvars, bad>>
  BY DEF Flushed
<1>2. /\ TypeOK /\ N \in Nat /\ N > 0 /\ Len(log) \in Nat /\ HdrLen > 0
      /\ log \in Seq(Nat \X Nat) /\ dr \in Nat /\ wn = Total(N)
      /\ Total(N) \in Nat /\ Total(N) > 0
  <2>1. TypeOK
    BY DEF IInv
  <2>2. log \in Seq(Nat \X Nat) /\ dr \in Nat
    BY <2>1 DEF TypeOK
  <2>3. N > 0 /\ wn = Total(N)
    BY <1>1 DEF IInv, WriterAt, Busy
  <2>. QED
    BY <2>1, <2>2, <2>3, Typed
<1>3. TypeOK'
  <2>1. acked' \subseteq 1..N
    <3>1. acked \subseteq 1..N /\ N \in 1..N
      BY <1>2 DEF TypeOK
    <3>. QED
      BY <3>1, <1>1
  <2>. QED
    BY <2>1, <1>1, <1>2 DEF TypeOK, rvars
<1>4. log # <<>> /\ log[dr] = <<N, Total(N)>> /\ dr > 0
  BY <1>1, <1>2, EmptySeq DEF IInv, WriterAt, Busy
<1>5. Labelled' /\ Ordered' /\ Chained' /\ Rooted'
  <2>. log' = log /\ sent' = sent /\ \A i \in Nat : Whole(i)' => Whole(i)
    BY <1>1 DEF Whole
  <2>. QED
    BY <1>2, StreamShrinks
<1>6. AckedHasLeft'
  <2>1. ASSUME NEW k \in acked \cup {N}
        PROVE  \E p \in 1..dr : log[p] = <<k, Total(k)>>
    <3>1. CASE k \in acked
      BY <3>1 DEF IInv, AckedHasLeft
    <3>2. CASE k = N
      <4>. dr \in 1..dr
        BY <1>2, <1>4
      <4>. QED
        BY <3>2, <1>4
    <3>. QED
      BY <3>1, <3>2
  <2>. QED
    BY <2>1, <1>1 DEF AckedHasLeft, Total
<1>7. ReaderAt' /\ FaithfulUntilTorn'
  BY <1>1 DEF IInv, ReaderAt, InHeaderOf, InBodyOf, FaithfulUntilTorn, rvars,
              Whole, Total
<1>8. Accepted' /\ WriterAt'
  BY <1>1 DEF IInv, Accepted, WriterAt, Busy
<1>9. WriterClean'
  BY <1>1, <1>4 DEF WriterClean, EndsAt, Total, Busy
<1>10. PipeCut'
  BY <1>1 DEF IInv, PipeCut, InPipeUpTo, Succ, Total, Busy
<1>. QED
  BY <1>3, <1>5, <1>6, <1>7, <1>8, <1>9, <1>10 DEF IInv

\* The buffer is cut: by a failed write, or with the process that owned it.
LEMMA CutStep ==
    ASSUME IInv, WriteFault \/ Crash
    PROVE  IInv'
<1> DEFINE N == Len(sent)
<1>1. /\ TypeOK /\ N \in Nat /\ Len(log) \in Nat /\ bad \in 0..N
      /\ log \in Seq(Nat \X Nat) /\ dr \in 0..Len(log)
  BY Typed DEF IInv, TypeOK
<1>2. PICK kept \in dr..Len(log) : log' = SubSeq(log, 1, kept)
  BY <1>1 DEF WriteFault, Crash
<1>3. /\ UNCHANGED <<wn, sent, acked, fr, rd, dr, rvars>>
      /\ \/ /\ wpc' = "idle" /\ wres' = "IO" /\ wpc \in Busy
            /\ bad' = IF bad = 0 \/ N < bad THEN N ELSE bad
         \/ wpc' = "closed" /\ wres' = wres /\ bad' = bad
  BY DEF WriteFault, Crash, Torn
<1>4. /\ Len(log') = kept /\ log' \in Seq(Nat \X Nat)
      /\ \A p \in 1..kept : log'[p] = log[p]
  <2>. kept \in Nat /\ kept <= Len(log)
    BY <1>1
  <2>. QED
    BY <1>1, <1>2, SubSeqProperties, SMTT(20)
<1>5. wpc \in Busy => N > 0
  BY DEF IInv, WriterAt
<1>6. bad' \in 0..N /\ \A i \in Nat : Whole(i)' => Whole(i)
  BY <1>1, <1>3, <1>5 DEF Whole
<1>7. TypeOK'
  <2>1. rd \in fr..dr /\ dr \in rd..Len(log')
    BY <1>1, <1>4 DEF TypeOK
  <2>. QED
    BY <2>1, <1>1, <1>3, <1>4, <1>6 DEF TypeOK, rvars, Busy
<1>8. Labelled' /\ Ordered' /\ Chained' /\ Rooted'
  BY <1>1, <1>3, <1>4, <1>6, StreamShrinks
<1>9. ReaderAt' /\ FaithfulUntilTorn' /\ AckedHasLeft'
  <2>. \A p \in 1..dr : log'[p] = log[p]
    BY <1>1, <1>2, <1>4
  <2>. QED
    BY <1>1, <1>3, <1>6, WriterLeavesReader
<1>10. Accepted' /\ WriterAt'
  BY <1>3 DEF IInv, Accepted, WriterAt, Busy
<1>11. WriterClean'
  BY <1>1, <1>3, <1>5 DEF WriterClean, Busy
<1>12. dr > 0 => Succ(log[dr])' = Succ(log[dr])
  <2>. dr > 0 => dr \in 1..kept
    BY <1>1, <1>2
  <2>. QED
    BY <1>3, <1>4 DEF Succ, Total
<1>13. PipeCut'
  <2>1. CASE bad' # bad
    <3>1. bad = 0 /\ wpc \in Busy /\ bad' = N
      BY <2>1, <1>1, <1>3
    <3>2. InPipeUpTo(N)
      BY <3>1 DEF IInv, PipeCut
    <3>3. IF dr = 0 THEN bad' = 1 ELSE Succ(log[dr])[1] >= bad'
      BY <3>1, <3>2 DEF InPipeUpTo
    <3>. QED
      BY <3>3, <1>1, <1>3, <1>5, <1>12, <3>1 DEF PipeCut, InPipeUpTo
  <2>2. CASE bad' = bad
    <3>1. bad # 0 => InPipeUpTo(bad)
      BY DEF IInv, PipeCut
    <3>2. bad = 0 => wpc' \notin Busy
      BY <1>3 DEF Busy
    <3>3. bad # 0 => IF dr = 0 THEN bad' = 1 ELSE Succ(log[dr])[1] >= bad'
      BY <3>1, <2>2 DEF InPipeUpTo
    <3>. QED
      BY <3>2, <3>3, <2>2, <1>1, <1>3, <1>12 DEF PipeCut, InPipeUpTo
  <2>. QED
    BY <2>1, <2>2
<1>. QED
  BY <1>7, <1>8, <1>9, <1>10, <1>11, <1>13 DEF IInv

\* What the reader does leaves the writer and the stream as they were, except
\* that a read that fails inside a frame tears it.
LEMMA ReaderLeavesWriter ==
    ASSUME IInv, UNCHANGED <<wvars, log, dr>>,
           \/ bad' = bad
           \/ /\ bad' \in 1..Len(sent) /\ (bad = 0 \/ bad' < bad)
              /\ dr > 0 /\ Succ(log[dr])[1] >= bad'
    PROVE  /\ Labelled' /\ Ordered' /\ Chained' /\ Rooted' /\ Accepted'
           /\ WriterAt' /\ WriterClean' /\ PipeCut' /\ AckedHasLeft'
           /\ \A i \in Nat : Whole(i)' => Whole(i)
<1>1. /\ TypeOK /\ Len(sent) \in Nat /\ Len(log) \in Nat /\ dr \in Nat
      /\ log \in Seq(Nat \X Nat) /\ bad \in 0..Len(sent)
      /\ \A p \in 1..Len(log) : log[p][1] \in Nat /\ log[p][2] \in Nat
  <2>1. TypeOK
    BY DEF IInv
  <2>2. /\ dr \in Nat /\ log \in Seq(Nat \X Nat) /\ bad \in 0..Len(sent)
    BY <2>1 DEF TypeOK
  <2>. QED
    BY <2>1, <2>2, Typed
<1>2. UNCHANGED <<wpc, wn, sent, acked, log, dr>>
  BY DEF wvars
<1>3. ASSUME NEW i \in Nat, Whole(i)'
      PROVE  Whole(i)
  <2>1. CASE bad' = bad
    BY <1>3, <2>1 DEF Whole
  <2>2. CASE bad' # bad /\ bad # 0
    <3>1. bad' # 0 /\ bad' < bad
      BY <1>1, <2>2
    <3>. QED
      BY <1>3, <3>1, <1>1 DEF Whole
  <2>3. CASE bad = 0
    BY <2>3 DEF Whole
  <2>. QED
    BY <2>1, <2>2, <2>3
<1>4. Labelled' /\ Ordered' /\ Chained' /\ Rooted'
  BY <1>1, <1>2, <1>3, StreamShrinks
<1>5. Accepted' /\ WriterAt' /\ AckedHasLeft'
  BY <1>2 DEF IInv, Accepted, WriterAt, AckedHasLeft, Total
<1>6. WriterClean' /\ PipeCut'
  <2>1. CASE bad' = bad
    BY <2>1, <1>2 DEF IInv, WriterClean, PipeCut, InPipeUpTo, EndsAt, Succ, Total
  <2>2. CASE bad' # bad
    <3>1. bad' # 0 /\ dr # 0 /\ Succ(log[dr])[1] >= bad'
      BY <2>2
    <3>. QED
      BY <3>1, <1>2 DEF WriterClean, PipeCut, InPipeUpTo, Succ, Total
  <2>. QED
    BY <2>1, <2>2
<1>. QED
  BY <1>3, <1>4, <1>5, <1>6

\* fread takes a byte: in an untorn stream, the next one of its frame.
LEMMA ReadByteStep ==
    ASSUME IInv, ReadByte
    PROVE  IInv'
<1> DEFINE k == Len(rcvd) + 1
<1>1. /\ rpc # "eof" /\ rd < fr + Wanted /\ rd < dr /\ rd' = rd + 1
      /\ UNCHANGED <<wvars, log, fr, dr, rvars, bad>>
  BY DEF ReadByte
<1>2. /\ TypeOK /\ Len(sent) \in Nat /\ Len(log) \in Nat /\ Len(rcvd) \in Nat
      /\ fr \in Nat /\ rd \in Nat /\ dr \in Nat /\ fr <= rd /\ dr <= Len(log)
      /\ HdrLen \in Nat /\ HdrLen > 0 /\ rsize \in Nat
      /\ \A j \in 1..Len(sent) : Total(j) \in Nat /\ Total(j) >= HdrLen
  <2>1. TypeOK
    BY DEF IInv
  <2>2. /\ fr \in Nat /\ rd \in Nat /\ dr \in Nat /\ fr <= rd /\ dr <= Len(log)
        /\ rsize \in Nat
    BY <2>1 DEF TypeOK
  <2>. QED
    BY <2>1, <2>2, Typed
<1>3. TypeOK'
  <2>1. dr - rd <= PipeCap
    BY <1>2 DEF TypeOK
  <2>2. rd' \in fr..dr /\ dr \in rd'..Len(log) /\ dr - rd' <= PipeCap
    BY <2>1, <1>1, <1>2, PipeAssumption
  <2>. QED
    BY <2>2, <1>1, <1>2 DEF TypeOK, rvars, wvars
<1>4. /\ Labelled' /\ Ordered' /\ Chained' /\ Rooted' /\ Accepted'
      /\ WriterAt' /\ WriterClean' /\ PipeCut' /\ AckedHasLeft'
  BY <1>1, ReaderLeavesWriter
<1>5. FaithfulUntilTorn'
  BY <1>1 DEF IInv, FaithfulUntilTorn, Whole, wvars, rvars
<1>6. rd + 1 \in 1..Len(log) /\ (rd > 0 => rd \in 1..Len(log) - 1)
  BY <1>1, <1>2
<1>7. \A i \in 1 .. rd' - fr : i = rd + 1 - fr \/ i \in 1 .. rd - fr
  BY <1>1, <1>2
<1>8. ASSUME rpc = "header", InHeaderOf(k), Whole(k)
      PROVE  log[rd + 1] = <<k, rd + 1 - fr>>
  <2>1. CASE rd = 0
    <3>1. k = 1 /\ fr = 0 /\ log # <<>> /\ rd + 1 - fr = 1
      BY <1>2, <1>6, <1>8, <2>1 DEF InHeaderOf
    <3>. QED
      BY <3>1, <2>1, <1>8 DEF IInv, Rooted
  <2>2. CASE rd > 0 /\ rd = fr
    <3>1. k > 1 /\ log[rd] = <<k - 1, Total(k - 1)>>
      BY <1>2, <1>8, <2>2 DEF InHeaderOf
    <3>2. Total(k - 1) \in Nat
      <4>1. rd \in 1..Len(log) /\ log[rd][1] = k - 1
        BY <3>1, <2>2, <1>2, <1>6
      <4>2. k - 1 \in 1..Len(sent)
        BY <4>1 DEF IInv, Labelled
      <4>. QED
        BY <4>2, <1>2
    <3>. Succ(log[rd]) = <<k, 1>>
      BY <3>1, <3>2, <1>2 DEF Succ
    <3>3. log[rd + 1] = Succ(log[rd])
      BY <2>2, <1>6, <1>8 DEF IInv, Chained
    <3>. QED
      BY <3>3, <2>2, <1>2
  <2>3. CASE rd > fr
    <3>1. rd - fr \in 1 .. rd - fr /\ fr + (rd - fr) = rd
      BY <1>2, <2>3
    <3>2. log[rd] = <<k, rd - fr>>
      BY <3>1, <1>8 DEF InHeaderOf
    <3>3. k \in 1..Len(sent) /\ rd - fr < HdrLen
      BY <3>2, <2>3, <1>1, <1>2, <1>6, <1>8 DEF IInv, Labelled, Wanted
    <3>4. rd - fr < Total(k)
      BY <3>3, <1>2
    <3>5. Succ(log[rd]) = <<k, rd - fr + 1>>
      BY <3>2, <3>4 DEF Succ
    <3>6. log[rd + 1] = Succ(log[rd])
      <4>. Succ(log[rd])[1] = k /\ rd \in 1..Len(log) - 1
        BY <3>5, <2>3, <1>2, <1>6
      <4>. QED
        BY <1>8 DEF IInv, Chained
    <3>. QED
      BY <3>5, <3>6, <1>2
  <2>. QED
    BY <2>1, <2>2, <2>3, <1>2
<1>9. ASSUME rpc = "body", InBodyOf(k), Whole(k)
      PROVE  log[rd + 1] = <<k, HdrLen + (rd + 1 - fr)>>
  <2>1. log[rd] = <<k, HdrLen + (rd - fr)>>
    <3>1. CASE rd = fr
      BY <3>1, <1>2, <1>9 DEF InBodyOf
    <3>2. CASE rd > fr
      <4>1. rd - fr \in 1 .. rd - fr /\ fr + (rd - fr) = rd
        BY <1>2, <3>2
      <4>. QED
        BY <4>1, <1>9 DEF InBodyOf
    <3>. QED
      BY <3>1, <3>2, <1>2
  <2>2. /\ k \in 1..Len(sent) /\ Total(k) = HdrLen + rsize /\ rd - fr < rsize
        /\ rd > 0
    <3>1. k <= Len(sent) /\ rsize = Size[sent[k]] /\ fr > 0
      BY <1>9 DEF InBodyOf
    <3>2. rd < fr + rsize
      BY <1>1, <1>9 DEF Wanted
    <3>3. k \in 1..Len(sent) /\ rd - fr < rsize /\ rd > 0
      BY <3>1, <3>2, <1>2
    <3>. QED
      BY <3>1, <3>3 DEF Total
  <2>3. Succ(log[rd]) = <<k, HdrLen + (rd - fr) + 1>>
    BY <2>1, <2>2, <1>2 DEF Succ
  <2>4. log[rd + 1] = Succ(log[rd])
    BY <2>2, <2>3, <1>6, <1>9 DEF IInv, Chained
  <2>. QED
    BY <2>3, <2>4, <1>2
<1>10. ReaderAt'
  <2>1. SUFFICES ASSUME Whole(k)
                 PROVE  /\ Len(rcvd) <= Len(sent)
                        /\ rpc = "header" => InHeaderOf(k)'
                        /\ rpc = "body" => InBodyOf(k)'
    BY <1>1 DEF ReaderAt, Whole, rvars, wvars
  <2>2. ReaderAt
    BY DEF IInv
  <2>3. ASSUME rpc = "header"
        PROVE  InHeaderOf(k)'
    <3>1. InHeaderOf(k)
      BY <2>1, <2>2, <2>3 DEF ReaderAt
    <3>2. rd + 1 - fr <= HdrLen
      BY <2>3, <1>1, <1>2 DEF Wanted
    <3>3. ASSUME NEW i \in 1 .. rd' - fr
          PROVE  log[fr + i] = <<k, i>>
      <4>1. CASE i = rd + 1 - fr
        <5>. fr + i = rd + 1
          BY <4>1, <1>2
        <5>. QED
          BY <4>1, <2>1, <2>3, <3>1, <1>8
      <4>2. CASE i \in 1 .. rd - fr
        BY <4>2, <3>1 DEF InHeaderOf
      <4>. QED
        BY <4>1, <4>2, <1>7
    <3>4. IF fr = 0 THEN k = 1 ELSE k > 1 /\ log[fr] = <<k - 1, Total(k - 1)>>
      BY <3>1 DEF InHeaderOf
    <3>5. UNCHANGED <<sent, log, fr, rcvd>>
      BY <1>1 DEF rvars, wvars
    <3>6. rd' - fr <= HdrLen
      BY <3>2, <1>1, <1>2
    <3>. QED
      BY <3>3, <3>4, <3>5, <3>6 DEF InHeaderOf, Total
  <2>4. ASSUME rpc = "body"
        PROVE  InBodyOf(k)'
    <3>1. InBodyOf(k)
      BY <2>1, <2>2, <2>4 DEF ReaderAt
    <3>2. rd + 1 - fr <= rsize
      BY <2>4, <1>1, <1>2 DEF Wanted
    <3>3. ASSUME NEW i \in 1 .. rd' - fr
          PROVE  log[fr + i] = <<k, HdrLen + i>>
      <4>1. CASE i = rd + 1 - fr
        <5>. fr + i = rd + 1
          BY <4>1, <1>2
        <5>. QED
          BY <4>1, <2>1, <2>4, <3>1, <1>9
      <4>2. CASE i \in 1 .. rd - fr
        BY <4>2, <3>1 DEF InBodyOf
      <4>. QED
        BY <4>1, <4>2, <1>7
    <3>4. /\ k <= Len(sent) /\ rfrm = k /\ rsize = Size[sent[k]]
          /\ fr > 0 /\ log[fr] = <<k, HdrLen>>
      BY <3>1 DEF InBodyOf
    <3>5. UNCHANGED <<sent, log, fr, rcvd, rfrm, rsize>>
      BY <1>1 DEF rvars, wvars
    <3>6. rd' - fr <= rsize
      BY <3>2, <1>1, <1>2
    <3>. QED
      BY <3>3, <3>4, <3>5, <3>6 DEF InBodyOf
  <2>. QED
    BY <2>1, <2>2, <2>3, <2>4 DEF ReaderAt
<1>. QED
  BY <1>3, <1>4, <1>5, <1>10 DEF IInv

\* The length is read: in an untorn stream, that of the next frame.
LEMMA HeaderReadStep ==
    ASSUME IInv, HeaderRead
    PROVE  IInv'
<1> DEFINE k == Len(rcvd) + 1
<1>1. /\ rpc = "header" /\ rd = fr + HdrLen /\ rpc' = "body" /\ fr' = rd
      /\ UNCHANGED <<wvars, log, rd, dr, rres, rcvd, bad>>
  BY DEF HeaderRead
<1>2. /\ TypeOK /\ Len(sent) \in Nat /\ Len(log) \in Nat /\ Len(rcvd) \in Nat
      /\ fr \in Nat /\ rd \in Nat /\ dr \in Nat /\ rd <= dr /\ dr <= Len(log)
      /\ HdrLen \in Nat /\ HdrLen > 0 /\ Width \in Nat /\ Width > 0
      /\ \A j \in 1..Len(sent) : Size[sent[j]] \in Nat
  <2>1. TypeOK
    BY DEF IInv
  <2>2. /\ fr \in Nat /\ rd \in Nat /\ dr \in Nat /\ rd <= dr /\ dr <= Len(log)
    BY <2>1 DEF TypeOK
  <2>3. Width \in Nat /\ Width > 0
    BY HeaderAssumption, LimitAssumption
  <2>. QED
    BY <2>1, <2>2, <2>3, Typed
<1>3. rfrm' \in 0..Len(sent) /\ rsize' \in Nat
  <2>1. CASE \E j \in 1..Len(sent) : rfrm' = j /\ rsize' = Size[sent[j]] % Width
    BY <2>1, <1>2
  <2>2. CASE rfrm' = 0 /\ rsize' \in GarbledSizes
    BY <2>2, <1>2, JunkAssumption
  <2>. QED
    BY <2>1, <2>2 DEF HeaderRead
<1>4. TypeOK'
  <2>1. rd \in rd..dr
    BY <1>2
  <2>. QED
    BY <2>1, <1>1, <1>2, <1>3 DEF TypeOK, wvars
<1>5. /\ Labelled' /\ Ordered' /\ Chained' /\ Rooted' /\ Accepted'
      /\ WriterAt' /\ WriterClean' /\ PipeCut' /\ AckedHasLeft'
  BY <1>1, ReaderLeavesWriter
<1>6. FaithfulUntilTorn'
  BY <1>1 DEF IInv, FaithfulUntilTorn, Whole, wvars
<1>7. ASSUME Whole(k)
      PROVE  Len(rcvd) <= Len(sent) /\ InBodyOf(k)'
  <2>1. Len(rcvd) <= Len(sent) /\ InHeaderOf(k)
    BY <1>1, <1>7 DEF IInv, ReaderAt
  <2>2. \A i \in 1..HdrLen : log[fr + i] = <<k, i>>
    <3>. rd - fr = HdrLen
      BY <1>1, <1>2
    <3>. QED
      BY <2>1 DEF InHeaderOf
  <2>3. k \in 1..Len(sent)
    <3>1. 1 \in 1..HdrLen /\ fr + 1 \in 1..Len(log)
      BY <1>1, <1>2
    <3>. QED
      BY <2>2, <3>1 DEF IInv, Labelled
  <2>4. IsHeaderOf(k)
    BY <2>2 DEF IsHeaderOf
  <2>5. ASSUME NEW j \in 1..Len(sent), IsHeaderOf(j)
        PROVE  j = k
    <3>1. 1 \in 1..HdrLen
      BY <1>2
    <3>2. log[fr + 1] = <<k, 1>> /\ log[fr + 1] = <<j, 1>>
      BY <2>2, <2>5, <3>1 DEF IsHeaderOf
    <3>. QED
      BY <3>2
  <2>6. rfrm' = k /\ rsize' = Size[sent[k]] % Width
    BY <2>3, <2>4, <2>5 DEF HeaderRead
  <2>7. Size[sent[k]] \in 0..MaxSize
    BY <2>3, <1>2, LimitAssumption DEF IInv, Accepted
  <2>8. rsize' = Size[sent[k]]
    BY <2>6, <2>7, LengthFits
  <2>9. log[rd] = <<k, HdrLen>> /\ rd > 0 /\ rd' - fr' = 0
    <3>1. HdrLen \in 1..HdrLen /\ fr + HdrLen = rd
      BY <1>1, <1>2
    <3>2. log[fr + HdrLen] = <<k, HdrLen>>
      BY <2>2, <3>1
    <3>. QED
      BY <3>1, <3>2, <1>1, <1>2
  <2>10. UNCHANGED <<sent, log, rd, rcvd>>
    BY <1>1 DEF wvars
  <2>. QED
    BY <2>1, <2>3, <2>6, <2>8, <2>9, <2>10, <1>1, <1>2 DEF InBodyOf
<1>8. ReaderAt'
  BY <1>1, <1>7 DEF ReaderAt, Whole, wvars
<1>. QED
  BY <1>4, <1>5, <1>6, <1>8 DEF IInv

\* The payload is read: in an untorn stream, the next one that was sent.
LEMMA BodyReadStep ==
    ASSUME IInv, BodyRead
    PROVE  IInv'
<1> DEFINE k == Len(rcvd) + 1
           got == IF IsBodyOf(rfrm) THEN sent[rfrm] ELSE Garbled
<1>1. /\ rpc = "body" /\ rd = fr + rsize /\ rpc' = "header" /\ fr' = rd
      /\ rcvd' = Append(rcvd, got) /\ rsize' = 0 /\ rfrm' = 0 /\ rres' = "OK"
      /\ UNCHANGED <<wvars, log, rd, dr, bad>>
  BY DEF BodyRead
<1>2. /\ TypeOK /\ Len(sent) \in Nat /\ Len(log) \in Nat /\ Len(rcvd) \in Nat
      /\ fr \in Nat /\ rd \in Nat /\ dr \in Nat /\ rd <= dr /\ dr <= Len(log)
      /\ HdrLen \in Nat /\ HdrLen > 0 /\ rsize \in Nat /\ bad \in Nat
      /\ \A j \in 1..Len(sent) : sent[j] \in Msgs
  BY Typed DEF IInv, TypeOK
<1>3. /\ got \in Msgs \cup {Garbled}
      /\ rcvd' \in Seq(Msgs \cup {Garbled})
      /\ Len(rcvd') = k /\ rcvd'[k] = got
      /\ \A i \in 1..Len(rcvd) : rcvd'[i] = rcvd[i]
  <2>1. got \in Msgs \cup {Garbled}
    BY <1>2 DEF IsBodyOf, TypeOK
  <2>2. rcvd \in Seq(Msgs \cup {Garbled})
    BY <1>2 DEF TypeOK
  <2>. QED
    BY <2>1, <2>2, <1>1, AppendProperties
<1>4. TypeOK'
  <2>1. rd \in rd..dr
    BY <1>2
  <2>. QED
    BY <2>1, <1>1, <1>2, <1>3 DEF TypeOK, wvars
<1>5. /\ Labelled' /\ Ordered' /\ Chained' /\ Rooted' /\ Accepted'
      /\ WriterAt' /\ WriterClean' /\ PipeCut' /\ AckedHasLeft'
  BY <1>1, ReaderLeavesWriter
<1>6. ASSUME Whole(k)
      PROVE  /\ k \in 1..Len(sent) /\ got = sent[k]
             /\ rd > 0 /\ log[rd] = <<k, Total(k)>>
  <2>1. InBodyOf(k)
    BY <1>1, <1>6 DEF IInv, ReaderAt
  <2>2. k \in 1..Len(sent) /\ rfrm = k /\ rsize = Size[sent[k]]
    BY <2>1, <1>2 DEF InBodyOf
  <2>3. rd - fr = rsize
    BY <1>1, <1>2
  <2>4. \A i \in 1..rsize : log[fr + i] = <<k, HdrLen + i>>
    BY <2>1, <2>3 DEF InBodyOf
  <2>5. IsBodyOf(rfrm)
    BY <2>2, <2>4 DEF IsBodyOf
  <2>6. rd > 0 /\ log[rd] = <<k, HdrLen + rsize>>
    <3>1. CASE rsize = 0
      <4>1. fr > 0 /\ log[fr] = <<k, HdrLen>>
        BY <2>1 DEF InBodyOf
      <4>. QED
        BY <3>1, <4>1, <1>1, <1>2
    <3>2. CASE rsize > 0
      <4>1. rsize \in 1..rsize /\ fr + rsize = rd /\ rd > 0
        BY <3>2, <1>1, <1>2
      <4>. QED
        BY <2>4, <4>1
    <3>. QED
      BY <3>1, <3>2, <1>2
  <2>. QED
    BY <2>2, <2>5, <2>6 DEF Total
<1>7. FaithfulUntilTorn'
  <2>1. ASSUME NEW i \in 1..Len(rcvd'), Whole(i)
        PROVE  i <= Len(sent) /\ rcvd'[i] = sent[i]
    <3>1. CASE i = k
      BY <2>1, <3>1, <1>3, <1>6
    <3>2. CASE i \in 1..Len(rcvd)
      BY <2>1, <3>2, <1>3 DEF IInv, FaithfulUntilTorn
    <3>. QED
      BY <3>1, <3>2, <1>2, <1>3
  <2>. QED
    BY <2>1, <1>1 DEF FaithfulUntilTorn, Whole, wvars
<1>8. ReaderAt'
  <2>1. PICK n \in Nat : n = k
    BY <1>2
  <2>2. ASSUME Whole(n + 1)
        PROVE  n <= Len(sent) /\ InHeaderOf(n + 1)'
    <3>1. Whole(n)
      BY <2>2, <1>2 DEF Whole
    <3>2. /\ n \in 1..Len(sent) /\ rd > 0 /\ log[rd] = <<n, Total(n)>>
      BY <3>1, <2>1, <1>6
    <3>3. UNCHANGED <<sent, log, rd>> /\ fr' = rd /\ rd' - fr' = 0
      BY <1>1, <1>2 DEF wvars
    <3>4. n + 1 - 1 = n
      OBVIOUS
    <3>. QED
      BY <3>2, <3>3, <3>4, <1>2 DEF InHeaderOf, Total
  <2>3. Len(rcvd') = n /\ rpc' = "header" /\ bad' = bad /\ sent' = sent
    BY <2>1, <1>1, <1>3 DEF wvars
  <2>. QED
    BY <2>2, <2>3 DEF ReaderAt, Whole
<1>. QED
  BY <1>4, <1>5, <1>7, <1>8 DEF IInv

\* fread meets the end of the stream.
LEMMA ReadEofStep ==
    ASSUME IInv, ReadEof
    PROVE  IInv'
<1>1. /\ rpc # "eof" /\ rpc' = "eof" /\ fr' = rd /\ rsize' = 0 /\ rfrm' = 0
      /\ rres' = "IO" /\ UNCHANGED <<wvars, log, rd, dr, rcvd, bad>>
  BY DEF ReadEof
<1>2. /\ TypeOK /\ Len(sent) \in Nat /\ rd \in Nat /\ dr \in Nat /\ rd <= dr
  BY Typed DEF IInv, TypeOK
<1>3. TypeOK'
  <2>1. rd \in rd..dr
    BY <1>2
  <2>. QED
    BY <2>1, <1>1, <1>2 DEF TypeOK, wvars
<1>4. /\ Labelled' /\ Ordered' /\ Chained' /\ Rooted' /\ Accepted'
      /\ WriterAt' /\ WriterClean' /\ PipeCut' /\ AckedHasLeft'
  BY <1>1, ReaderLeavesWriter
<1>5. FaithfulUntilTorn'
  BY <1>1 DEF IInv, FaithfulUntilTorn, Whole, wvars
<1>6. ReaderAt'
  BY <1>1 DEF IInv, ReaderAt, Whole, wvars
<1>. QED
  BY <1>3, <1>4, <1>5, <1>6 DEF IInv

\* A failed read tears the frame the reader stands in, one that was begun.
LEMMA TornWhileReading ==
    ASSUME IInv, rpc # "eof", ~ (rpc = "header" /\ rd = fr), Whole(Len(rcvd) + 1)
    PROVE  /\ Len(rcvd) + 1 \in 1..Len(sent)
           /\ dr > 0 /\ Succ(log[dr])[1] >= Len(rcvd) + 1
<1> DEFINE k == Len(rcvd) + 1
<1>1. /\ TypeOK /\ Len(sent) \in Nat /\ Len(log) \in Nat /\ Len(rcvd) \in Nat
      /\ fr \in Nat /\ rd \in Nat /\ dr \in Nat
      /\ fr <= rd /\ rd <= dr /\ dr <= Len(log)
      /\ rpc \in {"header", "body"}
  BY Typed DEF IInv, TypeOK
<1>2. PICK p \in 1..rd : log[p][1] = k
  <2>1. CASE rpc = "header"
    <3>1. InHeaderOf(k) /\ rd - fr \in 1 .. rd - fr /\ fr + (rd - fr) = rd
      BY <2>1, <1>1 DEF IInv, ReaderAt
    <3>2. log[rd] = <<k, rd - fr>>
      BY <3>1 DEF InHeaderOf
    <3>. QED
      BY <3>1, <3>2, <1>1
  <2>2. CASE rpc = "body"
    <3>1. fr > 0 /\ log[fr] = <<k, HdrLen>>
      BY <2>2 DEF IInv, ReaderAt, InBodyOf
    <3>. QED
      BY <3>1, <1>1
  <2>. QED
    BY <2>1, <2>2, <1>1
<1>3. p \in 1..Len(log) /\ dr \in p..Len(log) /\ dr > 0 /\ dr \in 1..Len(log)
  BY <1>1, <1>2
<1>4. k \in 1..Len(sent)
  BY <1>2, <1>3 DEF IInv, Labelled
<1>5. log[p][1] <= log[dr][1] /\ log[dr][1] <= Succ(log[dr])[1]
  BY <1>1, <1>3, SuccMonotone DEF IInv
<1>6. log[dr][1] \in Nat /\ Succ(log[dr])[1] \in Nat
  BY <1>1, <1>3, SuccTyped, Typed
<1>. QED
  BY <1>1, <1>2, <1>3, <1>4, <1>5, <1>6

LEMMA ReadFaultStep ==
    ASSUME IInv, ReadFault
    PROVE  IInv'
<1> DEFINE k == Len(rcvd) + 1
           Between == rpc = "header" /\ rd = fr
<1>1. /\ rpc # "eof" /\ rpc' = "header" /\ fr' = rd /\ rsize' = 0 /\ rfrm' = 0
      /\ rres' = "IO" /\ UNCHANGED <<wvars, log, rd, dr, rcvd>>
      /\ bad' = IF ~ Between /\ (bad = 0 \/ k < bad) THEN k ELSE bad
  BY DEF ReadFault, Torn
<1>2. /\ TypeOK /\ Len(sent) \in Nat /\ Len(rcvd) \in Nat /\ bad \in 0..Len(sent)
      /\ rd \in Nat /\ dr \in Nat /\ rd <= dr /\ HdrLen \in Nat
  BY Typed DEF IInv, TypeOK
<1>3. ~ Between /\ Whole(k) => /\ bad' = k /\ k \in 1..Len(sent)
                               /\ dr > 0 /\ Succ(log[dr])[1] >= k
  BY <1>1, TornWhileReading DEF Whole
<1>4. Between \/ ~ Whole(k) => bad' = bad
  BY <1>1 DEF Whole
<1>5. /\ Labelled' /\ Ordered' /\ Chained' /\ Rooted' /\ Accepted'
      /\ WriterAt' /\ WriterClean' /\ PipeCut' /\ AckedHasLeft'
      /\ \A i \in Nat : Whole(i)' => Whole(i)
  BY <1>1, <1>3, <1>4, ReaderLeavesWriter DEF Whole
<1>6. TypeOK'
  <2>1. rd \in rd..dr /\ bad' \in 0..Len(sent)
    BY <1>2, <1>3, <1>4
  <2>. QED
    BY <2>1, <1>1, <1>2 DEF TypeOK, wvars
<1>7. FaithfulUntilTorn'
  BY <1>1, <1>2, <1>5 DEF IInv, FaithfulUntilTorn, wvars
<1>8. ReaderAt'
  <2>1. CASE Between
    <3>1. UNCHANGED <<fr, rd, log, sent, rcvd, bad, rpc>>
      BY <2>1, <1>1, <1>4 DEF wvars
    <3>. QED
      BY <3>1, <2>1 DEF IInv, ReaderAt, InHeaderOf, Whole, Total
  <2>2. CASE ~ Between
    <3>1. bad' # 0 /\ ~ (k < bad')
      <4>1. CASE Whole(k)
        BY <4>1, <2>2, <1>2, <1>3
      <4>2. CASE ~ Whole(k)
        BY <4>2, <1>2, <1>4 DEF Whole
      <4>. QED
        BY <4>1, <4>2
    <3>2. rcvd' = rcvd
      BY <1>1
    <3>. QED
      BY <3>1, <3>2 DEF ReaderAt, Whole
  <2>. QED
    BY <2>1, <2>2
<1>. QED
  BY <1>5, <1>6, <1>7, <1>8 DEF IInv

-----------------------------------------------------------------------------
(* Theorems *)

LEMMA InitIInv == Init => IInv
<1> SUFFICES ASSUME Init PROVE IInv
  OBVIOUS
<1>1. TypeOK
  BY PipeAssumption DEF Init, TypeOK, Busy
<1>2. Len(log) = 0 /\ Len(sent) = 0 /\ Len(rcvd) = 0
  BY DEF Init
<1>3. Labelled /\ Ordered /\ Chained /\ Rooted /\ Accepted
  BY <1>2 DEF Init, Labelled, Ordered, Chained, Rooted, Accepted
<1>4. WriterAt /\ WriterClean /\ PipeCut
  BY <1>2 DEF Init, WriterAt, WriterClean, EndsAt, PipeCut, Busy
<1>5. ReaderAt
  BY <1>2, HeaderAssumption DEF Init, ReaderAt, InHeaderOf
<1>6. FaithfulUntilTorn /\ AckedHasLeft
  BY <1>2 DEF Init, FaithfulUntilTorn, AckedHasLeft
<1>. QED
  BY <1>1, <1>3, <1>4, <1>5, <1>6 DEF IInv

LEMMA NextIInv == IInv /\ [Next]_vars => IInv'
<1> SUFFICES ASSUME IInv, [Next]_vars PROVE IInv'
  OBVIOUS
<1>1. CASE \E m \in Msgs : Refuse(m) \/ StartWrite(m)
  BY <1>1, QuietStep, StartWriteStep
<1>2. CASE WriterSteps
  BY <1>2, PutStep, QuietStep, DrainStep, FlushedStep DEF WriterSteps
<1>3. CASE WriteFault \/ Crash
  BY <1>3, CutStep
<1>4. CASE StartClose
  BY <1>4, QuietStep
<1>5. CASE ReaderSteps
  BY <1>5, ReadByteStep, HeaderReadStep, BodyReadStep, ReadEofStep DEF ReaderSteps
<1>6. CASE ReadFault
  BY <1>6, ReadFaultStep
<1>7. CASE UNCHANGED vars
  <2>1. UNCHANGED <<wvars, log, fr, rd, dr, rvars, bad>>
    BY <1>7 DEF vars
  <2>2. TypeOK'
    BY <2>1 DEF IInv, TypeOK, wvars, rvars
  <2>3. /\ Labelled' /\ Ordered' /\ Chained' /\ Rooted' /\ Accepted'
        /\ WriterAt' /\ WriterClean' /\ PipeCut' /\ AckedHasLeft'
    BY <2>1, ReaderLeavesWriter
  <2>4. ReaderAt' /\ FaithfulUntilTorn'
    BY <2>1 DEF IInv, ReaderAt, InHeaderOf, InBodyOf, FaithfulUntilTorn, Whole,
                Total, wvars, rvars
  <2>. QED
    BY <2>2, <2>3, <2>4 DEF IInv
<1>. QED
  BY <1>1, <1>2, <1>3, <1>4, <1>5, <1>6, <1>7 DEF Next

\* IInv holds in every state BecoWire can reach.
THEOREM InductiveInvariant == Spec => []IInv
BY InitIInv, NextIInv, PTL DEF Spec

\* Every variable keeps its type; in particular the pipe never holds more
\* than PipeCap bytes and no frame is begun beyond the bound of the model.
THEOREM TypeCorrect == Spec => []TypeOK
<1>1. IInv => TypeOK
  BY DEF IInv
<1>. QED
  BY <1>1, InductiveInvariant, PTL

\* For any payloads, limits, pipe size and faults: up to the first torn frame,
\* BecoReadRaw returns the payloads BecoWriteRaw was given, in order.
THEOREM Faithful == Spec => []FaithfulUntilTorn
<1>1. IInv => FaithfulUntilTorn
  BY DEF IInv
<1>. QED
  BY <1>1, InductiveInvariant, PTL

\* For any interleaving of errors and crashes: what BecoWriteRaw reported OK
\* had left the process.
THEOREM Durable == Spec => []AckedHasLeft
<1>1. IInv => AckedHasLeft
  BY DEF IInv
<1>. QED
  BY <1>1, InductiveInvariant, PTL

\* In an untorn stream BecoReadRaw allocates at most SIZE_1M bytes, although
\* it checks no limit itself.
THEOREM Bounded == Spec => []BoundedAllocation
<1>1. IInv => BoundedAllocation
  <2> SUFFICES ASSUME IInv, rpc = "body", Whole(Len(rcvd) + 1)
               PROVE  rsize <= MaxSize
    BY DEF BoundedAllocation
  <2>1. Len(rcvd) + 1 \in 1..Len(sent) /\ rsize = Size[sent[Len(rcvd) + 1]]
    <3>. TypeOK
      BY DEF IInv
    <3>. QED
      BY Typed DEF IInv, ReaderAt, InBodyOf
  <2>. QED
    BY <2>1 DEF IInv, Accepted
<1>. QED
  BY <1>1, InductiveInvariant, PTL

-----------------------------------------------------------------------------
(* The refinement *)

\* The reader sees the end of the stream only when the writer is gone.
EofIsFinal == rpc = "eof" => wpc = "closed"

LEMMA EofInvariant == Spec => []EofIsFinal
<1>1. Init => EofIsFinal
  BY DEF Init, EofIsFinal
<1>2. EofIsFinal /\ [Next]_vars => EofIsFinal'
  <2> SUFFICES ASSUME EofIsFinal, [Next]_vars PROVE EofIsFinal'
    OBVIOUS
  <2>1. CASE \E m \in Msgs : Refuse(m) \/ StartWrite(m)
    BY <2>1 DEF Refuse, StartWrite, EofIsFinal, rvars
  <2>2. CASE WriterSteps
    BY <2>2 DEF WriterSteps, PutHeader, PutData, DataWritten, Drain, Flushed,
                Closed, EofIsFinal, rvars, wvars
  <2>3. CASE WriteFault \/ StartClose \/ Crash
    BY <2>3 DEF WriteFault, StartClose, Crash, EofIsFinal, rvars, Busy
  <2>4. CASE ReaderSteps
    BY <2>4 DEF ReaderSteps, ReadByte, HeaderRead, BodyRead, ReadEof, EofIsFinal,
                rvars, wvars
  <2>5. CASE ReadFault
    BY <2>5 DEF ReadFault, EofIsFinal, wvars
  <2>6. CASE UNCHANGED vars
    BY <2>6 DEF vars, EofIsFinal, rvars, wvars
  <2>. QED
    BY <2>1, <2>2, <2>3, <2>4, <2>5, <2>6 DEF Next
<1>. QED
  BY <1>1, <1>2, PTL DEF Spec

\* A frame a failing write tears has not been delivered: a byte of it has not
\* even reached the pipe.
LEMMA TornIsUndelivered ==
    ASSUME IInv, EofIsFinal, WriteFault, bad = 0
    PROVE  Len(rcvd) + 1 \in 1..Len(sent)
<1> DEFINE N == Len(sent)
<1>1. /\ TypeOK /\ N \in Nat /\ Len(log) \in Nat /\ Len(rcvd) \in Nat
      /\ fr \in Nat /\ dr \in Nat /\ fr <= dr /\ dr <= Len(log) /\ wn \in Nat
      /\ rpc \in {"header", "body", "eof"} /\ log \in Seq(Nat \X Nat)
  BY Typed DEF IInv, TypeOK
<1>2. /\ wpc \in Busy /\ rpc # "eof" /\ N > 0
      /\ dr < Len(log) \/ wn < Total(N)
  BY DEF WriteFault, EofIsFinal, Busy, IInv, WriterAt
<1>3. Whole(Len(rcvd) + 1)
  BY DEF Whole
<1>4. Len(rcvd) <= N
  BY <1>3 DEF IInv, ReaderAt
<1>5. ASSUME Len(rcvd) = N
      PROVE  FALSE
  <2>1. rpc = "header"
    BY <1>1, <1>2, <1>3, <1>5 DEF IInv, ReaderAt, InBodyOf
  <2>2. fr > 0 /\ log[fr] = <<N, Total(N)>>
    <3>1. PICK k \in Nat : k = N + 1
      BY <1>1
    <3>2. InHeaderOf(k)
      BY <2>1, <1>3, <1>5, <3>1 DEF IInv, ReaderAt
    <3>3. k # 1 /\ k - 1 = N
      BY <1>1, <1>2, <3>1
    <3>4. fr # 0 /\ log[fr] = <<k - 1, Total(k - 1)>>
      BY <3>2, <3>3 DEF InHeaderOf
    <3>. QED
      BY <3>3, <3>4, <1>1
  <2>3. /\ fr \in 1..Len(log) /\ Len(log) \in 1..Len(log) /\ log # <<>>
        /\ Total(N) \in Nat
    <3>1. N \in 1..N
      BY <1>1, <1>2
    <3>2. Total(N) \in Nat
      BY <3>1, <1>1, Typed
    <3>3. fr \in 1..Len(log) /\ Len(log) \in 1..Len(log)
      BY <2>2, <1>1
    <3>. QED
      BY <3>2, <3>3
  <2>4. fr = Len(log) \/ Before(log[fr], log[Len(log)])
    BY <2>3, <1>1 DEF IInv, Ordered
  <2>5. wn > 0 /\ log[Len(log)] = <<N, wn>>
    <3>1. IF wn > 0 THEN log[Len(log)] = <<N, wn>> ELSE log[Len(log)][1] < N
      BY <2>3, <1>2 DEF IInv, WriterAt
    <3>2. log[fr][1] = N /\ log[Len(log)][1] \in Nat /\ log[fr][1] <= log[Len(log)][1]
      <4>1. log[fr][1] <= log[Len(log)][1]
        <5>. Len(log) \in fr..Len(log)
          BY <2>3, <1>1
        <5>. QED
          BY <2>3, <1>1, SuccMonotone DEF IInv
      <4>2. log[fr][1] = N /\ log[Len(log)][1] \in Nat
        BY <2>2, <2>3, <1>1, Typed
      <4>. QED
        BY <4>1, <4>2
    <3>. QED
      BY <3>1, <3>2, <1>1
  <2>6. wn <= Total(N)
    BY <2>3, <2>5 DEF IInv, Labelled
  <2>7. wn = Total(N)
    <3>1. log[fr][2] = Total(N) /\ log[Len(log)][2] = wn /\ log[fr][1] = log[Len(log)][1]
      BY <2>2, <2>5
    <3>2. fr # Len(log) => Total(N) < wn
      <4>. ~ (N < N)
        BY <1>1
      <4>. QED
        BY <2>2, <2>4, <2>5, <3>1 DEF Before
    <3>3. fr = Len(log) => Total(N) = wn
      BY <3>1
    <3>. QED
      BY <3>2, <3>3, <2>3, <2>6, <1>1
  <2>8. fr < Len(log)
    BY <2>3, <2>7, <1>1, <1>2
  <2>. QED
    <3>1. log[fr] = log[Len(log)] /\ fr # Len(log)
      BY <2>2, <2>3, <2>5, <2>7, <2>8, <1>1
    <3>2. log[fr][1] \in Nat /\ log[fr][2] \in Nat
      BY <2>3, <1>1, Typed
    <3>. QED
      BY <2>4, <3>1, <3>2 DEF Before
<1>. QED
  BY <1>1, <1>4, <1>5

LEMMA StepSimulation ==
    IInv /\ EofIsFinal /\ [Next]_vars => [Channel!Next]_(Channel!vars)
<1> SUFFICES ASSUME IInv, EofIsFinal, [Next]_vars
             PROVE  Channel!Next \/ UNCHANGED <<sent, rcvd, bad>>
  BY DEF Channel!vars
<1>1. /\ TypeOK /\ Len(sent) \in Nat /\ Len(rcvd) \in Nat /\ bad \in 0..Len(sent)
  BY Typed DEF IInv, TypeOK
<1>2. ASSUME NEW m \in Msgs, StartWrite(m)
      PROVE  Channel!Next
  BY <1>2 DEF StartWrite, Channel!Next, Channel!Accept, rvars
<1>3. ASSUME NEW m \in Msgs, Refuse(m)
      PROVE  UNCHANGED <<sent, rcvd, bad>>
  BY <1>3 DEF Refuse, rvars
<1>4. CASE WriterSteps \/ StartClose \/ Crash
  BY <1>4 DEF WriterSteps, PutHeader, PutData, DataWritten, Drain, Flushed, Closed,
              StartClose, Crash, rvars, wvars
<1>5. ASSUME NEW k \in Len(rcvd) + 1 .. Len(sent), Whole(k), bad' = k,
             UNCHANGED <<sent, rcvd>>
      PROVE  Channel!Next
  BY <1>5 DEF Channel!Next, Channel!Tear, Channel!Whole, Whole
<1>6. CASE WriteFault
  <2>1. UNCHANGED <<sent, rcvd>> /\ bad' = IF bad = 0 THEN Len(sent) ELSE bad
    BY <1>1, <1>6 DEF WriteFault, Torn, rvars
  <2>2. CASE bad = 0
    <3>. Len(sent) \in Len(rcvd) + 1 .. Len(sent) /\ Whole(Len(sent))
      BY <2>2, <1>1, <1>6, TornIsUndelivered DEF Whole
    <3>. QED
      BY <2>1, <2>2, <1>5
  <2>. QED
    BY <2>1, <2>2
<1>7. CASE ReadByte \/ HeaderRead \/ ReadEof
  BY <1>7 DEF ReadByte, HeaderRead, ReadEof, wvars, rvars
<1>8. CASE BodyRead
  <2> DEFINE n == Len(rcvd) + 1
  <2>1. UNCHANGED <<sent, bad>> /\ IInv' /\ rpc = "body"
    BY <1>8, BodyReadStep DEF BodyRead, wvars
  <2>2. PICK got : rcvd' = Append(rcvd, got)
    BY <1>8 DEF BodyRead
  <2>3. got \in Msgs \cup {Garbled} /\ Len(rcvd') = n /\ rcvd'[n] = got
    <3>1. rcvd \in Seq(Msgs \cup {Garbled}) /\ rcvd' \in Seq(Msgs \cup {Garbled})
      BY <1>1, <2>1 DEF IInv, TypeOK
    <3>2. Len(rcvd') = n /\ rcvd'[n] = got
      BY <3>1, <2>2, <1>1
    <3>. QED
      BY <3>1, <3>2, <1>1
  <2>4. CASE Whole(n)
    <3>1. n <= Len(sent) /\ got = sent[n]
      <4>. n \in 1..Len(rcvd')
        BY <2>3, <1>1
      <4>1. \A i \in 1..Len(rcvd') : Whole(i) => i <= Len(sent) /\ rcvd'[i] = sent[i]
        BY <2>1 DEF IInv, FaithfulUntilTorn, Whole
      <4>. QED
        BY <4>1, <2>3, <2>4
    <3>2. Channel!Deliver
      BY <3>1, <2>1, <2>2, <2>4, <1>1 DEF Channel!Deliver, Channel!Whole, Whole
    <3>. QED
      BY <3>2 DEF Channel!Next
  <2>5. CASE ~ Whole(n)
    <3>1. Channel!DeliverAny
      BY <2>1, <2>2, <2>3, <2>5 DEF Channel!DeliverAny, Channel!Whole, Whole
    <3>. QED
      BY <3>1 DEF Channel!Next
  <2>. QED
    BY <2>4, <2>5
<1>9. CASE ReadFault
  <2>1. /\ UNCHANGED <<sent, rcvd>> /\ rpc # "eof"
        /\ bad' = IF ~ (rpc = "header" /\ rd = fr) /\ (bad = 0 \/ Len(rcvd) + 1 < bad)
                  THEN Len(rcvd) + 1 ELSE bad
    BY <1>9 DEF ReadFault, Torn, wvars
  <2>2. CASE bad' # bad
    <3>1. ~ (rpc = "header" /\ rd = fr) /\ Whole(Len(rcvd) + 1) /\ bad' = Len(rcvd) + 1
      BY <2>1, <2>2 DEF Whole
    <3>2. Len(rcvd) + 1 \in Len(rcvd) + 1 .. Len(sent)
      BY <3>1, <2>1, <1>1, TornWhileReading
    <3>. QED
      BY <3>1, <3>2, <2>1, <1>5
  <2>. QED
    BY <2>1, <2>2
<1>10. CASE UNCHANGED vars
  BY <1>10 DEF vars, wvars, rvars
<1>. QED
  BY <1>2, <1>3, <1>4, <1>6, <1>7, <1>8, <1>9, <1>10 DEF Next, ReaderSteps

\* For every value of the constants, the bytes implement the message channel.
THEOREM Refinement == Spec => ImplementsChannel
<1>1. Init => Channel!Init
  BY DEF Init, Channel!Init
<1>. QED
  BY <1>1, StepSimulation, InductiveInvariant, EofInvariant, PTL
     DEF Spec, ImplementsChannel, Channel!Spec

=============================================================================
