------------------------------ MODULE BecoWire ------------------------------
(***************************************************************************)
(* One direction of the connection at the level of bytes: BecoWriteRaw     *)
(* (beco.c:364-396) called through BecoWrite, the stdio buffer of its      *)
(* FILE, the operating system's bounded pipe, and BecoReadRaw              *)
(* (beco.c:333-362) called again and again by the process at the other     *)
(* end.                                                                    *)
(*                                                                         *)
(* All the bytes ever put into the FILE form one sequence, log, and four   *)
(* positions in it say where each byte is:                                 *)
(*                                                                         *)
(*   1 .. fr       taken by earlier calls of fread                         *)
(*   fr+1 .. rd    taken by the current call of fread                      *)
(*   rd+1 .. dr    in the pipe, at most PipeCap of them                    *)
(*   dr+1 .. Len   in the writer's stdio buffer                            *)
(*                                                                         *)
(* A byte is the pair <<k, i>>: byte i of frame k, the first HdrLen bytes  *)
(* of a frame being its length and the rest its payload.                   *)
(***************************************************************************)
EXTENDS Integers, Sequences

CONSTANTS Msgs,          \* the objects BecoWrite is called with
          Size,          \* Size[m]: bytes of the JSON text of m
          NoText,        \* objects yyjson cannot print (a NaN or infinite real)
          HdrLen,        \* sizeof(uint32_t)
          Width,         \* 2^32: a length is stored modulo Width
          MaxSize,       \* SIZE_1M
          PipeCap,       \* capacity of the pipe, in bytes
          MaxWrites,     \* bound of the model: frames written
          GarbledSizes,  \* lengths read where the bytes are not one header
          Garbled,       \* the payload delivered when the bytes are not one payload
          Faults         \* which of "write", "read" and "crash" can happen

ASSUME SizeAssumption   == Size \in [Msgs -> Nat] /\ NoText \subseteq Msgs
ASSUME HeaderAssumption == HdrLen \in Nat \ {0} /\ Width \in Nat
ASSUME LimitAssumption  == MaxSize \in Nat /\ MaxSize < Width
ASSUME PipeAssumption   == PipeCap \in Nat \ {0} /\ MaxWrites \in Nat
ASSUME JunkAssumption   == GarbledSizes \subseteq Nat /\ Garbled \notin Msgs
ASSUME FaultAssumption  == Faults \subseteq {"write", "read", "crash"}

VARIABLES wpc,    \* where the writer is in BecoWriteRaw
          wn,     \* bytes of the frame being written that fwrite has taken
          wres,   \* what the last BecoWrite returned
          sent,   \* history: the payload of each frame begun
          acked,  \* history: the frames for which BecoWrite returned OK
          log, fr, rd, dr,
          rpc,    \* which fread of BecoReadRaw the reader is in
          rsize,  \* BecoReadRaw's local size
          rfrm,   \* history: the frame that length came from, 0 if none
          rres,   \* what the last BecoReadRaw returned
          rcvd,   \* the payloads BecoReadRaw has returned
          bad     \* history: 0, or the first frame torn by an I/O error

wvars == <<wpc, wn, wres, sent, acked>>
rvars == <<rpc, rsize, rfrm, rres, rcvd>>
vars  == <<wvars, log, fr, rd, dr, rvars, bad>>

-----------------------------------------------------------------------------
Busy == {"header", "data", "flush"}

Total(k) == HdrLen + Size[sent[k]]

TypeOK ==
    /\ wpc \in Busy \cup {"idle", "closing", "closed"}
    /\ wn \in Nat
    /\ wres \in {"none", "OK", "NULL", "OVERFLOW", "IO"}
    /\ sent \in Seq(Msgs) /\ Len(sent) <= MaxWrites
    /\ acked \subseteq 1..Len(sent)
    /\ log \in Seq(Nat \X Nat)
    /\ fr \in Nat /\ rd \in fr..dr /\ dr \in rd..Len(log)
    /\ dr - rd <= PipeCap
    /\ rpc \in {"header", "body", "eof"}
    /\ rsize \in Nat /\ rfrm \in 0..Len(sent)
    /\ rres \in {"none", "OK", "IO"}
    /\ rcvd \in Seq(Msgs \cup {Garbled})
    /\ bad \in 0..Len(sent)

Init ==
    /\ wpc = "idle" /\ wn = 0 /\ wres = "none" /\ sent = <<>> /\ acked = {}
    /\ log = <<>> /\ fr = 0 /\ rd = 0 /\ dr = 0
    /\ rpc = "header" /\ rsize = 0 /\ rfrm = 0 /\ rres = "none" /\ rcvd = <<>>
    /\ bad = 0

\* A tear at frame k: it counts when it is the first one in the stream.
Torn(k) == bad' = IF bad = 0 \/ k < bad THEN k ELSE bad

-----------------------------------------------------------------------------
(* The writer *)

\* Mutant: the limit compared with one more byte than SIZE_1M.
TooBigOffByOne(m) == Size[m] > MaxSize + 1

\* Mutant: BecoWriteRaw without its limit, the cast truncates the length.
TooBigNever(m) == FALSE

TooBig(m) == Size[m] > MaxSize

\* BecoWrite returns before a byte is written: the text is NULL, or too long.
Refuse(m) ==
    /\ wpc = "idle"
    /\ m \in NoText \/ TooBig(m)
    /\ wres' = IF m \in NoText THEN "NULL" ELSE "OVERFLOW"
    /\ UNCHANGED <<wpc, wn, sent, acked, log, fr, rd, dr, rvars, bad>>

StartWrite(m) ==
    /\ wpc = "idle"
    /\ m \notin NoText /\ ~ TooBig(m)
    /\ Len(sent) < MaxWrites
    /\ sent' = Append(sent, m)
    /\ wpc' = "header" /\ wn' = 0 /\ wres' = "none"
    /\ UNCHANGED <<acked, log, fr, rd, dr, rvars, bad>>

Put == log' = Append(log, <<Len(sent), wn + 1>>) /\ wn' = wn + 1

\* fwrite(&len, sizeof(len), 1, out), a byte at a time.
PutHeader ==
    /\ wpc = "header"
    /\ Put
    /\ wpc' = IF wn + 1 = HdrLen THEN "data" ELSE "header"
    /\ UNCHANGED <<wres, sent, acked, fr, rd, dr, rvars, bad>>

\* fwrite(data, sizeof(*data), dlen, out), a byte at a time.
PutData ==
    /\ wpc = "data" /\ wn < Total(Len(sent))
    /\ Put
    /\ UNCHANGED <<wpc, wres, sent, acked, fr, rd, dr, rvars, bad>>

DataWritten ==
    /\ wpc = "data" /\ wn = Total(Len(sent))
    /\ wpc' = "flush"
    /\ UNCHANGED <<wn, wres, sent, acked, log, fr, rd, dr, rvars, bad>>

\* stdio hands a buffered byte to the pipe: inside fwrite when it chooses to,
\* inside fflush and fclose until none is left.  It blocks on a full pipe.
Drain ==
    /\ wpc \in Busy \cup {"closing"}
    /\ dr < Len(log) /\ dr - rd < PipeCap
    /\ dr' = dr + 1
    /\ UNCHANGED <<wvars, log, fr, rd, rvars, bad>>

\* Mutant: BecoWriteRaw without its fflush.
FlushedUnchecked ==
    /\ wpc = "flush"
    /\ wpc' = "idle" /\ wres' = "OK" /\ acked' = acked \cup {Len(sent)}
    /\ UNCHANGED <<wn, sent, log, fr, rd, dr, rvars, bad>>

Flushed ==
    /\ wpc = "flush" /\ dr = Len(log)
    /\ wpc' = "idle" /\ wres' = "OK" /\ acked' = acked \cup {Len(sent)}
    /\ UNCHANGED <<wn, sent, log, fr, rd, dr, rvars, bad>>

\* A write(2) under fwrite or fflush fails (EINTR, EIO, ENOSPC) with some of
\* the frame still to go out: the frame stays incomplete in the stream, and
\* stdio keeps or drops what it had not yet written.
WriteFault ==
    /\ "write" \in Faults /\ wpc \in Busy
    /\ dr < Len(log) \/ wn < Total(Len(sent))
    /\ \E kept \in dr..Len(log) : log' = SubSeq(log, 1, kept)
    /\ Torn(Len(sent))
    /\ wpc' = "idle" /\ wres' = "IO"
    /\ UNCHANGED <<wn, sent, acked, fr, rd, dr, rvars>>

\* fclose(ctx->out) flushes, then closes the descriptor.
StartClose ==
    /\ wpc = "idle"
    /\ wpc' = "closing"
    /\ UNCHANGED <<wn, wres, sent, acked, log, fr, rd, dr, rvars, bad>>

Closed ==
    /\ wpc = "closing" /\ dr = Len(log)
    /\ wpc' = "closed"
    /\ UNCHANGED <<wn, wres, sent, acked, log, fr, rd, dr, rvars, bad>>

\* The writing process is killed: its stdio buffer is gone, the pipe is not.
Crash ==
    /\ "crash" \in Faults /\ wpc # "closed"
    /\ wpc' = "closed" /\ log' = SubSeq(log, 1, dr)
    /\ UNCHANGED <<wn, wres, sent, acked, fr, rd, dr, rvars, bad>>

-----------------------------------------------------------------------------
(* The reader *)

Wanted == IF rpc = "header" THEN HdrLen ELSE rsize

\* Mutant: a reader that waits until all it wants is in the pipe.
ReadByteGreedy ==
    /\ rpc # "eof" /\ rd < fr + Wanted
    /\ dr - fr >= Wanted
    /\ rd' = rd + 1
    /\ UNCHANGED <<wvars, log, fr, dr, rvars, bad>>

\* fread takes the next byte of the pipe.
ReadByte ==
    /\ rpc # "eof" /\ rd < fr + Wanted
    /\ rd < dr
    /\ rd' = rd + 1
    /\ UNCHANGED <<wvars, log, fr, dr, rvars, bad>>

IsHeaderOf(k) == \A i \in 1..HdrLen : log[fr + i] = <<k, i>>

\* The first fread is complete: size is the number its bytes hold, and
\* malloc(size) follows.
HeaderRead ==
    /\ rpc = "header" /\ rd = fr + HdrLen
    /\ rpc' = "body" /\ fr' = rd
    /\ \/ \E k \in 1..Len(sent) :
             /\ IsHeaderOf(k)
             /\ rfrm' = k /\ rsize' = Size[sent[k]] % Width
       \/ /\ \A k \in 1..Len(sent) : ~ IsHeaderOf(k)
          /\ rfrm' = 0 /\ rsize' \in GarbledSizes
    /\ UNCHANGED <<wvars, log, rd, dr, rres, rcvd, bad>>

IsBodyOf(k) ==
    /\ k # 0 /\ rsize = Size[sent[k]]
    /\ \A i \in 1..rsize : log[fr + i] = <<k, HdrLen + i>>

\* The second fread is complete: BecoReadRaw returns the buffer.
BodyRead ==
    /\ rpc = "body" /\ rd = fr + rsize
    /\ rcvd' = Append(rcvd, IF IsBodyOf(rfrm) THEN sent[rfrm] ELSE Garbled)
    /\ rpc' = "header" /\ fr' = rd /\ rsize' = 0 /\ rfrm' = 0 /\ rres' = "OK"
    /\ UNCHANGED <<wvars, log, rd, dr, bad>>

\* Mutant: BecoReadRaw without "read != size": a short body is returned.
ReadEofShort ==
    /\ wpc = "closed" /\ rd = dr /\ rpc # "eof" /\ rd < fr + Wanted
    /\ rpc' = "eof" /\ fr' = rd /\ rsize' = 0 /\ rfrm' = 0
    /\ IF rpc = "body"
       THEN rcvd' = Append(rcvd, Garbled) /\ rres' = "OK"
       ELSE rcvd' = rcvd /\ rres' = "IO"
    /\ UNCHANGED <<wvars, log, rd, dr, bad>>

\* fread meets the end of the stream: IO, the bytes it has are dropped.  The
\* end-of-file mark stays on the FILE, so every later call fails the same way.
ReadEof ==
    /\ wpc = "closed" /\ rd = dr /\ rpc # "eof" /\ rd < fr + Wanted
    /\ rpc' = "eof" /\ fr' = rd /\ rsize' = 0 /\ rfrm' = 0 /\ rres' = "IO"
    /\ UNCHANGED <<wvars, log, rd, dr, rcvd, bad>>

\* fread fails (EINTR, EIO): IO, and the bytes it has are dropped, so unless
\* it stood between two frames the next call starts in the middle of one.
ReadFault ==
    /\ "read" \in Faults /\ rpc # "eof" /\ rd < fr + Wanted
    /\ rpc' = "header" /\ fr' = rd /\ rsize' = 0 /\ rfrm' = 0 /\ rres' = "IO"
    /\ IF rpc = "header" /\ rd = fr THEN bad' = bad ELSE Torn(Len(rcvd) + 1)
    /\ UNCHANGED <<wvars, log, rd, dr, rcvd>>

-----------------------------------------------------------------------------
WriterSteps == PutHeader \/ PutData \/ DataWritten \/ Drain \/ Flushed \/ Closed
ReaderSteps == ReadByte \/ HeaderRead \/ BodyRead \/ ReadEof

Next ==
    \/ \E m \in Msgs : Refuse(m) \/ StartWrite(m)
    \/ WriterSteps
    \/ WriteFault
    \/ StartClose
    \/ Crash
    \/ ReaderSteps
    \/ ReadFault

Spec == Init /\ [][Next]_vars

\* A call in progress goes on when it is not blocked, and the reader keeps
\* calling BecoReadRaw; nothing obliges the application to write or to close.
FairSpec == Spec /\ WF_vars(WriterSteps) /\ WF_vars(ReaderSteps)

-----------------------------------------------------------------------------
(* Properties *)

\* The frame that position i of the reader's stream stands for is untorn.
Whole(i) == bad = 0 \/ i < bad

\* Up to the first torn frame the reader is handed exactly the payloads that
\* were sent, in order, although headers and payloads cross a stdio buffer and
\* a small pipe in pieces (beco.c:333-396).
FaithfulUntilTorn ==
    \A i \in 1..Len(rcvd) : Whole(i) => i <= Len(sent) /\ rcvd[i] = sent[i]

\* A frame whose BecoWrite returned OK has left the process: its last byte is
\* in the pipe, where neither a later error of the same FILE nor the death of
\* the writer can take it back (the fflush of beco.c:389).
AckedHasLeft ==
    \A k \in acked : \E p \in 1..dr : log[p] = <<k, Total(k)>>

\* What BecoReadRaw gives to malloc (beco.c:348) is a length the sender's
\* limit allowed, as long as the stream is not torn: the reader has no limit
\* of its own.
BoundedAllocation ==
    rpc = "body" /\ Whole(Len(rcvd) + 1) => rsize <= MaxSize

\* The bytes are an implementation of the message channel.
Channel == INSTANCE MessageChannel
           WITH accepted <- sent, delivered <- rcvd, broken <- bad
ImplementsChannel == Channel!Spec

\* Every BecoWriteRaw returns, even for a frame longer than the pipe, as long
\* as the other side keeps reading (beco.c:376-392).
WriteReturns == wpc \in Busy ~> wpc \notin Busy

\* A frame whose BecoWrite returned OK reaches the reader, whatever becomes of
\* the writer, unless a failing write or read tears it or a frame before it
\* (beco.c:364-396 with 333-362).
AckedArrives ==
    \A k \in 1..MaxWrites :
        k \in acked ~> ~Whole(k) \/ (k <= Len(rcvd) /\ rcvd[k] = sent[k])

=============================================================================
