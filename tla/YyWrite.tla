------------------------------ MODULE YyWrite ------------------------------
(***************************************************************************)
(* The JSON writers of yyjson (3rd/yyjson.c:6401-7400) at work on the      *)
(* documents the reader made: yyjson_write_opts on the values as they lie, *)
(* yyjson_mut_write_opts on the mutable copy yyjson_doc_mut_copy makes of  *)
(* them (1250-1332), each in its two layouts.                              *)
(*                                                                         *)
(* A writer fills one block from both ends: the text grows from the front, *)
(* the stack of the containers it is in from the back, and incr_len makes  *)
(* the block longer before they meet.  What is written is kept as lexemes, *)
(* with the bytes they take beside them; the four spaces of an indentation *)
(* are one blank.                                                          *)
(***************************************************************************)
EXTENDS YyRead

CONSTANTS Strings,      \* strings: their length, and the bytes they take when written
          NumberBytes   \* the bytes a number may take

ASSUME WidthAssumption ==
    /\ \A s \in Strings : /\ s.len \in Nat /\ s.bytes \in Nat
                          /\ s.len + 2 <= s.bytes /\ s.bytes <= 6 * s.len + 2
    /\ NumberBytes \subseteq 1 .. 31

VARIABLES how,          \* the writer: of a mutable document or not, pretty or not,
                        \* and what it does about NaN
          copy,         \* the mutable copy
          wpc,          \* "idle", "val_begin", "ctn_end", "done", "failed"
          out,
          wcur,         \* cur - hdr
          wtop,         \* the end of the last bytes stored
          walc,         \* alc_len
          stack,        \* the contexts, the last one pushed first
          wval, wctn,   \* val and ctn
          wlen, wobj,   \* ctn_len and ctn_obj
          werr          \* err->code

wvars == <<how, copy, wpc, out, wcur, wtop, walc, stack, wval, wctn, wlen, wobj, werr>>

Hows == [mut : BOOLEAN, pretty : BOOLEAN, nan : {"refuse", "write", "null"}]

-----------------------------------------------------------------------------
(* yyjson_val_mut_copy *)

\* Mutant: the tail of an object is its last value, not its last key.
TailValue(i) == IF ~IsCtn(i) \/ Parts(i) = 0 THEN 0 ELSE Part(i)[Parts(i)]

\* A container's pointer: the last of its members, in an object the last key.
TailOf(i) == IF ~IsCtn(i) \/ Parts(i) = 0 THEN 0
             ELSE Part(i)[IF vals[i].kind = "obj" THEN Parts(i) - 1 ELSE Parts(i)]

\* The members of a container, keys and values in turn, become a ring.
Behind(i) ==
    LET c == CHOOSE c \in 1 .. i - 1 : \E k \in 1 .. Parts(c) : Part(c)[k] = i
        k == CHOOSE k \in 1 .. Parts(c) : Part(c)[k] = i
    IN  IF k = Parts(c) THEN c + 1 ELSE Part(c)[k + 1]

MutCopy == [i \in 1 .. Len(vals) |->
               [kind |-> vals[i].kind, len |-> vals[i].len,
                next |-> IF i = 1 THEN 0 ELSE Behind(i), tail |-> TailOf(i)]]

-----------------------------------------------------------------------------
(* What the writers have in common *)

Val(i) == IF how.mut THEN copy[i] ELSE vals[i]
KindAt(i) == Val(i).kind
LenAt(i)  == Val(i).len

\* Mutant: the length of an object is not doubled.
NotDoubled(obj, n) == n

\* ctn_len counts keys and values.
Double(obj, n) == IF obj THEN 2 * n ELSE n

\* The first member of a container, and what comes behind a value.
FirstOf(i) == IF ~how.mut THEN i + 1
              ELSE LET after == copy[copy[i].tail].next
                   IN  IF copy[i].kind = "obj" THEN copy[after].next ELSE after
NextOf(i) == IF how.mut THEN copy[i].next ELSE i + 1

CtxSize == IF how.mut THEN 16 ELSE 8
AlignUp(n) == ((n + CtxSize - 1) \div CtxSize) * CtxSize
CtxAt(alc, s) == alc - CtxSize * Len(s)

\* Mutant: the contexts on the stack are forgotten.
IncrOverStack(c, ext) ==
    IF c + ext < walc THEN walc
    ELSE walc + AlignUp(IF walc \div 2 > ext THEN walc \div 2 ELSE ext)

\* incr_len
Incr(c, ext) ==
    IF c + ext < CtxAt(walc, stack) THEN walc
    ELSE walc + AlignUp(IF walc \div 2 > ext THEN walc \div 2 ELSE ext)

level == Len(stack) + 1
IsKey == wobj /\ wlen % 2 = 0
NoIndent == wobj /\ wlen % 2 = 1
Indents  == IF how.pretty /\ ~NoIndent THEN level ELSE 0
Tabs(n)  == [i \in 1 .. n |-> " "]

Separator == IF how.pretty THEN <<",", "\n">> ELSE <<",">>
Colon == IF how.pretty THEN <<":", " ">> ELSE <<":">>

\* What is written for a scalar: the lexeme, the bytes incr_len asks for, those
\* written and those stored, which may be more.  The reader's numbers that are
\* no NaN take what NumberBytes says.
IsNaN(kind) == kind \in {"nan", "NaN", "Inf"}
LexemeOf(kind) == CASE kind = "nan" -> "NaN" [] OTHER -> kind
Forms(kind) ==
    CASE kind = "str" -> {[lex |-> "str", ask |-> 6 * s.len + 16, bytes |-> s.bytes,
                           stored |-> s.bytes] : s \in Strings}
      [] kind = "num" -> {[lex |-> "num", ask |-> 32, bytes |-> n, stored |-> n]
                          : n \in NumberBytes}
      [] IsNaN(kind)  -> IF how.nan = "null"
                         THEN {[lex |-> "null", ask |-> 32, bytes |-> 4, stored |-> 4]}
                         ELSE {[lex |-> LexemeOf(kind), ask |-> 32, bytes |-> 9, stored |-> 9]}
      [] kind \in {"true", "false"} ->
            {[lex |-> kind, ask |-> 16, bytes |-> IF kind = "true" THEN 4 ELSE 5, stored |-> 8]}
      [] kind = "null" -> {[lex |-> "null", ask |-> 16, bytes |-> 4, stored |-> 8]}
      [] OTHER -> {}
Refused(kind) == IsNaN(kind) /\ how.nan = "refuse"

GiveUp(code) == wpc' = "failed" /\ werr' = code

Bigger(a, b) == IF a > b THEN a ELSE b

\* Indentation, f's lexemes and those that follow it, at wcur.
Put(lexemes, bytes, stored, behind) ==
    LET start == wcur + 4 * Indents
    IN  /\ out' = out \o Tabs(Indents) \o lexemes \o behind
        /\ wcur' = start + bytes + Len(behind)
        /\ wtop' = start + Bigger(bytes + Len(behind), stored)

\* A value that is no container with members is done.
Counted ==
    /\ wlen' = wlen - 1
    /\ IF wlen = 1 THEN wpc' = "ctn_end" /\ wval' = (IF how.mut THEN wval ELSE NextOf(wval))
       ELSE wpc' = "val_begin" /\ wval' = NextOf(wval)
    /\ UNCHANGED <<stack, wctn, wobj>>

-----------------------------------------------------------------------------
(* yyjson_write_opts, yyjson_mut_write_opts, and the single writer *)

\* The writer starts on the document read.  Its block begins with 64 bytes, and
\* 18 or 32 for each value of an immutable document.
Start ==
    /\ wpc = "idle" /\ pc = "done"
    /\ \E h \in Hows :
          /\ (\A i \in 1 .. Len(vals) : ~IsNaN(vals[i].kind)) => h.nan = "refuse"
          /\ how' = h
          /\ copy' = IF h.mut THEN MutCopy ELSE <<>>
    /\ wpc' = "opened"
    /\ UNCHANGED <<out, wcur, wtop, walc, stack, wval, wctn, wlen, wobj, werr>>

Several == Parts(1) > 0 /\ IsCtn(1)

Open ==
    /\ wpc = "opened" /\ Several
    /\ walc' = AlignUp(64 + IF how.mut THEN 0 ELSE Len(vals) * IF how.pretty THEN 32 ELSE 18)
    /\ out' = <<IF vals[1].kind = "obj" THEN "{" ELSE "[">>
              \o IF how.pretty THEN <<"\n">> ELSE <<>>
    /\ wcur' = Len(out') /\ wtop' = Len(out')
    /\ wobj' = (vals[1].kind = "obj") /\ wlen' = Parts(1)
    /\ wctn' = 1 /\ wval' = FirstOf(1)
    /\ wpc' = "val_begin"
    /\ UNCHANGED <<how, copy, stack, werr>>

\* yyjson_write_single: the block is what the value may take.
WriteSingle ==
    /\ wpc = "opened" /\ ~Several
    /\ \/ \E f \in Forms(KindAt(1)) :
             /\ ~Refused(KindAt(1))
             /\ walc' = CASE f.lex = "str" -> f.ask - 12 [] f.ask = 16 -> 8 [] OTHER -> f.ask
             /\ out' = <<f.lex>> /\ wcur' = f.bytes
             /\ wtop' = Bigger(f.stored, f.bytes + 1) /\ wpc' = "done" /\ UNCHANGED werr
       \/ /\ Refused(KindAt(1))
          /\ GiveUp("NAN_OR_INF") /\ UNCHANGED <<out, wcur, wtop, walc>>
       \/ /\ IsCtn(1)
          /\ walc' = 4 /\ wcur' = 2 /\ wtop' = 3
          /\ out' = IF vals[1].kind = "obj" THEN <<"{", "}">> ELSE <<"[", "]">>
          /\ wpc' = "done" /\ UNCHANGED werr
    /\ UNCHANGED <<how, copy, stack, wval, wctn, wlen, wobj>>

-----------------------------------------------------------------------------
(* The labels of the four writers *)

WriteScalar ==
    /\ wpc = "val_begin" /\ ~Refused(KindAt(wval))
    /\ \E f \in Forms(KindAt(wval)) :
          /\ walc' = Incr(wcur, f.ask + 4 * Indents)
          /\ Put(<<f.lex>>, f.bytes, f.stored,
                 IF f.lex = "str" /\ IsKey THEN Colon ELSE Separator)
    /\ Counted
    /\ UNCHANGED <<how, copy, werr>>

\* write_number returns NULL.
WriteRefused ==
    /\ wpc = "val_begin" /\ Refused(KindAt(wval))
    /\ GiveUp("NAN_OR_INF")
    /\ UNCHANGED <<how, copy, out, wcur, wtop, walc, stack, wval, wctn, wlen, wobj>>

WriteEmpty ==
    /\ wpc = "val_begin" /\ KindAt(wval) \in {"arr", "obj"} /\ LenAt(wval) = 0
    /\ walc' = Incr(wcur, 16 + 4 * Indents)
    /\ Put(IF KindAt(wval) = "obj" THEN <<"{", "}">> ELSE <<"[", "]">>, 2, 2, Separator)
    /\ Counted
    /\ UNCHANGED <<how, copy, werr>>

Enter ==
    /\ wpc = "val_begin" /\ KindAt(wval) \in {"arr", "obj"} /\ LenAt(wval) > 0
    /\ walc' = Incr(wcur, IF how.pretty THEN 32 + 4 * Indents ELSE 16)
    /\ stack' = <<[len |-> wlen, obj |-> wobj, ctn |-> wctn]>> \o stack
    /\ wobj' = (KindAt(wval) = "obj")
    /\ wlen' = Double(wobj', LenAt(wval))
    /\ Put(IF wobj' THEN <<"{">> ELSE <<"[">>, 1, 1, IF how.pretty THEN <<"\n">> ELSE <<>>)
    /\ wctn' = wval /\ wval' = FirstOf(wval)
    /\ UNCHANGED <<how, copy, wpc, werr>>

\* ctn_end: the bracket takes the place of the last separator; the innermost
\* context is taken back.
CtnEnd ==
    LET kept   == SubSeq(out, 1, Len(out) - Len(Separator))
        base   == wcur - 1   \* the line break has taken the place of the comma
        indent == IF how.pretty THEN Len(stack) ELSE 0
        close  == IF wobj THEN "}" ELSE "]"
        last   == stack = <<>>
    IN  /\ wpc = "ctn_end"
        /\ walc' = IF how.pretty THEN Incr(base, 4 * level) ELSE walc
        /\ out' = kept \o (IF how.pretty THEN <<"\n">> ELSE <<>>) \o Tabs(indent) \o <<close>>
                  \o IF last THEN <<>> ELSE Separator
        /\ wcur' = base + 4 * indent + 1 + IF last THEN 0 ELSE Len(Separator)
        /\ wtop' = wcur' + IF last THEN 1 ELSE 0
        /\ IF last THEN wpc' = "done" /\ UNCHANGED <<stack, wval, wctn, wlen, wobj>>
           ELSE /\ stack' = Tail(stack)
                /\ wctn' = stack[1].ctn /\ wobj' = stack[1].obj
                /\ wlen' = stack[1].len - 1
                /\ wval' = IF how.mut THEN NextOf(wctn) ELSE wval
                /\ wpc' = IF wlen' > 0 THEN "val_begin" ELSE "ctn_end"
        /\ UNCHANGED <<how, copy, werr>>

\* malloc, realloc, or the copy's pools return NULL.
WriterNoMemory ==
    /\ job.alloc
    /\ \/ wpc = "opened"
       \/ /\ wpc = "val_begin" /\ ~IsNaN(KindAt(wval))
          /\ \E ask \in {f.ask : f \in Forms(KindAt(wval))} \cup
                        {IF how.pretty /\ KindAt(wval) \in {"arr", "obj"} /\ LenAt(wval) > 0
                         THEN 32 ELSE 16} :
                Incr(wcur, ask + 4 * Indents) # walc
       \/ wpc = "ctn_end" /\ how.pretty /\ Incr(wcur - 1, 4 * level) # walc
    /\ GiveUp("MEMORY_ALLOCATION")
    /\ UNCHANGED <<how, copy, out, wcur, wtop, walc, stack, wval, wctn, wlen, wobj>>

-----------------------------------------------------------------------------
WInit ==
    /\ Init
    /\ how = [mut |-> FALSE, pretty |-> FALSE, nan |-> "refuse"] /\ copy = <<>>
    /\ wpc = "idle" /\ out = <<>> /\ wcur = 0 /\ wtop = 0 /\ walc = 0 /\ stack = <<>>
    /\ wval = 0 /\ wctn = 0 /\ wlen = 0 /\ wobj = FALSE /\ werr = "SUCCESS"

WLabel == WriteScalar \/ WriteRefused \/ WriteEmpty \/ Enter \/ CtnEnd

\* The writers of containers, as yyjson_write_opts and yyjson_mut_write_opts
\* choose them.
WriteMinify    == ~how.mut /\ ~how.pretty /\ (Open \/ WLabel)
WritePretty    == ~how.mut /\ how.pretty /\ (Open \/ WLabel)
MutWriteMinify == how.mut /\ ~how.pretty /\ (Open \/ WLabel)
MutWritePretty == how.mut /\ how.pretty /\ (Open \/ WLabel)

Write == Start \/ WriteSingle \/ WriteMinify \/ WritePretty \/ MutWriteMinify
         \/ MutWritePretty \/ WriterNoMemory
WNext == (Next /\ UNCHANGED wvars) \/ (Write /\ UNCHANGED vars)
WSpec == WInit /\ [][WNext]_<<vars, wvars>> /\ WF_<<vars, wvars>>(WNext)

-----------------------------------------------------------------------------
(* Properties *)

\* A tree as the writer means it.
RECURSIVE Meant(_)
Meant(t) ==
    IF t[1] \in {"arr", "obj"} THEN <<t[1]>> \o [k \in 1 .. Len(t) - 1 |-> Meant(t[k + 1])]
    ELSE IF IsNaN(t[1]) /\ how.nan = "null" THEN <<"null">> ELSE <<LexemeOf(t[1])>>

\* What a writer writes reads back as the document it was given, whether it walks
\* the values in a row or the rings of a copy, and in both layouts; it fails only
\* for a number that is none, or for want of memory (yyjson.c:6566-6722,
\* 6725-6903, 7010-7350: lengths and containers kept on a stack, the doubled
\* length of objects, the last separator taken back; 1266-1332).
ReadsBack ==
    /\ wpc = "done" => Document(out) = Meant(Tree(1))
    /\ wpc = "failed" =>
          \/ werr = "MEMORY_ALLOCATION" /\ job.alloc
          \/ werr = "NAN_OR_INF" /\ how.nan = "refuse" /\ \E i \in 1 .. Len(vals) : IsNaN(vals[i].kind)

\* The reader writes no value behind those allocated, though the value of a key is
\* taken without asking; and the writer's text never meets the stack that grows
\* towards it, before a step or after it, though closing a container writes without
\* asking (yyjson.c:4386-4399, 4621, 6581-6598, 6699-6709, 6878-6891).
InBounds ==
    [][ /\ HdrLen + Len(vals') <= alcLen'
        /\ wtop' <= CtxAt(walc', IF Len(stack') > Len(stack) THEN stack' ELSE stack) ]_<<vars, wvars>>

\* Whatever the text, the reader and the writer come to an end: no loop of theirs
\* turns without taking a byte or a value (yyjson.c:4448-4752, 6629-6722).
Terminates == <>(pc = "failed" \/ wpc \in {"done", "failed"})

=============================================================================
