------------------------------- MODULE YyRead -------------------------------
(***************************************************************************)
(* The JSON reader of yyjson (3rd/yyjson.c:4258-5300): yyjson_read_opts    *)
(* and the three readers it chooses from, as the state machine their       *)
(* labels make.  The text is a sequence of lexemes: a structural character *)
(* and a white space are lexemes of one byte, the others stand for what    *)
(* one call of read_string, read_number or read_true.. accepts or refuses, *)
(* and for a comment.                                                      *)
(*                                                                         *)
(* The values of a document lie one behind the other.  A container that is *)
(* open keeps in ofs the distance to its parent, and in len, while a child *)
(* is read, the values it has so far; when it is closed, ofs becomes the   *)
(* distance to what follows it and len the number of its members.          *)
(*                                                                         *)
(* The text is chosen while it is read: Supply adds lexemes ahead of the   *)
(* reader, which waits until it can see as far as its step looks.          *)
(***************************************************************************)
EXTENDS Integers, Sequences, FiniteSets

CONSTANTS Jobs,    \* calls of yyjson_read_opts: the flags, the lexemes its texts are
                   \* made of, how many at most (a bound of the model), and whether
                   \* malloc and realloc may fail
          HdrLen   \* values the document's header takes

Brackets == {"{", "}", "[", "]", ",", ":"}
Space    == {" ", "\n"}
Number   == {"num", "badnum"}
String   == {"str", "badstr"}
TrueOrFalse == {"true", "false", "badlit"}  \* *cur is 't' or 'f'
NullOrNan   == {"null", "nan"}              \* *cur is 'n'
InfOrNaN    == {"NaN", "Inf"}               \* *cur is 'N', 'I' or 'i'
Comment  == "cmt"                           \* /* closed */, or // and its line
Unclosed == "/*"                            \* and what follows, never closed

Lexeme == Brackets \cup Space \cup Number \cup String \cup TrueOrFalse \cup NullOrNan
          \cup InfOrNaN \cup {Comment, Unclosed, "#"}
Flag   == {"STOP_WHEN_DONE", "ALLOW_TRAILING_COMMAS", "ALLOW_COMMENTS", "ALLOW_INF_AND_NAN"}

ASSUME ReadAssumption ==
    /\ \A j \in Jobs : /\ DOMAIN j = {"flg", "lexemes", "max", "alloc"}
                       /\ j.flg \subseteq Flag /\ j.lexemes \subseteq Lexeme
                       /\ j.max \in Nat \ {0} /\ j.alloc \in BOOLEAN
    /\ HdrLen \in Nat \ {0}

VARIABLES text, whole, \* the text as far as it is chosen, and whether it ends there
          job,
          mode,        \* "single", "minify" or "pretty": the reader chosen
          pc,          \* the label; "skip" and "root" before the first one,
                       \* "done" and "failed" after the last
          cur,
          vals,        \* the values from the root to val
          ctn, len,    \* the current container, ctn_len
          alcLen,      \* alc_len: values allocated, the header's included
          err

vars == <<text, whole, job, mode, pc, cur, vals, ctn, len, alcLen, err>>
input == <<text, whole, job, mode>>

flg == job.flg

NoErr == [code |-> "SUCCESS", pos |-> 0]
Ended == pc \in {"done", "failed"}

-----------------------------------------------------------------------------
(* The text *)

\* *c.  Behind the text there are zeros.
At(c) == IF c <= Len(text) THEN text[c] ELSE "NUL"
PastEnd(c) == c > Len(text)

\* The first place from c on that holds none of skipped.
Past(c, skipped) ==
    CHOOSE d \in c .. Len(text) + 1 :
        /\ At(d) \notin skipped
        /\ \A i \in c .. d - 1 : At(i) \in skipped

\* Where skip_spaces_and_comments ends.
SkipEnd(c) == Past(c, Space \cup {Comment})

\* The reader sees the next lexeme that is no blank, and the lexemes it looks
\* at: cur[1] and cur[2] in yyjson_read_opts, cur[1] elsewhere.
Seen == whole \/ Len(text) >= SkipEnd(cur) + (IF pc = "root" THEN 2 ELSE 1)

\* Two numbers with nothing between them are one.
Supply ==
    /\ ~Ended /\ ~Seen
    /\ \/ /\ Len(text) < job.max
          /\ \E x \in job.lexemes :
                /\ x \in Number /\ text # <<>> => text[Len(text)] \notin Number
                /\ text' = Append(text, x)
                /\ whole' = (x = Unclosed)
       \/ text # <<>> /\ whole' = TRUE /\ text' = text
    /\ UNCHANGED <<job, mode, pc, cur, vals, ctn, len, alcLen, err>>

-----------------------------------------------------------------------------
(* The values of a document that is read *)

IsCtn(i) == vals[i].kind \in {"arr", "obj"}

\* unsafe_yyjson_get_next
After(i) == IF IsCtn(i) THEN i + vals[i].ofs ELSE i + 1

\* The members of a container, its keys among them, and where they lie.
Parts(i) == IF vals[i].kind = "obj" THEN 2 * vals[i].len ELSE vals[i].len
Part(i) ==
    LET at[k \in 1 .. Parts(i)] == IF k = 1 THEN i + 1 ELSE LET j == at[k - 1] IN After(j)
    IN  at

-----------------------------------------------------------------------------
(* What the labels have in common *)

Goto(label, c) == pc' = label /\ cur' = c
Stay == UNCHANGED <<vals, ctn, len, alcLen>>

\* return_err: whatever was wrong, an error at the end is an unexpected end.
Fail(code, pos) ==
    /\ pc' = "failed" /\ UNCHANGED <<cur, vals, ctn, len, alcLen>>
    /\ err' = IF PastEnd(pos) THEN [code |-> "UNEXPECTED_END", pos |-> Len(text) + 1]
              ELSE [code |-> code, pos |-> pos]

\* Mutant: room is made only when nothing is left.
FullAtEnd == HdrLen + Len(vals) >= alcLen

\* val_incr: two values are kept free at the end.
Full == HdrLen + Len(vals) >= alcLen - 2
Grown == IF Full THEN alcLen + alcLen \div 2 ELSE alcLen

\* Mutant: that something is skipped is not asked.
SkippedAnything(c) == At(SkipEnd(c)) # Unclosed

\* skip_spaces_and_comments succeeds: it skips something and meets no unclosed
\* comment.
Skipped(c) == SkipEnd(c) # c /\ At(SkipEnd(c)) # Unclosed

\* Mutant: an error behind comments is reported before them.
OtherwiseEarly(c) ==
    \/ At(c) \in Space /\ Goto(pc, Past(c, Space)) /\ Stay /\ UNCHANGED err
    \/ /\ At(c) \notin Space /\ "ALLOW_COMMENTS" \in flg
       /\ \/ Skipped(c) /\ Goto(pc, SkipEnd(c)) /\ Stay /\ UNCHANGED err
          \/ ~Skipped(c) /\ Fail("UNEXPECTED_CHARACTER", c)
    \/ At(c) \notin Space /\ "ALLOW_COMMENTS" \notin flg /\ Fail("UNEXPECTED_CHARACTER", c)

\* The last tests of a label, when *c is none of what it expects.
Otherwise(c) ==
    \/ At(c) \in Space /\ Goto(pc, Past(c, Space)) /\ Stay /\ UNCHANGED err
    \/ /\ At(c) \notin Space /\ "ALLOW_COMMENTS" \in flg
       /\ \/ Skipped(c) /\ Goto(pc, SkipEnd(c)) /\ Stay /\ UNCHANGED err
          \/ /\ ~Skipped(c)
             /\ Fail(IF At(SkipEnd(c)) = Unclosed THEN "INVALID_COMMENT"
                     ELSE "UNEXPECTED_CHARACTER", SkipEnd(c))
    \/ At(c) \notin Space /\ "ALLOW_COMMENTS" \notin flg /\ Fail("UNEXPECTED_CHARACTER", c)

Scalar(x) == [kind |-> x, len |-> 0, ofs |-> 0]

\* A scalar at c: read_number, read_string, read_true, ... into a new value, for
\* which room is made only if incr.
Accepts(x) == \/ x \in {"num", "str", "true", "false", "null"}
              \/ x \in {"nan", "NaN"} /\ "ALLOW_INF_AND_NAN" \in flg
ReadScalar(c, label, incr) ==
    \/ /\ Accepts(At(c))
       /\ Goto(label, c + 1)
       /\ vals' = Append(vals, Scalar(At(c)))
       /\ len' = len + 1
       /\ alcLen' = IF incr THEN Grown ELSE alcLen
       /\ UNCHANGED <<ctn, err>>
    \/ /\ At(c) \in {"badlit", "nan"} /\ ~Accepts(At(c))
       /\ Fail("LITERAL", c)
    \/ \E pos \in {c, c + 1} :  \* in the lexeme, or behind it
          \/ At(c) = "badnum" /\ Fail("INVALID_NUMBER", pos)
          \/ At(c) = "badstr" /\ Fail("INVALID_STRING", pos)

\* What begins a scalar at a value's place.  Only 'N' is looked for, so Inf
\* does not.
ScalarStart == Number \cup String \cup TrueOrFalse \cup NullOrNan
               \cup IF "ALLOW_INF_AND_NAN" \in flg THEN {"NaN"} ELSE {}

\* The line break the pretty reader skips behind a bracket.
Break(c) == IF mode = "pretty" /\ At(c) = "\n" THEN c + 1 ELSE c

\* Its indentation: spaces, two at a time.
Indent(c) ==
    LET d == Past(c, {" "}) IN IF mode = "pretty" THEN c + 2 * ((d - c) \div 2) ELSE c

\* Two lexemes the pretty reader takes at once.
Both(c, x, y) == mode = "pretty" /\ At(c) = x /\ At(c + 1) = y

-----------------------------------------------------------------------------
(* yyjson_read_opts *)

Skip ==
    LET start == IF At(1) \in Space \cup {Comment, Unclosed}
                 THEN IF "ALLOW_COMMENTS" \in flg THEN SkipEnd(1) ELSE Past(1, Space)
                 ELSE 1
        unclosed == "ALLOW_COMMENTS" \in flg /\ At(start) = Unclosed
    IN  /\ pc = "skip"
        /\ \/ /\ unclosed
              /\ pc' = "failed" /\ err' = [code |-> "INVALID_COMMENT", pos |-> start]
              /\ UNCHANGED cur
           \/ /\ ~unclosed /\ PastEnd(start)
              /\ pc' = "failed" /\ err' = [code |-> "EMPTY_CONTENT", pos |-> 1]
              /\ UNCHANGED cur
           \/ ~unclosed /\ ~PastEnd(start) /\ Goto("root", start) /\ UNCHANGED err
        /\ UNCHANGED <<input, vals, ctn, len, alcLen>>

\* The reader is chosen, and the container it starts with becomes the root.  Four
\* values are allocated beside the header; the reader adds one for each 6 or 16
\* bytes of the text, which is left out: with fewer, room is made sooner.
Container ==
    /\ pc = "root" /\ At(cur) \in {"[", "{"}
    /\ mode' = IF At(cur + 1) \in Space /\ At(cur + 2) \in Space THEN "pretty" ELSE "minify"
    /\ vals' = <<[kind |-> IF At(cur) = "{" THEN "obj" ELSE "arr", len |-> 0, ofs |-> 0]>>
    /\ ctn' = 1 /\ len' = 0
    /\ alcLen' = HdrLen + 4
    /\ Goto(IF At(cur) = "{" THEN "obj_key_begin" ELSE "arr_val_begin",
            IF mode' = "pretty" /\ At(cur + 1) = "\n" THEN cur + 2 ELSE cur + 1)
    /\ UNCHANGED <<text, whole, job, err>>

\* read_root_single.  Its literals may be Inf.
Single ==
    /\ pc = "root" /\ At(cur) \notin {"[", "{"}
    /\ \/ ReadScalar(cur, "doc_end", FALSE)
       \/ /\ At(cur) = "Inf" /\ "ALLOW_INF_AND_NAN" \in flg
          /\ Goto("doc_end", cur + 1) /\ vals' = <<Scalar("Inf")>> /\ len' = 1
          /\ UNCHANGED <<ctn, alcLen, err>>
       \/ /\ At(cur) \notin Number \cup String \cup TrueOrFalse \cup NullOrNan
          /\ ~(At(cur) \in InfOrNaN /\ "ALLOW_INF_AND_NAN" \in flg)
          /\ Fail("UNEXPECTED_CHARACTER", cur)
    /\ mode' = "single"
    /\ UNCHANGED <<text, whole, job>>

-----------------------------------------------------------------------------
(* The labels of read_root_minify and read_root_pretty *)

\* Mutant: the new container does not count in its parent.
PushUncounted(kind, label, c) ==
    /\ vals' = Append([vals EXCEPT ![ctn].len = len],
                      [kind |-> kind, len |-> 0, ofs |-> Len(vals) + 1 - ctn])
    /\ ctn' = Len(vals) + 1 /\ len' = 0
    /\ alcLen' = Grown
    /\ Goto(label, Break(c))
    /\ UNCHANGED err

\* arr_begin and obj_begin, the bracket being before c.
Push(kind, label, c) ==
    /\ vals' = Append([vals EXCEPT ![ctn].len = len + 1],
                      [kind |-> kind, len |-> 0, ofs |-> Len(vals) + 1 - ctn])
    /\ ctn' = Len(vals) + 1 /\ len' = 0
    /\ alcLen' = Grown
    /\ Goto(label, Break(c))
    /\ UNCHANGED err

PushAt(c) == \/ At(c) = "{" /\ Push("obj", "obj_key_begin", c + 1)
             \/ At(c) = "[" /\ Push("arr", "arr_val_begin", c + 1)

\* arr_end and obj_end: the container is closed, its parent the current one.
Pop(kind, c) ==
    LET parent == ctn - vals[ctn].ofs
    IN  /\ vals' = [vals EXCEPT ![ctn] =
                       [kind |-> kind, len |-> IF kind = "obj" THEN len \div 2 ELSE len,
                        ofs |-> Len(vals) - ctn + 1]]
        /\ IF parent = ctn THEN Goto("doc_end", c) /\ UNCHANGED <<ctn, len>>
           ELSE /\ Goto(IF vals[parent].kind = "obj" THEN "obj_val_end" ELSE "arr_val_end",
                        Break(c))
                /\ ctn' = parent /\ len' = vals[parent].len
        /\ UNCHANGED <<alcLen, err>>

\* A closing bracket where a member might be.
CloseEmpty(kind, c) ==
    \/ (len = 0 \/ "ALLOW_TRAILING_COMMAS" \in flg) /\ Pop(kind, c + 1)
    \/ len # 0 /\ "ALLOW_TRAILING_COMMAS" \notin flg /\ Fail("JSON_STRUCTURE", c + 1)

ArrValBegin ==
    LET c == Indent(cur)
    IN  /\ pc = "arr_val_begin"
        /\ \/ PushAt(c)
           \/ At(c) \in ScalarStart /\ ReadScalar(c, "arr_val_end", TRUE)
           \/ At(c) = "]" /\ CloseEmpty("arr", c)
           \/ At(c) \notin {"{", "[", "]"} \cup ScalarStart /\ Otherwise(c)

ArrValEnd ==
    /\ pc = "arr_val_end"
    /\ \/ /\ At(cur) = ","
          /\ Goto("arr_val_begin", IF Both(cur, ",", "\n") THEN cur + 2 ELSE cur + 1)
          /\ Stay /\ UNCHANGED err
       \/ At(cur) = "]" /\ Pop("arr", cur + 1)
       \/ At(cur) \notin {",", "]"} /\ Otherwise(cur)

ObjKeyBegin ==
    LET c == Indent(cur)
    IN  /\ pc = "obj_key_begin"
        /\ \/ At(c) \in String /\ ReadScalar(c, "obj_key_end", TRUE)
           \/ At(c) = "}" /\ CloseEmpty("obj", c)
           \/ At(c) \notin String \cup {"}"} /\ Otherwise(c)

ObjKeyEnd ==
    /\ pc = "obj_key_end"
    /\ \/ /\ At(cur) = ":"
          /\ Goto("obj_val_begin", IF Both(cur, ":", " ") THEN cur + 2 ELSE cur + 1)
          /\ Stay /\ UNCHANGED err
       \/ At(cur) # ":" /\ Otherwise(cur)

\* The key has made room for its value.
ObjValBegin ==
    /\ pc = "obj_val_begin"
    /\ \/ PushAt(cur)
       \/ At(cur) \in ScalarStart /\ ReadScalar(cur, "obj_val_end", FALSE)
       \/ At(cur) \notin {"{", "["} \cup ScalarStart /\ Otherwise(cur)

ObjValEnd ==
    /\ pc = "obj_val_end"
    /\ \/ /\ At(cur) = ","
          /\ Goto("obj_key_begin", IF Both(cur, ",", "\n") THEN cur + 2 ELSE cur + 1)
          /\ Stay /\ UNCHANGED err
       \/ At(cur) = "}" /\ Pop("obj", cur + 1)
       \/ At(cur) \notin {",", "}"} /\ Otherwise(cur)

Label == ArrValBegin \/ ArrValEnd \/ ObjKeyBegin \/ ObjKeyEnd \/ ObjValBegin \/ ObjValEnd

\* The two readers of containers.
ReadRootMinify == mode = "minify" /\ Label /\ UNCHANGED input
ReadRootPretty == mode = "pretty" /\ Label /\ UNCHANGED input

\* doc_end.  Only the single reader knows an unclosed comment there.
DocEnd ==
    LET c == IF PastEnd(cur) \/ "STOP_WHEN_DONE" \in flg THEN cur
             ELSE IF "ALLOW_COMMENTS" \in flg THEN SkipEnd(cur) ELSE Past(cur, Space)
    IN  /\ pc = "doc_end"
        /\ \/ /\ PastEnd(c) \/ "STOP_WHEN_DONE" \in flg
              /\ Goto("done", c) /\ Stay /\ UNCHANGED err
           \/ /\ ~PastEnd(c) /\ "STOP_WHEN_DONE" \notin flg
              /\ Fail(IF mode = "single" /\ "ALLOW_COMMENTS" \in flg /\ At(c) = Unclosed
                      THEN "INVALID_COMMENT" ELSE "UNEXPECTED_CONTENT", c)
        /\ UNCHANGED input

\* malloc for the reader, or realloc in val_incr, returns NULL.
NoMemory ==
    LET c == IF pc \in {"arr_val_begin", "obj_key_begin"} THEN Indent(cur) ELSE cur
    IN  /\ job.alloc
        /\ \/ pc = "root" /\ Fail("MEMORY_ALLOCATION", c)
           \/ /\ Full
              /\ \/ /\ pc \in {"arr_val_begin", "obj_val_begin"} /\ At(c) \in {"{", "["}
                    /\ Fail("MEMORY_ALLOCATION", c + 1)
                 \/ /\ \/ pc = "arr_val_begin" /\ At(c) \in ScalarStart
                       \/ pc = "obj_key_begin" /\ At(c) \in String
                    /\ Fail("MEMORY_ALLOCATION", c)
        /\ UNCHANGED input

-----------------------------------------------------------------------------
Init ==
    /\ text = <<>> /\ whole = FALSE /\ job \in Jobs /\ mode = "single"
    /\ pc = "skip" /\ cur = 1
    /\ vals = <<>> /\ ctn = 0 /\ len = 0 /\ alcLen = HdrLen + 1
    /\ err = NoErr

Read == Seen /\ (Skip \/ Container \/ Single \/ ReadRootMinify \/ ReadRootPretty \/ DocEnd \/ NoMemory)
Next == Supply \/ Read

-----------------------------------------------------------------------------
(* What a text says: the grammar of JSON, with what the flags add, over the *)
(* lexemes that are no blanks.                                              *)

Blank == Space \cup IF "ALLOW_COMMENTS" \in flg THEN {Comment} ELSE {}
Bare(t) == SelectSeq(t, LAMBDA x : x \notin Blank)

\* A value of t at i: what it is ("bad" if t goes wrong, "more" if t ends in
\* it), and the place where it ends.  Inf is a value only by itself.
BadText  == <<"bad">>
MoreText == <<"more">>
Bad  == [is |-> BadText, next |-> 0]
More == [is |-> MoreText, next |-> 0]
Leaf(x, i) == [is |-> <<x>>, next |-> i + 1]

RECURSIVE Value(_, _), Members(_, _, _, _)

Value(t, i) ==
    CASE i > Len(t)      -> More
      [] t[i] = "["      -> Members(t, i + 1, "arr", <<>>)
      [] t[i] = "{"      -> Members(t, i + 1, "obj", <<>>)
      [] Accepts(t[i])   -> Leaf(t[i], i)
      [] OTHER           -> Bad

\* Members of a container from i on, those before being so.  A comma stands
\* before each but the first.
Members(t, i, kind, so) ==
    LET close == IF kind = "arr" THEN "]" ELSE "}"
        first == so = <<>>
        j     == IF first THEN i ELSE i + 1
        v     == IF kind = "arr" THEN Value(t, j) ELSE Value(t, j + 2)
        rest  == Members(t, v.next, kind,
                         IF kind = "arr" THEN so \o <<v.is>> ELSE so \o <<<<t[j]>>, v.is>>)
    IN  CASE i > Len(t)                       -> More
          [] t[i] = close                     -> [is |-> <<kind>> \o so, next |-> i + 1]
          [] ~first /\ t[i] # ","             -> Bad
          [] ~first /\ j > Len(t)             -> More
          [] ~first /\ t[j] = close           ->
                IF "ALLOW_TRAILING_COMMAS" \in flg
                THEN [is |-> <<kind>> \o so, next |-> j + 1] ELSE Bad
          [] kind = "obj" /\ t[j] # "str"     -> Bad
          [] kind = "obj" /\ j + 1 > Len(t)   -> More
          [] kind = "obj" /\ t[j + 1] # ":"   -> Bad
          [] v \in {Bad, More}                -> v
          [] OTHER                            -> rest

\* A document: "bad" as well when something follows the value.
Document(t) ==
    LET b == Bare(t)
        v == IF b # <<>> /\ b[1] = "Inf" /\ "ALLOW_INF_AND_NAN" \in flg
             THEN Leaf("Inf", 1) ELSE Value(b, 1)
    IN  IF v.next > 0 /\ v.next <= Len(b) /\ "STOP_WHEN_DONE" \notin flg THEN BadText ELSE v.is

\* What the values say: the value at i.
RECURSIVE Tree(_)
Tree(i) ==
    IF IsCtn(i) THEN <<vals[i].kind>> \o [k \in 1 .. Parts(i) |-> Tree(Part(i)[k])]
    ELSE <<vals[i].kind>>

-----------------------------------------------------------------------------
(* Properties *)

\* The values of a document that is read are the tree the text says, and its
\* val_read values are all of it; a text that is refused says none, unless
\* memory ran out (yyjson.c:4444-4713, 4831-5140: the labels, the lengths and
\* offsets kept in open containers).
ReadsText ==
    /\ pc = "done" => /\ Tree(1) = Document(text)
                      /\ vals[1].kind \in {"arr", "obj"} => vals[1].ofs = Len(vals)
    /\ pc = "failed" /\ err.code # "MEMORY_ALLOCATION" =>
          IF whole THEN Document(text) \in {BadText, MoreText} ELSE Document(text) = BadText

\* An error is reported at the lexeme the text cannot go on with: what is before it
\* may still become a document, what ends with it no more.  Only a comma before a
\* closing bracket is reported behind the bracket, and what is wrong inside a
\* number or a string at its end or where it is (yyjson.c:4266-4278, 4516, 4585).
ErrorPlace ==
    pc = "failed" /\ err.code \notin {"MEMORY_ALLOCATION", "EMPTY_CONTENT"} =>
        LET upTo(i) == Document(SubSeq(text, 1, i))
        IN  /\ \/ upTo(err.pos - 1) # BadText
               \/ /\ err.pos > 1 /\ At(err.pos - 1) \in {"]", "}", "badnum", "badstr"}
                  /\ upTo(err.pos - 2) # BadText
            /\ err.code # "UNEXPECTED_END" => upTo(err.pos) = BadText

=============================================================================
