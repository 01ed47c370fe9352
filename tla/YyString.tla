------------------------------ MODULE YyString ------------------------------
(***************************************************************************)
(* Strings in yyjson: read_string (3rd/yyjson.c:3815-4240), which decodes  *)
(* a string in the memory it is read from, and write_string (6289-6400).   *)
(* Bytes are numbers.  The memory holds the text and the zeros behind it.  *)
(*                                                                         *)
(* Until the first escape the string stays where it is.  From there on it  *)
(* is copied forward, to dst, in moves of 2 to 16 bytes that store more    *)
(* than they have to: what lies behind dst must have been read.            *)
(*                                                                         *)
(* A string that was read is written, and the text written is read again.  *)
(***************************************************************************)
EXTENDS Integers, Sequences

CONSTANTS Texts,     \* texts behind the first quotation mark
          Padding    \* YYJSON_PADDING_SIZE

Byte == 0 .. 255

\* read_string loads four bytes at a time (yyjson.c:3820).
ASSUME TextAssumption == Texts \subseteq Seq(Byte) /\ Padding \in Nat /\ Padding >= 4

VARIABLES text,        \* the text as it was
          mem,         \* the memory, from the first byte of the string on
          pc,          \* the label
          src, dst, pos,
          far,         \* the last place that was looked at
          str,         \* where the string that was read ends
          flg,         \* the writer's flags
          out,         \* what the writer wrote
          want         \* the string that was written, when its text is read

vars == <<text, mem, pc, src, dst, pos, far, str, flg, out, want>>

Quote == 34
Slash == 47
Escape == 92   \* the backslash

Zeros(n) == [i \in 1 .. n |-> 0]
In(s, i) == IF i \in 1 .. Len(s) THEN s[i] ELSE 0
At(i) == In(mem, i)
Looked(i) == far' = IF i > far THEN i ELSE far
Store(m, d, bytes) ==
    [i \in 1 .. Len(m) |-> IF d <= i /\ i < d + Len(bytes) THEN bytes[i - d + 1] ELSE m[i]]
Bytes(m, from, n) == [k \in 1 .. n |-> m[from + k - 1]]

-----------------------------------------------------------------------------
(* The tests on bytes *)

Stop(b) == b < 32 \/ b >= 128 \/ b \in {Quote, Escape}   \* char_is_ascii_stop

Follows(b) == b \div 64 = 2
Valid1(i) == At(i) < 128
Valid2(i) == /\ At(i) \div 32 = 6 /\ Follows(At(i + 1))
             /\ (At(i) \div 2) % 16 # 0

\* Mutant: the reserved range is not excluded.
Valid3Surrogates(i) ==
    /\ At(i) \div 16 = 14 /\ Follows(At(i + 1)) /\ Follows(At(i + 2))
    /\ <<At(i) % 16, (At(i + 1) \div 32) % 2>> # <<0, 0>>

Valid3(i) ==
    /\ At(i) \div 16 = 14 /\ Follows(At(i + 1)) /\ Follows(At(i + 2))
    /\ <<At(i) % 16, (At(i + 1) \div 32) % 2>> \notin {<<0, 0>>, <<13, 1>>}
Valid4(i) ==
    LET lead == At(i) % 8
        next == (At(i + 1) \div 16) % 4
    IN  /\ At(i) \div 8 = 30 /\ \A k \in 1 .. 3 : Follows(At(i + k))
        /\ <<lead, next>> # <<0, 0>>
        /\ lead < 4 \/ (lead % 4 = 0 /\ next = 0)

\* hex_conv_table: 240 for what is no digit.
Hex(b) == IF b \in 48 .. 57 THEN b - 48
          ELSE IF b \in 65 .. 70 THEN b - 55
          ELSE IF b \in 97 .. 102 THEN b - 87
          ELSE 240
IsHex(i) == \A k \in 0 .. 3 : Hex(At(i + k)) < 16
HexU16(i) == 4096 * Hex(At(i)) + 256 * Hex(At(i + 1)) + 16 * Hex(At(i + 2)) + Hex(At(i + 3))

Utf8(c) ==
    IF c < 128 THEN <<c>>
    ELSE IF c < 2048 THEN <<192 + c \div 64, 128 + (c % 64)>>
    ELSE IF c < 65536 THEN <<224 + c \div 4096, 128 + ((c \div 64) % 64), 128 + (c % 64)>>
    ELSE <<240 + c \div 262144, 128 + ((c \div 4096) % 64), 128 + ((c \div 64) % 64), 128 + (c % 64)>>

\* The bytes between src and the first byte that stops, at most n of them.
Run(i, n) == CHOOSE k \in 0 .. n : /\ \A j \in 0 .. k - 1 : ~Stop(At(i + j))
                                   /\ k = n \/ Stop(At(i + k))
\* A whole sequence of n bytes at i, and the first place from i on that begins none.
Valid(n, i) == \/ n = 2 /\ Valid2(i)
               \/ n = 3 /\ Valid3(i)
               \/ n = 4 /\ Valid4(i)
SeqEnd(i, n) == i + n * (CHOOSE k \in 0 .. Len(mem) : /\ \A j \in 0 .. k - 1 : Valid(n, i + n * j)
                                                     /\ ~Valid(n, i + n * k))

-----------------------------------------------------------------------------
(* Reading in place *)

Fail == pc' = "failed" /\ UNCHANGED <<mem, src, dst, pos, str>>
Kept == UNCHANGED <<text, flg, out, want>>

\* Mutant: no zero ends the string.
CloseUnended(e) ==
    /\ str' = e
    /\ src' = src + 1 /\ dst' = e
    /\ pc' = "read" /\ UNCHANGED <<mem, pos>>

\* *src is the closing quotation mark: the string ends at e, and a zero behind it.
Close(e) ==
    /\ str' = e
    /\ mem' = Store(mem, e, <<0>>)
    /\ src' = src + 1 /\ dst' = e
    /\ pc' = "read" /\ UNCHANGED pos

\* skip_ascii
SkipAscii ==
    LET stop == src + Run(src, Len(mem) + 1 - src)
    IN  /\ pc = "skip_ascii"
        /\ Looked(stop)
        /\ src' = stop /\ pc' = "skip_ascii_end"
        /\ UNCHANGED <<mem, dst, pos, str>> /\ Kept

\* skip_ascii_end, skip_utf8
SkipUtf8 ==
    LET three == SeqEnd(src, 3)
        two   == SeqEnd(three, 2)
        four  == SeqEnd(two, 4)
    IN  /\ pc = "skip_ascii_end"
        /\ \/ At(src) = Quote /\ Close(src) /\ UNCHANGED far
           \/ /\ At(src) >= 128 /\ Valid1(three)
              /\ src' = three /\ pc' = "skip_ascii" /\ Looked(three + 3)
              /\ UNCHANGED <<mem, dst, pos, str>>
           \/ /\ At(src) >= 128 /\ ~Valid1(three) /\ four # src
              /\ src' = four /\ pc' = "skip_ascii" /\ Looked(four + 3)
              /\ UNCHANGED <<mem, dst, pos, str>>
           \/ At(src) >= 128 /\ ~Valid1(three) /\ four = src /\ Looked(src + 3) /\ Fail
           \/ /\ At(src) < 128 /\ At(src) # Quote
              /\ dst' = src /\ pc' = "copy_escape"
              /\ UNCHANGED <<mem, src, pos, far, str>>
        /\ Kept

\* One escape becomes bytes at dst, and n bytes of the text are behind src.
Decoded(bytes, n) ==
    /\ mem' = Store(mem, dst, bytes)
    /\ dst' = dst + Len(bytes) /\ src' = src + n
    /\ pc' = "copy_ascii" /\ UNCHANGED <<pos, str>>

Single == [b \in {Quote, Escape, Slash, 98, 102, 110, 114, 116} |->
              IF b = 98 THEN 8 ELSE IF b = 102 THEN 12 ELSE IF b = 110 THEN 10
              ELSE IF b = 114 THEN 13 ELSE IF b = 116 THEN 9 ELSE b]

IsHigh(u) == u \div 1024 = 54
IsLow(u)  == u \div 1024 = 55

\* copy_escape
CopyEscape ==
    LET c  == At(src + 1)
        hi == HexU16(src + 2)
        lo == HexU16(src + 8)
        pair == At(src + 6) = Escape /\ At(src + 7) = 117
    IN  /\ pc = "copy_escape"
        /\ \/ At(src) = Quote /\ Close(dst) /\ UNCHANGED far
           \/ At(src) \notin {Quote, Escape} /\ Fail /\ UNCHANGED far
           \/ At(src) = Escape /\ c \in DOMAIN Single /\ Decoded(<<Single[c]>>, 2) /\ Looked(src + 1)
           \/ At(src) = Escape /\ c \notin DOMAIN Single \cup {117} /\ Fail /\ Looked(src + 1)
           \/ /\ At(src) = Escape /\ c = 117
              /\ \/ ~IsHex(src + 2) /\ Fail /\ Looked(src + 5)
                 \/ /\ IsHex(src + 2) /\ ~IsHigh(hi) /\ ~IsLow(hi)
                    /\ Decoded(Utf8(hi), 6) /\ Looked(src + 5)
                 \/ IsHex(src + 2) /\ IsLow(hi) /\ Fail /\ Looked(src + 5)
                 \/ /\ IsHex(src + 2) /\ IsHigh(hi)
                    /\ Looked(IF pair THEN src + 11 ELSE src + 7)
                    /\ \/ ~(pair /\ IsHex(src + 8) /\ IsLow(lo)) /\ Fail
                       \/ /\ pair /\ IsHex(src + 8) /\ IsLow(lo)
                          /\ Decoded(Utf8(65536 + 1024 * (hi - 55296) + (lo - 56320)), 12)
        /\ Kept

\* Mutant: five and six bytes are moved as eight.
PairsWide(n) == IF n \in {5, 6} THEN 8 ELSE n + (n % 2)

\* The bytes moved for a run of n: whole pairs.
Pairs(n) == n + (n % 2)

\* A move of so many bytes, if the run has one, behind the longer moves: it loads
\* its bytes and stores them, at the same distance.
Move(m, size, n) ==
    LET at == 2 * size * (n \div (2 * size))
    IN  IF (n \div size) % 2 = 1 THEN Store(m, dst + at, Bytes(m, src + at, size)) ELSE m
Moved(n) == LET p == Pairs(n)
            IN  Move(Move(Move(Move(mem, 16, p), 8, p), 4, p), 2, p)

\* copy_ascii
CopyAscii ==
    LET n == Run(src, 16)
    IN  /\ pc = "copy_ascii"
        /\ mem' = Moved(n)
        /\ src' = src + n /\ dst' = dst + n
        /\ Looked(src + IF n < 16 THEN n ELSE 15)
        /\ pc' = IF n = 16 THEN "copy_ascii" ELSE "copy_utf8"
        /\ UNCHANGED <<pos, str>> /\ Kept

\* copy_utf8: three bytes at a time, then two, then four, each loaded four
\* bytes at a time.
CopyUtf8 ==
    /\ pc = "copy_utf8"
    /\ pos' = src
    /\ pc' = IF At(src) >= 128 THEN "copy_3" ELSE "copy_escape"
    /\ UNCHANGED <<mem, src, dst, far, str>> /\ Kept

Take(n, stored) ==
    /\ mem' = Store(mem, dst, Bytes(mem, src, stored))
    /\ src' = src + n /\ dst' = dst + n
    /\ UNCHANGED <<pc, pos, str>>

Turn ==
    /\ \/ pc = "copy_3" /\ Valid3(src) /\ Take(3, 4)
       \/ pc = "copy_3" /\ ~Valid3(src) /\ pc' = (IF Valid1(src) THEN "copy_ascii" ELSE "copy_2")
          /\ UNCHANGED <<mem, src, dst, pos, str>>
       \/ pc = "copy_2" /\ Valid2(src) /\ Take(2, 2)
       \/ pc = "copy_2" /\ ~Valid2(src) /\ pc' = "copy_4" /\ UNCHANGED <<mem, src, dst, pos, str>>
       \/ pc = "copy_4" /\ Valid4(src) /\ Take(4, 4)
       \/ pc = "copy_4" /\ ~Valid4(src) /\ pos # src /\ pc' = "copy_ascii"
          /\ UNCHANGED <<mem, src, dst, pos, str>>
       \/ pc = "copy_4" /\ ~Valid4(src) /\ pos = src /\ Fail
    /\ Looked(src + 3) /\ Kept

-----------------------------------------------------------------------------
(* Writing *)

Result == Bytes(mem, 1, str - 1)
Flags  == SUBSET {"ESCAPE_UNICODE", "ESCAPE_SLASHES"}

\* esc_table_*: what becomes of a byte, by the length of what it begins.
Esc(b) ==
    IF b \in {8, 9, 10, 12, 13, Quote, Escape} THEN "ASCII"
    ELSE IF b = Slash /\ "ESCAPE_SLASHES" \in flg THEN "ASCII"
    ELSE IF b < 32 THEN "UTF8_1"
    ELSE IF "ESCAPE_UNICODE" \notin flg THEN "NONE"
    ELSE IF b \in 192 .. 223 THEN "UTF8_2"
    ELSE IF b \in 224 .. 239 THEN "UTF8_3"
    ELSE IF b \in 240 .. 247 THEN "UTF8_4"
    ELSE "NONE"

HexDigit(n) == IF n < 10 THEN 48 + n ELSE 55 + n   \* esc_hex_char_table
U(n) == <<Escape, 117, HexDigit(n \div 4096), HexDigit((n \div 256) % 16),
          HexDigit((n \div 16) % 16), HexDigit(n % 16)>>
Letter(b) == CHOOSE c \in DOMAIN Single : Single[c] = b

StartWriting ==
    /\ pc = "read" /\ want = <<>>
    /\ flg' \in Flags
    /\ out' = <<Quote>> /\ want' = Result
    /\ src' = 1 /\ far' = 0 /\ pc' = "copy_char"
    /\ UNCHANGED <<text, mem, dst, pos, str>>

\* copy_char: nothing but a byte that is escaped ends the run, the zero behind
\* the string if no other.
CopyChar ==
    LET n == CHOOSE k \in 0 .. 16 : /\ \A j \in 0 .. k - 1 : Esc(At(src + j)) = "NONE"
                                    /\ k = 16 \/ Esc(At(src + k)) # "NONE"
    IN  /\ pc = "copy_char"
        /\ out' = out \o [k \in 1 .. n |-> At(src + k - 1)]
        /\ src' = src + n
        /\ Looked(src + IF n < 16 THEN n ELSE 15)
        /\ pc' = IF n = 16 THEN "copy_char" ELSE "copy_next"
        /\ UNCHANGED <<text, mem, dst, pos, str, flg, want>>

\* Mutant: the pair is made from the code point as it is.
PairUnshifted(c) == U(55296 + c \div 1024) \o U(56320 + (c % 1024))

\* A code point behind U+FFFF as two.
SurrogatePair(c) ==
    LET u == c - 65536 IN U(55296 + u \div 1024) \o U(56320 + (u % 1024))

\* What stands for n bytes of the string.
Escaped(bytes, n) == out' = out \o bytes /\ src' = src + n /\ UNCHANGED pc

\* copy_next
CopyNext ==
    LET b == At(src)
        c(k) == At(src + k) % 64
    IN  /\ pc = "copy_next" /\ src < str
        /\ \/ /\ Esc(b) = "NONE"
              /\ out' = Append(out, b) /\ src' = src + 1 /\ pc' = "copy_char"
           \/ Esc(b) = "ASCII"  /\ Escaped(<<Escape, Letter(b)>>, 1)
           \/ Esc(b) = "UTF8_1" /\ Escaped(U(b), 1)
           \/ Esc(b) = "UTF8_2" /\ Escaped(U(64 * (b % 32) + c(1)), 2)
           \/ Esc(b) = "UTF8_3" /\ Escaped(U(4096 * (b % 16) + 64 * c(1) + c(2)), 3)
           \/ /\ Esc(b) = "UTF8_4"
              /\ Escaped(SurrogatePair(262144 * (b % 8) + 4096 * c(1) + 64 * c(2) + c(3)), 4)
        /\ UNCHANGED <<text, mem, dst, pos, far, str, flg, want>>

\* copy_end, and the reader on what was written.
ReadAgain ==
    /\ pc = "copy_next" /\ src >= str
    /\ out' = Append(out, Quote)
    /\ text' = Tail(out')
    /\ mem' = Tail(out') \o Zeros(Padding)
    /\ pc' = "skip_ascii" /\ src' = 1 /\ dst' = 1 /\ pos' = 0 /\ far' = 0 /\ str' = 0
    /\ UNCHANGED <<flg, want>>

-----------------------------------------------------------------------------
Init ==
    /\ text \in Texts /\ mem = text \o Zeros(Padding)
    /\ pc = "skip_ascii" /\ src = 1 /\ dst = 1 /\ pos = 0 /\ far = 0 /\ str = 0
    /\ flg = {} /\ out = <<>> /\ want = <<>>

ReadString  == SkipAscii \/ SkipUtf8 \/ CopyEscape \/ CopyAscii \/ CopyUtf8 \/ Turn
WriteString == StartWriting \/ CopyChar \/ CopyNext \/ ReadAgain
Next == ReadString \/ WriteString
Spec == Init /\ [][Next]_vars

-----------------------------------------------------------------------------
(* What a text says: a string of JSON in UTF-8, byte by byte. *)

\* Well-formed sequences, as the Unicode standard tabulates them: the range of
\* the second byte for each first one.
Second(b) == IF b = 224 THEN 160 .. 191 ELSE IF b = 237 THEN 128 .. 159
             ELSE IF b = 240 THEN 144 .. 191 ELSE IF b = 244 THEN 128 .. 143 ELSE 128 .. 191
Width(b) == IF b \in 194 .. 223 THEN 2 ELSE IF b \in 224 .. 239 THEN 3
            ELSE IF b \in 240 .. 244 THEN 4 ELSE IF b \in 32 .. 127 THEN 1 ELSE 0

\* An escape with four digits, and the code unit they make.
Unicode(t, i) == /\ In(t, i) = Escape /\ In(t, i + 1) = 117
                 /\ \A k \in 2 .. 5 : Hex(In(t, i + k)) < 16
CodeUnit(t, i) == 4096 * Hex(In(t, i + 2)) + 256 * Hex(In(t, i + 3))
                  + 16 * Hex(In(t, i + 4)) + Hex(In(t, i + 5))
Paired(hi, lo) == 65536 + 1024 * (hi - 55296) + (lo - 56320)

\* The character at i: how many bytes of the text it takes, none if it is
\* malformed, and the bytes it stands for.
Character(t, i) ==
    LET b  == In(t, i)
        hi == CodeUnit(t, i)
        lo == CodeUnit(t, i + 6)
        w  == Width(b)
    IN  IF b = Escape /\ In(t, i + 1) \in DOMAIN Single
        THEN [n |-> 2, bytes |-> <<Single[In(t, i + 1)]>>]
        ELSE IF Unicode(t, i) /\ (hi < 55296 \/ hi > 57343)
        THEN [n |-> 6, bytes |-> Utf8(hi)]
        ELSE IF Unicode(t, i) /\ hi < 56320 /\ Unicode(t, i + 6) /\ 56320 <= lo /\ lo <= 57343
        THEN [n |-> 12, bytes |-> Utf8(Paired(hi, lo))]
        ELSE IF w = 1 /\ b # Escape
        THEN [n |-> 1, bytes |-> <<b>>]
        ELSE IF w > 1 /\ In(t, i + 1) \in Second(b) /\ \A k \in 2 .. w - 1 : Follows(In(t, i + k))
        THEN [n |-> w, bytes |-> [k \in 1 .. w |-> In(t, i + k - 1)]]
        ELSE [n |-> 0, bytes |-> <<>>]

\* What a text says from each place on, up to the closing quotation mark.
Bad == [ok |-> FALSE, next |-> 0, bytes |-> <<>>]
Prefixed(bytes, said) == [said EXCEPT !.bytes = bytes \o @]
Says(t) ==
    LET says[i \in Nat] ==
            LET c == Character(t, i) IN
            IF In(t, i) = Quote THEN [ok |-> TRUE, next |-> i + 1, bytes |-> <<>>]
            ELSE IF c.n = 0 THEN Bad
            ELSE Prefixed(c.bytes, says[i + c.n])
    IN  says

-----------------------------------------------------------------------------
(* Properties *)

\* What was read is what the text says, in its place, with a zero behind it, and
\* what follows the string is as it was; what is refused says nothing, be it for
\* an escape, a surrogate or the UTF-8 (yyjson.c:3936-3952, 4036-4240).
Decodes ==
    LET said == Says(text)[1]
    IN  /\ pc = "read" => /\ said.ok /\ said.next = src /\ Result = said.bytes
                          /\ mem[str] = 0
                          /\ \A i \in src .. Len(text) : mem[i] = text[i]
        /\ pc = "failed" => ~said.ok

\* No move stores over a byte that is still to be read, though most store more
\* than they copy; and the reader looks no further than the zeros behind the text,
\* however the text breaks off, the writer no further than the zero behind the
\* string (yyjson.c:408, 4006, 4053-4078, 4123-4233, 6304-6328).
InPlace ==
    /\ pc \in {"copy_escape", "copy_ascii", "copy_utf8", "copy_3", "copy_2", "copy_4"} =>
           \A i \in src .. Len(text) : mem[i] = text[i]
    /\ IF pc \in {"copy_char", "copy_next"} THEN far <= str ELSE far <= Len(text) + Padding

\* A string that is written, with whatever flags, reads back as it was, and takes
\* no more than six bytes for one and two more (yyjson.c:6289, 6297-6400).
Rereads ==
    /\ want # <<>> => pc # "failed"
    /\ want # <<>> /\ pc = "read" => Result = want
    /\ want # <<>> => Len(out) <= 6 * Len(want) + 2

=============================================================================
