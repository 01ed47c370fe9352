--------------------------- MODULE YyStringProofs ---------------------------
(***************************************************************************)
(* Proofs about YyString, for every text and every padding of at least the *)
(* four bytes that read_string loads at a time.                            *)
(*                                                                         *)
(* InPlace needs Unread (from src on the memory is the text, and behind    *)
(* the first escape dst is behind src), Stopped (what is known of the byte *)
(* at src when a label is reached) and Ended: a string that was read ends  *)
(* between two characters, without which the writer, which looks at the    *)
(* first byte of each only, would run over the zero behind it.             *)
(*                                                                         *)
(* Decodes needs Decoding: the string so far, followed by what the text    *)
(* says from src on, is what the text says.  What a text says is defined   *)
(* by recursion; that the recursion has one solution, and what a run of    *)
(* characters stands for, is proved by taking the least place where it     *)
(* would be false.                                                         *)
(***************************************************************************)
EXTENDS YyString, WellFoundedInduction, SequenceTheorems, TLAPS

Skipping == {"skip_ascii", "skip_ascii_end"}
Behind   == {"copy_ascii", "copy_utf8", "copy_3", "copy_2", "copy_4"}   \* an escape behind
Copying  == Behind \cup {"copy_escape"}
Reading  == Skipping \cup Copying
Writing  == {"copy_char", "copy_next"}

Types ==
    /\ text \in Seq(Byte) /\ mem \in Seq(Byte) /\ Len(mem) = Len(text) + Padding
    /\ pc \in Reading \cup Writing \cup {"read", "failed"}
    /\ src \in Nat /\ dst \in Nat /\ pos \in Nat /\ far \in Nat /\ str \in Nat
    /\ src >= 1 /\ dst >= 1
    /\ out \in Seq(Byte)

\* What is still to be read is as it was, and from the first escape on dst falls
\* behind.
Unread ==
    /\ pc \in Reading => /\ src <= Len(text) + 1 /\ dst <= src
                         /\ \A i \in Nat : i >= src => At(i) = In(text, i)
    /\ pc \in Skipping => \A i \in Nat : At(i) = In(text, i)
    /\ pc \in Behind => dst < src
    /\ pc \notin Writing => far <= Len(text) + Padding

\* What is known of the byte at src.
Stopped ==
    /\ pc \in {"skip_ascii_end", "copy_utf8", "copy_escape"} => Stop(At(src))
    /\ pc = "copy_escape" => At(src) < 128
    /\ pc \in {"copy_3", "copy_2", "copy_4"} =>
           /\ pos <= src
           /\ pos = src => /\ At(src) >= 128
                           /\ pc # "copy_3" => ~Valid3(src)
                           /\ pc = "copy_4" => ~Valid2(src)

\* The bytes of a sequence that begins with b.
Lead(b) == IF 192 <= b /\ b < 224 THEN 2 ELSE IF 224 <= b /\ b < 240 THEN 3
           ELSE IF 240 <= b /\ b < 248 THEN 4 ELSE 1

\* No sequence of m goes beyond e.
Whole(m, e) == \A i \in Nat : 1 <= i /\ i < e => i + Lead(In(m, i)) <= e

\* The string so far ends between two characters: the writer, which looks at the
\* first byte only, stays within it.
Ended ==
    /\ pc \in Skipping => Whole(mem, src)
    /\ pc \in Copying => Whole(mem, dst)
    /\ pc \in Writing \cup {"read"} => 1 <= str /\ str <= Len(mem) /\ At(str) = 0 /\ Whole(mem, str)
    /\ pc \in Writing => src <= str /\ far <= str

\* n bytes of s from i on.
Slice(s, i, n) == [k \in 1 .. n |-> In(s, i + k - 1)]

\* The string so far, and what the text says from src on, is what the text says.
Decoding ==
    LET said == Says(text) IN
    /\ pc \in Skipping => said[1] = Prefixed(Slice(mem, 1, src - 1), said[src])
    /\ pc \in Copying => said[1] = Prefixed(Slice(mem, 1, dst - 1), said[src])
    /\ Decodes

IInv == Types /\ Unread /\ Stopped /\ Ended
DInv == IInv /\ Decoding

-----------------------------------------------------------------------------
(* Bytes, and the first of some places *)

LEMMA ByteRange ==
    /\ \A b \in Byte : b \in Nat /\ b < 256
    /\ \A b \in Nat : b < 256 => b \in Byte
  BY SMT DEF Byte

LEMMA InTyped ==
    ASSUME NEW s \in Seq(Byte), NEW i \in Int
    PROVE  /\ In(s, i) \in Byte /\ In(s, i) \in Nat /\ In(s, i) < 256
           /\ i > Len(s) => In(s, i) = 0
<1>1. In(s, i) \in Byte
  <2>1. 0 \in Byte
    BY ByteRange
  <2>. QED
    BY <2>1 DEF In
<1>2. i > Len(s) => In(s, i) = 0
  BY DEF In
<1>. QED
  BY <1>1, <1>2, ByteRange

\* A scan ends at the first place that ends it, or after n.
LEMMA FirstOrAll ==
    ASSUME NEW n \in Nat, NEW T
    PROVE  \E k \in 0 .. n : (\A j \in 0 .. k - 1 : j \notin T) /\ (k = n \/ k \in T)
<1> DEFINE D == {k \in 0 .. n : k = n \/ k \in T}
<1>1. n \in D /\ D # {} /\ D \subseteq Nat /\ (\A d \in D : d \in Nat)
  OBVIOUS
<1>. HIDE DEF D
<1>2. PICK k \in D : \A e \in D : ~ (<<e, k>> \in OpToRel(<, Nat))
  BY <1>1, NatLessThanWellFounded, WFMin
<1>3. \A e \in D : ~ (e < k)
  BY <1>1, <1>2 DEF OpToRel
<1>4. k \in 0 .. n /\ (k = n \/ k \in T)
  BY DEF D
<1>5. \A j \in 0 .. k - 1 : j \notin T
  BY <1>3, <1>4 DEF D
<1>. QED
  BY <1>4, <1>5

LEMMA ConcatTyped ==
    ASSUME NEW s \in Seq(Byte), NEW t \in Seq(Byte)
    PROVE  s \o t \in Seq(Byte) /\ Len(s \o t) = Len(s) + Len(t)
  OBVIOUS

LEMMA RunFacts ==
    ASSUME mem \in Seq(Byte), NEW i \in Nat, NEW n \in Nat
    PROVE  /\ Run(i, n) \in 0 .. n
           /\ \A j \in Nat : j < Run(i, n) => ~Stop(At(i + j))
           /\ Run(i, n) = n \/ Stop(At(i + Run(i, n)))
<1> DEFINE T == {k \in Nat : Stop(At(i + k))}
<1>1. PICK k \in 0 .. n : (\A j \in 0 .. k - 1 : j \notin T) /\ (k = n \/ k \in T)
  BY FirstOrAll
<1>2. (\A j \in 0 .. k - 1 : ~Stop(At(i + j))) /\ (k = n \/ Stop(At(i + k)))
  BY <1>1
<1>3. /\ Run(i, n) \in 0 .. n
      /\ \A j \in 0 .. Run(i, n) - 1 : ~Stop(At(i + j))
      /\ Run(i, n) = n \/ Stop(At(i + Run(i, n)))
  BY <1>2 DEF Run
<1>. QED
  BY <1>3

LEMMA FollowsFacts ==
    ASSUME NEW b \in Byte
    PROVE  Follows(b) <=> b >= 128 /\ b < 192
  BY ByteRange, SMT DEF Follows

\* A sequence lies before the zeros.
LEMMA ValidInside ==
    ASSUME mem \in Seq(Byte), NEW i \in Nat, NEW n \in {2, 3, 4}, Valid(n, i), i >= 1
    PROVE  i + n - 1 <= Len(mem) /\ \A j \in Nat : j < n => At(i + j) >= 128
<1>1. \A j \in Nat : At(i + j) \in Byte /\ At(i + j) \in Nat /\ (i + j > Len(mem) => At(i + j) = 0)
  <2> SUFFICES ASSUME NEW j \in Nat
               PROVE  At(i + j) \in Byte /\ At(i + j) \in Nat /\ (i + j > Len(mem) => At(i + j) = 0)
    OBVIOUS
  <2>. QED
    BY InTyped, i + j \in Int DEF At
<1>2. At(i) >= 128
  <2>1. At(i) \in Nat
    BY <1>1, i + 0 = i
  <2>. QED
    BY <2>1 DEF Valid, Valid2, Valid3, Valid4
<1>3. \A k \in 1 .. n - 1 : Follows(At(i + k))
  <2>1. CASE n = 2
    BY <2>1 DEF Valid, Valid2
  <2>2. CASE n = 3
    BY <2>2 DEF Valid, Valid3
  <2>3. CASE n = 4
    BY <2>3 DEF Valid, Valid4
  <2>. QED
    BY <2>1, <2>2, <2>3
<1>4. \A k \in 1 .. n - 1 : At(i + k) >= 128
  <2> SUFFICES ASSUME NEW k \in 1 .. n - 1 PROVE At(i + k) >= 128
    OBVIOUS
  <2>1. k \in Nat /\ At(i + k) \in Byte /\ Follows(At(i + k))
    BY <1>1, <1>3
  <2>. QED
    BY <2>1, FollowsFacts
<1>5. \A j \in Nat : j < n => At(i + j) >= 128
  <2> SUFFICES ASSUME NEW j \in Nat, j < n PROVE At(i + j) >= 128
    OBVIOUS
  <2>1. CASE j = 0
    BY <1>2, <2>1
  <2>2. CASE j # 0
    BY <1>4, <2>2
  <2>. QED
    BY <2>1, <2>2
<1>6. n - 1 \in Nat /\ n - 1 < n
  OBVIOUS
<1>7. At(i + (n - 1)) >= 128 /\ ~(i + (n - 1) > Len(mem))
  BY <1>1, <1>5, <1>6, ~(0 >= 128)
<1>. QED
  BY <1>5, <1>6, <1>7

LEMMA SeqEndFacts ==
    ASSUME mem \in Seq(Byte), NEW i \in Nat, NEW n \in {2, 3, 4}, i >= 1
    PROVE  \E k \in Nat : /\ SeqEnd(i, n) = i + n * k
                          /\ \A j \in Nat : j < k => Valid(n, i + n * j)
                          /\ ~Valid(n, i + n * k)
<1> DEFINE T == {k \in Nat : ~Valid(n, i + n * k)}
           l == Len(mem)
<1>0. l \in Nat
  OBVIOUS
<1>1. PICK k \in 0 .. l : (\A j \in 0 .. k - 1 : j \notin T) /\ (k = l \/ k \in T)
  BY <1>0, FirstOrAll
<1>2. n * k \in Nat /\ n * k >= k
  BY <1>0, SMT
<1>3. ~Valid(n, i + n * k)
  <2>1. CASE k = l
    <3>1. i + n * k + n - 1 > Len(mem)
      BY <1>2, <2>1
    <3>. QED
      BY <1>2, <3>1, ValidInside
  <2>2. CASE k # l
    BY <1>1, <2>2
  <2>. QED
    BY <2>1, <2>2
<1>4. /\ k \in 0 .. Len(mem)
      /\ \A j \in 0 .. k - 1 : Valid(n, i + n * j)
      /\ ~Valid(n, i + n * k)
  BY <1>1, <1>3
<1>5. PICK e \in 0 .. Len(mem) : /\ SeqEnd(i, n) = i + n * e
                                 /\ \A j \in 0 .. e - 1 : Valid(n, i + n * j)
                                 /\ ~Valid(n, i + n * e)
  BY <1>4 DEF SeqEnd
<1>6. e \in Nat /\ \A j \in Nat : j < e => j \in 0 .. e - 1
  BY <1>0
<1>. QED
  BY <1>5, <1>6

-----------------------------------------------------------------------------
(* Memory *)

LEMMA BytesFacts ==
    ASSUME NEW m \in Seq(Byte), NEW from \in Nat, NEW n \in Nat, from >= 1, from + n - 1 <= Len(m)
    PROVE  /\ Bytes(m, from, n) \in Seq(Byte) /\ Len(Bytes(m, from, n)) = n
           /\ \A k \in 1 .. n : Bytes(m, from, n)[k] = In(m, from + k - 1)
<1>1. \A k \in 1 .. n : from + k - 1 \in 1 .. Len(m)
  OBVIOUS
<1>2. Bytes(m, from, n) = [k \in 1 .. n |-> m[from + k - 1]]
  BY DEF Bytes
<1>3. \A k \in 1 .. n : m[from + k - 1] \in Byte /\ In(m, from + k - 1) = m[from + k - 1]
  BY <1>1 DEF In
<1>4. Bytes(m, from, n) \in [1 .. n -> Byte]
  BY <1>2, <1>3
<1>5. \A k \in 1 .. n : Bytes(m, from, n)[k] = In(m, from + k - 1)
  BY <1>2, <1>3
<1>. QED
  BY <1>4, <1>5

LEMMA StoreFacts ==
    ASSUME NEW m \in Seq(Byte), NEW d \in Nat, NEW b \in Seq(Byte), d >= 1
    PROVE  /\ Store(m, d, b) \in Seq(Byte) /\ Len(Store(m, d, b)) = Len(m)
           /\ \A i \in Nat : In(Store(m, d, b), i) =
                                 IF d <= i /\ i < d + Len(b) /\ i <= Len(m) THEN b[i - d + 1] ELSE In(m, i)
<1> DEFINE s == Store(m, d, b)
           v(i) == IF d <= i /\ i < d + Len(b) THEN b[i - d + 1] ELSE m[i]
<1>1. Len(m) \in Nat /\ Len(b) \in Nat
  OBVIOUS
<1>2. s = [i \in 1 .. Len(m) |-> v(i)]
  BY DEF Store
<1>3. ASSUME NEW i \in 1 .. Len(m) PROVE v(i) \in Byte
  <2>1. CASE d <= i /\ i < d + Len(b)
    <3>1. i - d + 1 \in 1 .. Len(b)
      BY <1>1, <2>1
    <3>. QED
      BY <2>1, <3>1
  <2>2. CASE ~(d <= i /\ i < d + Len(b))
    BY <2>2
  <2>. QED
    BY <2>1, <2>2
<1>4. s \in [1 .. Len(m) -> Byte]
  BY <1>2, <1>3
<1>5. s \in Seq(Byte) /\ Len(s) = Len(m) /\ \A i \in 1 .. Len(m) : s[i] = v(i)
  BY <1>1, <1>2, <1>4
<1>6. ASSUME NEW i \in Nat
      PROVE  In(s, i) = IF d <= i /\ i < d + Len(b) /\ i <= Len(m) THEN b[i - d + 1] ELSE In(m, i)
  <2>1. CASE i \in 1 .. Len(m)
    BY <1>1, <1>5, <2>1 DEF In
  <2>2. CASE i \notin 1 .. Len(m)
    BY <1>1, <1>5, <2>2 DEF In
  <2>. QED
    BY <2>1, <2>2
<1>. QED
  BY <1>5, <1>6

\* After the moves of the first n bytes.
MovedTo(m, n) ==
    /\ m \in Seq(Byte) /\ Len(m) = Len(mem)
    /\ \A i \in Nat : In(m, i) = IF dst <= i /\ i < dst + n THEN In(mem, src + i - dst) ELSE In(mem, i)

\* What is loaded has not been stored over, since it goes down.
LEMMA MoveOne ==
    ASSUME mem \in Seq(Byte), dst \in Nat, src \in Nat, 1 <= dst, dst < src,
           NEW at \in Nat, NEW size \in Nat, src + at + size - 1 <= Len(mem),
           NEW m, MovedTo(m, at)
    PROVE  MovedTo(Store(m, dst + at, Bytes(m, src + at, size)), at + size)
<1> DEFINE b == Bytes(m, src + at, size)
           s == Store(m, dst + at, b)
<1>1. m \in Seq(Byte) /\ Len(m) = Len(mem) /\ Len(mem) \in Nat
  BY DEF MovedTo
<1>2. b \in Seq(Byte) /\ Len(b) = size /\ \A k \in 1 .. size : b[k] = In(m, src + at + k - 1)
  BY <1>1, BytesFacts, src + at \in Nat, src + at >= 1
<1>. HIDE DEF b
<1>3. /\ s \in Seq(Byte) /\ Len(s) = Len(m)
      /\ \A i \in Nat : In(s, i) = IF dst + at <= i /\ i < dst + at + Len(b) /\ i <= Len(m)
                                   THEN b[i - (dst + at) + 1] ELSE In(m, i)
  <2> DEFINE d == dst + at
  <2>1. d \in Nat /\ d >= 1
    OBVIOUS
  <2>. HIDE DEF d
  <2>2. /\ Store(m, d, b) \in Seq(Byte) /\ Len(Store(m, d, b)) = Len(m)
        /\ \A i \in Nat : In(Store(m, d, b), i) =
                              IF d <= i /\ i < d + Len(b) /\ i <= Len(m) THEN b[i - d + 1] ELSE In(m, i)
    <3>1. m \in Seq(Byte) /\ b \in Seq(Byte) /\ d \in Nat /\ d >= 1
      BY <1>1, <1>2, <2>1
    <3>. QED
      BY ONLY <3>1, StoreFacts
  <2>. QED
    BY <2>2 DEF d
<1>. HIDE DEF s
<1>4. ASSUME NEW i \in Nat
      PROVE  In(s, i) = IF dst <= i /\ i < dst + (at + size) THEN In(mem, src + i - dst) ELSE In(mem, i)
  <2>1. CASE dst + at <= i /\ i < dst + at + size
    <3>1. i <= Len(m) /\ i - (dst + at) + 1 \in 1 .. size
      BY <1>1, <2>1
    <3>2. In(s, i) = In(m, src + at + (i - (dst + at) + 1) - 1)
      BY <1>2, <1>3, <2>1, <3>1
    <3>3. src + at + (i - (dst + at) + 1) - 1 = src + i - dst
      BY <2>1
    <3>4. src + i - dst \in Nat /\ ~(src + i - dst < dst + at)
      BY <2>1
    <3>5. In(m, src + i - dst) = In(mem, src + i - dst)
      BY <3>4 DEF MovedTo
    <3>. QED
      BY <2>1, <3>2, <3>3, <3>5
  <2>2. CASE ~(dst + at <= i /\ i < dst + at + size)
    <3>1. In(s, i) = In(m, i)
      BY <1>2, <1>3, <2>2
    <3>2. In(m, i) = IF dst <= i /\ i < dst + at THEN In(mem, src + i - dst) ELSE In(mem, i)
      BY DEF MovedTo
    <3>. QED
      BY <2>2, <3>1, <3>2
  <2>. QED
    BY <2>1, <2>2
<1>. QED
  BY <1>1, <1>3, <1>4 DEF MovedTo, s, b

\* One move of Moved, of 2, 4, 8 or 16 bytes, behind the longer ones.
LEMMA MoveSize ==
    ASSUME mem \in Seq(Byte), dst \in Nat, src \in Nat, 1 <= dst, dst < src,
           NEW n \in Nat, n <= 16, src + n - 1 <= Len(mem), NEW size \in {2, 4, 8, 16},
           NEW m, MovedTo(m, 2 * size * (n \div (2 * size)))
    PROVE  MovedTo(Move(m, size, n), size * (n \div size))
<1> DEFINE at == 2 * size * (n \div (2 * size))
<1>1. at \in Nat /\ at <= n
  BY SMT
<1>2. CASE (n \div size) % 2 = 1
  <2>1. size * (n \div size) = at + size
    BY <1>2, SMT
  <2>2. at + size <= n
    BY <2>1, SMT
  <2>. HIDE DEF at
  <2>3. src + at + size - 1 <= Len(mem) /\ size \in Nat
    BY <1>1, <2>2, Len(mem) \in Nat
  <2>4. MovedTo(Store(m, dst + at, Bytes(m, src + at, size)), at + size)
    BY <1>1, <2>3, MoveOne DEF at
  <2>. QED
    BY <1>2, <2>1, <2>4 DEF Move, at
<1>3. CASE (n \div size) % 2 # 1
  <2>1. size * (n \div size) = at
    BY <1>3, SMT
  <2>. QED
    BY <1>3, <2>1 DEF Move
<1>. QED
  BY <1>2, <1>3

LEMMA MovedFacts ==
    ASSUME mem \in Seq(Byte), dst \in Nat, src \in Nat, 1 <= dst, dst < src,
           NEW n \in Nat, n <= 16, src + n <= Len(mem)
    PROVE  MovedTo(Moved(n), Pairs(n)) /\ Pairs(n) \in Nat /\ n <= Pairs(n) /\ Pairs(n) <= n + 1
<1> DEFINE p == Pairs(n)
<1>1. p \in Nat /\ p <= 16 /\ p % 2 = 0 /\ n <= p /\ p <= n + 1
  BY SMT DEF Pairs
<1>2. src + p - 1 <= Len(mem)
  BY <1>1, Len(mem) \in Nat
<1>. HIDE DEF p
<1>3. 32 * (p \div 32) = 0 /\ 2 * (p \div 2) = p
  BY <1>1, SMT
<1>4. MovedTo(mem, 0)
  BY DEF MovedTo
<1> DEFINE m1 == Move(mem, 16, p)
           m2 == Move(m1, 8, p)
           m3 == Move(m2, 4, p)
           m4 == Move(m3, 2, p)
<1>5. MovedTo(m1, 16 * (p \div 16))
  BY <1>1, <1>2, <1>3, <1>4, MoveSize, 2 * 16 = 32, 16 \in {2, 4, 8, 16}
<1>. HIDE DEF m1
<1>6. MovedTo(m2, 8 * (p \div 8))
  BY <1>1, <1>2, <1>5, MoveSize, 2 * 8 = 16, 8 \in {2, 4, 8, 16}
<1>. HIDE DEF m2
<1>7. MovedTo(m3, 4 * (p \div 4))
  BY <1>1, <1>2, <1>6, MoveSize, 2 * 4 = 8, 4 \in {2, 4, 8, 16}
<1>. HIDE DEF m3
<1>8. MovedTo(m4, 2 * (p \div 2))
  BY <1>1, <1>2, <1>7, MoveSize, 2 * 2 = 4, 2 \in {2, 4, 8, 16}
<1>9. Moved(n) = m4
  BY DEF Moved, m1, m2, m3, p
<1>. QED
  BY <1>1, <1>3, <1>8, <1>9 DEF p

-----------------------------------------------------------------------------
(* Characters are whole *)

LEMMA PlainFacts ==
    ASSUME NEW b \in Byte, ~Stop(b)
    PROVE  b >= 32 /\ b < 128 /\ b # Quote /\ b # Escape /\ Lead(b) = 1
  BY ByteRange, SMT DEF Stop, Lead, Quote, Escape

LEMMA SmallLead ==
    ASSUME NEW b \in Nat, b < 128 \/ Follows(b)
    PROVE  Lead(b) = 1
  BY SMT DEF Lead, Follows

LEMMA ValidLead ==
    ASSUME mem \in Seq(Byte), NEW i \in Nat, NEW n \in {2, 3, 4}, Valid(n, i)
    PROVE  /\ Lead(At(i)) = n
           /\ \A k \in Nat : 1 <= k /\ k < n => Lead(At(i + k)) = 1
<1>1. \A j \in Nat : At(i + j) \in Nat
  <2> SUFFICES ASSUME NEW j \in Nat PROVE At(i + j) \in Nat
    OBVIOUS
  <2>. QED
    BY InTyped, i + j \in Int DEF At
<1>2. At(i) \in Nat /\ At(i) < 256
  BY InTyped DEF At
<1>3. Lead(At(i)) = n
  <2>1. CASE n = 2
    BY <1>2, <2>1, SMT DEF Valid, Valid2, Lead
  <2>2. CASE n = 3
    BY <1>2, <2>2, SMT DEF Valid, Valid3, Lead
  <2>3. CASE n = 4
    BY <1>2, <2>3, SMT DEF Valid, Valid4, Lead
  <2>. QED
    BY <2>1, <2>2, <2>3
<1>4. \A k \in 1 .. n - 1 : Follows(At(i + k))
  <2>1. CASE n = 2
    BY <2>1 DEF Valid, Valid2
  <2>2. CASE n = 3
    BY <2>2 DEF Valid, Valid3
  <2>3. CASE n = 4
    BY <2>3 DEF Valid, Valid4
  <2>. QED
    BY <2>1, <2>2, <2>3
<1>5. ASSUME NEW k \in Nat, 1 <= k, k < n PROVE Lead(At(i + k)) = 1
  <2>1. k \in 1 .. n - 1 /\ At(i + k) \in Nat
    BY <1>1, <1>5
  <2>. QED
    BY <1>4, <2>1, SmallLead
<1>. QED
  BY <1>3, <1>5

\* A whole string grows by whole characters.
LEMMA WholeGrows ==
    ASSUME NEW m, NEW u, NEW e \in Nat, NEW k \in Nat, e >= 1, Whole(m, e),
           \A i \in Nat : i < e => In(u, i) = In(m, i),
           \A j \in Nat : j < k => j + Lead(In(u, e + j)) <= k
    PROVE  Whole(u, e + k)
<1> SUFFICES ASSUME NEW i \in Nat, 1 <= i, i < e + k
             PROVE  i + Lead(In(u, i)) <= e + k
  BY DEF Whole
<1>0. Lead(In(u, i)) \in Nat
  BY DEF Lead
<1>1. CASE i < e
  BY <1>0, <1>1 DEF Whole
<1>2. CASE i >= e
  <2>1. i - e \in Nat /\ i - e < k /\ e + (i - e) = i
    BY <1>2
  <2>2. (i - e) + Lead(In(u, i)) <= k
    BY <2>1
  <2>. QED
    BY <1>0, <2>1, <2>2
<1>. QED
  BY <1>1, <1>2

LEMMA WholeSame ==
    ASSUME NEW m, NEW u, NEW e \in Nat, Whole(m, e),
           \A i \in Nat : i < e => In(u, i) = In(m, i)
    PROVE  Whole(u, e)
  BY DEF Whole

\* Sequences of n bytes, one behind the other.
LEMMA WholeSeqs ==
    ASSUME mem \in Seq(Byte), NEW i \in Nat, i >= 1, NEW n \in {2, 3, 4}, NEW k \in Nat, Whole(mem, i),
           \A j \in Nat : j < k => Valid(n, i + n * j)
    PROVE  Whole(mem, i + n * k)
<1>1. n * k \in Nat
  BY SMT
<1>2. ASSUME NEW p \in Nat, p < n * k PROVE p + Lead(In(mem, i + p)) <= n * k
  <2> DEFINE j == p \div n
             r == p % n
  <2>1. j \in Nat /\ r \in Nat /\ r < n /\ j < k /\ n * j \in Nat /\ p = n * j + r /\ n * j + n <= n * k
    BY <1>2, SMT
  <2>. HIDE DEF j, r
  <2> DEFINE q == i + n * j
  <2>2. Valid(n, q) /\ q \in Nat
    <3>1. n * j \in Nat /\ i \in Nat
      BY <2>1
    <3>2. \A x \in Nat : i + x \in Nat
      OBVIOUS
    <3>. QED
      BY <2>1, <3>1, <3>2
  <2>3. /\ Lead(At(i + n * j)) = n
        /\ \A x \in Nat : 1 <= x /\ x < n => Lead(At(i + n * j + x)) = 1
    BY <2>2, ValidLead
  <2>4. CASE r = 0
    <3>1. i + p = i + n * j
      BY <2>1, <2>4
    <3>2. Lead(In(mem, i + p)) = n
      BY <2>3, <3>1 DEF At
    <3>. QED
      BY <2>1, <2>4, <3>2
  <2>5. CASE r # 0
    <3>1. i + p = i + n * j + r /\ 1 <= r
      BY <2>1, <2>5
    <3>2. Lead(In(mem, i + p)) = 1
      BY <2>1, <2>3, <3>1 DEF At
    <3>. QED
      BY <2>1, <3>2
  <2>. QED
    BY <2>4, <2>5
<1>. QED
  BY <1>1, <1>2, WholeGrows

\* The bytes of a code point are one character.
LEMMA Utf8Facts ==
    ASSUME NEW c \in Nat, c < 1114112
    PROVE  /\ Utf8(c) \in Seq(Byte) /\ Len(Utf8(c)) >= 1 /\ Len(Utf8(c)) <= 4
           /\ c < 65536 => Len(Utf8(c)) <= 3
           /\ \A j \in Nat : j < Len(Utf8(c)) => j + Lead(Utf8(c)[j + 1]) <= Len(Utf8(c))
<1>1. CASE c < 128
  <2>1. Utf8(c) = <<c>> /\ c \in Byte /\ Lead(c) = 1
    BY <1>1, ByteRange, SmallLead DEF Utf8
  <2>. QED
    BY <2>1
<1>2. CASE c >= 128 /\ c < 2048
  <2> DEFINE a == 192 + c \div 64
             b == 128 + (c % 64)
  <2>1. a \in Nat /\ b \in Nat /\ a < 256 /\ b < 256 /\ Lead(a) = 2 /\ Lead(b) = 1
    BY <1>2, SMT DEF Lead
  <2>2. Utf8(c) = <<a, b>>
    BY <1>2 DEF Utf8
  <2>. HIDE DEF a, b
  <2>3. a \in Byte /\ b \in Byte
    BY <2>1, ByteRange
  <2>. QED
    BY <2>1, <2>2, <2>3
<1>3. CASE c >= 2048 /\ c < 65536
  <2> DEFINE a == 224 + c \div 4096
             b == 128 + ((c \div 64) % 64)
             d == 128 + (c % 64)
  <2>1. /\ a \in Nat /\ b \in Nat /\ d \in Nat /\ a < 256 /\ b < 256 /\ d < 256
        /\ Lead(a) = 3 /\ Lead(b) = 1 /\ Lead(d) = 1
    BY <1>3, SMT DEF Lead
  <2>2. Utf8(c) = <<a, b, d>>
    BY <1>3 DEF Utf8
  <2>. HIDE DEF a, b, d
  <2>3. a \in Byte /\ b \in Byte /\ d \in Byte
    BY <2>1, ByteRange
  <2>. QED
    BY <2>1, <2>2, <2>3
<1>4. CASE c >= 65536
  <2> DEFINE a == 240 + c \div 262144
             b == 128 + ((c \div 4096) % 64)
             d == 128 + ((c \div 64) % 64)
             e == 128 + (c % 64)
  <2>1. /\ a \in Nat /\ b \in Nat /\ d \in Nat /\ e \in Nat /\ a < 248 /\ b < 256 /\ d < 256 /\ e < 256
        /\ Lead(a) = 4 /\ Lead(b) = 1 /\ Lead(d) = 1 /\ Lead(e) = 1
    BY <1>4, SMT DEF Lead
  <2>2. Utf8(c) = <<a, b, d, e>>
    BY <1>4 DEF Utf8
  <2>. HIDE DEF a, b, d, e
  <2>3. a \in Byte /\ b \in Byte /\ d \in Byte /\ e \in Byte
    BY <2>1, ByteRange
  <2>. QED
    BY <1>4, <2>1, <2>2, <2>3
<1>. QED
  BY <1>1, <1>2, <1>3, <1>4

-----------------------------------------------------------------------------
(* The reader, action by action *)

LEMMA Sets ==
    /\ "skip_ascii" \in Skipping /\ "skip_ascii_end" \in Skipping
    /\ Skipping \subseteq Reading /\ Copying \subseteq Reading /\ Behind \subseteq Copying
    /\ Skipping \cap Copying = {} /\ Reading \cap Writing = {}
    /\ "read" \notin Reading /\ "failed" \notin Reading /\ "read" \notin Writing /\ "failed" \notin Writing
    /\ "copy_escape" \in Copying /\ "copy_escape" \notin Behind
    /\ {"copy_ascii", "copy_utf8", "copy_3", "copy_2", "copy_4"} \subseteq Behind
    /\ "copy_char" \in Writing /\ "copy_next" \in Writing
  BY DEF Skipping, Reading, Copying, Behind, Writing

\* The memory, as bytes, and the zeros behind the text.
LEMMA AtFacts ==
    ASSUME Types, NEW i \in Nat
    PROVE  /\ At(i) \in Byte /\ At(i) \in Nat /\ At(i) < 256 /\ In(text, i) \in Byte
           /\ i > Len(text) => In(text, i) = 0
           /\ Len(text) \in Nat /\ Len(mem) \in Nat /\ Len(mem) = Len(text) + Padding
<1>1. text \in Seq(Byte) /\ mem \in Seq(Byte) /\ Len(mem) = Len(text) + Padding /\ i \in Int
  BY DEF Types
<1>2. /\ In(mem, i) \in Byte /\ In(mem, i) \in Nat /\ In(mem, i) < 256
      /\ In(text, i) \in Byte /\ (i > Len(text) => In(text, i) = 0)
  BY <1>1, InTyped
<1>. QED
  BY <1>1, <1>2 DEF At

LEMMA ZeroBehind ==
    ASSUME Types, Unread, pc \in Reading, NEW i \in Nat, i >= src, At(i) # 0
    PROVE  i <= Len(text)
<1>1. At(i) = In(text, i)
  BY DEF Unread
<1>. QED
  BY <1>1, AtFacts

\* What stays as it is when only src and the label move.
LEMMA SameMemory ==
    ASSUME mem' = mem
    PROVE  /\ \A i : At(i)' = At(i)
           /\ \A i : Valid3(i)' = Valid3(i) /\ Valid2(i)' = Valid2(i)
  BY DEF At, Valid3, Valid2

LEMMA SkipAsciiStep ==
    ASSUME IInv, SkipAscii
    PROVE  IInv'
<1> DEFINE n == Len(mem) + 1 - src
           k == Run(src, n)
<1>1. Types /\ Unread /\ Ended /\ pc = "skip_ascii" /\ pc \in Reading /\ pc \in Skipping
  BY Sets DEF IInv, SkipAscii
<1>2. /\ mem' = mem /\ text' = text /\ dst' = dst /\ pos' = pos /\ str' = str /\ out' = out
      /\ src' = src + k /\ pc' = "skip_ascii_end"
      /\ far' = IF src + k > far THEN src + k ELSE far
  BY DEF SkipAscii, Kept, Looked
<1>3. /\ src \in Nat /\ src >= 1 /\ src <= Len(text) + 1 /\ dst <= src /\ Len(mem) \in Nat /\ Len(text) \in Nat
      /\ far \in Nat /\ far <= Len(text) + Padding /\ dst \in Nat
      /\ mem \in Seq(Byte) /\ Len(mem) = Len(text) + Padding /\ Padding \in Nat /\ Padding >= 4
  BY <1>1, TextAssumption, Sets DEF Types, Unread
<1>4. n \in Nat
  BY <1>3
<1>. HIDE DEF n
<1>5. /\ k \in 0 .. n
      /\ \A j \in Nat : j < k => ~Stop(At(src + j))
      /\ k = n \/ Stop(At(src + k))
  BY <1>3, <1>4, RunFacts
<1>. HIDE DEF k
<1>6. k \in Nat /\ src + k \in Nat
  BY <1>3, <1>4, <1>5
<1>7. Stop(0)
  BY SMT DEF Stop
<1>8. src + k <= Len(text) + 1
  <2>1. SUFFICES ASSUME src + k > Len(text) + 1 PROVE FALSE
    BY <1>3, <1>6
  <2>2. Len(text) + 1 - src \in Nat /\ Len(text) + 1 - src < k /\ src + (Len(text) + 1 - src) = Len(text) + 1
    BY <1>3, <1>6, <2>1
  <2>3. At(Len(text) + 1) = 0
    BY <1>1, <1>3, ZeroBehind, Len(text) + 1 \in Nat, ~(Len(text) + 1 <= Len(text))
  <2>. QED
    BY <1>5, <1>7, <2>2, <2>3
<1>9. Stop(At(src + k))
  <2>1. CASE k = n
    <3>1. src + k > Len(mem)
      BY <1>3, <1>4, <2>1 DEF n
    <3>. QED
      BY <1>3, <1>6, <1>8, <3>1
  <2>. QED
    BY <1>5, <2>1
<1>10. Types'
  BY <1>1, <1>2, <1>3, <1>6, Sets DEF Types
<1>11. Unread'
  <2>1. pc' \notin Behind /\ pc' \in Skipping
    BY <1>2, Sets
  <2>2. \A i \in Nat : At(i)' = In(text', i)
    BY <1>1, <1>2, SameMemory DEF Unread
  <2>3. far' <= Len(text') + Padding /\ src' <= Len(text') + 1 /\ dst' <= src'
    BY <1>2, <1>3, <1>6, <1>8
  <2>. QED
    BY <2>1, <2>2, <2>3 DEF Unread
<1>12. Stopped'
  BY <1>2, <1>9, SameMemory DEF Stopped
<1>13. Whole(mem, src + k)
  <2>1. ASSUME NEW j \in Nat, j < k PROVE j + Lead(In(mem, src + j)) <= k
    <3>1. At(src + j) \in Byte
      BY <1>1, <1>3, AtFacts, src + j \in Nat
    <3>2. Lead(At(src + j)) = 1
      BY <1>5, <2>1, <3>1, PlainFacts
    <3>. QED
      BY <1>6, <2>1, <3>2 DEF At
  <2>2. Whole(mem, src)
    BY <1>1 DEF Ended
  <2>. QED
    BY <1>3, <1>6, <2>1, <2>2, WholeGrows
<1>14. Ended'
  BY <1>2, <1>13, Sets DEF Ended
<1>. QED
  BY <1>10, <1>11, <1>12, <1>14 DEF IInv

LEMMA ReadingFacts ==
    ASSUME IInv, pc \in Reading
    PROVE  /\ src \in Nat /\ src >= 1 /\ src <= Len(text) + 1 /\ dst \in Nat /\ dst >= 1 /\ dst <= src
           /\ Len(mem) \in Nat /\ Len(text) \in Nat /\ Len(mem) = Len(text) + Padding
           /\ far \in Nat /\ far <= Len(text) + Padding /\ pos \in Nat /\ str \in Nat
           /\ mem \in Seq(Byte) /\ text \in Seq(Byte) /\ out \in Seq(Byte)
           /\ Padding \in Nat /\ Padding >= 4
<1>1. pc \notin Writing
  BY Sets
<1>. QED
  BY <1>1, TextAssumption DEF IInv, Types, Unread

\* The reader moves on within what it skips.
LEMMA SkipTo ==
    ASSUME IInv, pc \in Skipping, pc' \in Skipping,
           UNCHANGED <<mem, text, dst, pos, str, out>>,
           NEW e \in Nat, src' = e, src <= e, e <= Len(text) + 1, Whole(mem, e),
           pc' = "skip_ascii_end" => Stop(At(e)),
           far' \in Nat, far' <= Len(text) + Padding
    PROVE  IInv'
<1>1. Types /\ Unread /\ pc \in Reading /\ pc' \in Reading /\ pc' \notin Writing
      /\ pc' \notin Behind /\ pc' \notin Copying
  BY Sets DEF IInv
<1>2. Types'
  BY <1>1, ReadingFacts DEF Types
<1>3. Unread'
  <2>1. \A i \in Nat : At(i)' = In(text', i)
    BY <1>1, SameMemory DEF Unread
  <2>2. dst' <= src'
    BY <1>1, ReadingFacts
  <2>. QED
    BY <1>1, <2>1, <2>2 DEF Unread
<1>4. Stopped'
  <2>1. pc' \notin {"copy_utf8", "copy_escape", "copy_3", "copy_2", "copy_4"}
    BY <1>1 DEF Copying, Behind
  <2>. QED
    BY <2>1, SameMemory DEF Stopped
<1>5. Ended'
  BY <1>1, Sets DEF Ended
<1>. QED
  BY <1>2, <1>3, <1>4, <1>5 DEF IInv

LEMMA FailStep ==
    ASSUME IInv, pc \in Reading, Fail, Kept, far' \in Nat, far' <= Len(text) + Padding
    PROVE  IInv'
<1>1. pc' = "failed" /\ UNCHANGED <<text, mem, src, dst, pos, str, out>>
  BY DEF Fail, Kept
<1>2. Types'
  BY <1>1, ReadingFacts DEF Types
<1>3. Unread' /\ Stopped' /\ Ended'
  BY <1>1, Sets DEF Unread, Stopped, Ended
<1>. QED
  BY <1>2, <1>3 DEF IInv

\* The string ends at e, and what it holds is whole.
LEMMA CloseStep ==
    ASSUME IInv, pc \in Reading, At(src) = Quote, UNCHANGED far, Kept,
           NEW e \in Nat, e >= 1, e <= src, Whole(mem, e), Close(e)
    PROVE  IInv'
<1> DEFINE z == <<0>>
<1>1. /\ pc' = "read" /\ str' = e /\ dst' = e /\ src' = src + 1
      /\ mem' = Store(mem, e, z) /\ UNCHANGED <<text, pos, out, far>>
  BY DEF Close, Kept
<1>2. z \in Seq(Byte) /\ Len(z) = 1 /\ z[1] = 0
  BY ByteRange
<1>. HIDE DEF z
<1>3. /\ mem' \in Seq(Byte) /\ Len(mem') = Len(mem)
      /\ \A i \in Nat : In(mem', i) = IF e <= i /\ i < e + Len(z) /\ i <= Len(mem)
                                      THEN z[i - e + 1] ELSE In(mem, i)
  <2>1. mem \in Seq(Byte)
    BY ReadingFacts
  <2>. QED
    BY <1>1, <1>2, <2>1, StoreFacts
<1>4. src <= Len(text)
  BY ZeroBehind, ReadingFacts DEF IInv, Quote
<1>5. Types'
  BY <1>1, <1>3, ReadingFacts DEF Types
<1>6. e <= Len(mem') /\ At(e)' = 0
  <2>1. e <= Len(mem) /\ e - e + 1 = 1
    BY <1>4, ReadingFacts
  <2>2. In(mem', e) = 0
    BY <1>2, <1>3, <2>1
  <2>. QED
    BY <1>3, <2>1, <2>2 DEF At
<1>7. Whole(mem', e)
  BY <1>3, WholeSame
<1>8. Unread' /\ Stopped'
  BY <1>1, Sets, ReadingFacts DEF Unread, Stopped
<1>9. Ended'
  BY <1>1, <1>6, <1>7, Sets DEF Ended
<1>. QED
  BY <1>5, <1>8, <1>9 DEF IInv

LEMMA SeqEndInside ==
    ASSUME IInv, pc \in Skipping, NEW i \in Nat, 1 <= i, i <= Len(text) + 1, NEW n \in {2, 3, 4},
           Whole(mem, i)
    PROVE  /\ SeqEnd(i, n) \in Nat /\ i <= SeqEnd(i, n) /\ SeqEnd(i, n) <= Len(text) + 1
           /\ Whole(mem, SeqEnd(i, n)) /\ ~Valid(n, SeqEnd(i, n))
           /\ SeqEnd(i, n) = i => ~Valid(n, i)
<1>1. pc \in Reading /\ Types /\ Unread
  BY Sets DEF IInv
<1>2. PICK k \in Nat : /\ SeqEnd(i, n) = i + n * k
                       /\ \A j \in Nat : j < k => Valid(n, i + n * j)
                       /\ ~Valid(n, i + n * k)
  BY <1>1, SeqEndFacts, ReadingFacts
<1>3. n * k \in Nat
  BY SMT
<1>4. Whole(mem, i + n * k)
  BY <1>1, <1>2, WholeSeqs, ReadingFacts
<1>5. i + n * k <= Len(text) + 1
  <2>1. CASE k = 0
    BY <2>1
  <2>2. CASE k # 0
    <3> DEFINE q == i + n * (k - 1)
    <3>1. k - 1 \in Nat /\ k - 1 < k /\ q \in Nat /\ q >= 1 /\ q + (n - 1) = i + n * k - 1
          /\ n - 1 \in Nat /\ n - 1 < n
      BY <2>2, SMT
    <3>2. Valid(n, q)
      BY <1>2, <3>1
    <3>. HIDE DEF q
    <3>3. At(q + (n - 1)) >= 128
      BY <3>1, <3>2, ValidInside, <1>1, ReadingFacts
    <3>4. q + (n - 1) \in Nat /\ At(q + (n - 1)) # 0
      BY <3>1, <3>3
    <3>5. q + (n - 1) <= Len(text)
      BY <1>1, <3>4, AtFacts DEF Unread
    <3>. QED
      BY <1>3, <3>1, <3>5, ReadingFacts, <1>1
  <2>. QED
    BY <2>1, <2>2
<1>. QED
  BY <1>2, <1>3, <1>4, <1>5

LEMMA SkipUtf8Step ==
    ASSUME IInv, SkipUtf8
    PROVE  IInv'
<1> DEFINE three == SeqEnd(src, 3)
           two   == SeqEnd(three, 2)
           four  == SeqEnd(two, 4)
<1>1. pc = "skip_ascii_end" /\ pc \in Skipping /\ pc \in Reading /\ Types /\ Unread /\ Stopped /\ Ended /\ Kept
  BY Sets DEF IInv, SkipUtf8
<1>2. Whole(mem, src)
  BY <1>1 DEF Ended
<1>3. three \in Nat /\ src <= three /\ three <= Len(text) + 1 /\ Whole(mem, three)
  BY <1>1, <1>2, SeqEndInside, ReadingFacts
<1>4. \/ At(src) = Quote /\ Close(src) /\ UNCHANGED far
      \/ /\ At(src) >= 128 /\ Valid1(three)
         /\ src' = three /\ pc' = "skip_ascii" /\ Looked(three + 3)
         /\ UNCHANGED <<mem, dst, pos, str>>
      \/ /\ At(src) >= 128 /\ ~Valid1(three) /\ four # src
         /\ src' = four /\ pc' = "skip_ascii" /\ Looked(four + 3)
         /\ UNCHANGED <<mem, dst, pos, str>>
      \/ At(src) >= 128 /\ ~Valid1(three) /\ four = src /\ Looked(src + 3) /\ Fail
      \/ /\ At(src) < 128 /\ At(src) # Quote
         /\ dst' = src /\ pc' = "copy_escape"
         /\ UNCHANGED <<mem, src, pos, far, str>>
  BY DEF SkipUtf8
<1>. HIDE DEF three
<1>5. two \in Nat /\ three <= two /\ two <= Len(text) + 1 /\ Whole(mem, two)
  BY <1>1, <1>3, SeqEndInside, ReadingFacts
<1>. HIDE DEF two
<1>6. four \in Nat /\ two <= four /\ four <= Len(text) + 1 /\ Whole(mem, four)
  BY <1>1, <1>3, <1>5, SeqEndInside, ReadingFacts
<1>. HIDE DEF four
<1>7. \A e \in Nat : e <= Len(text) + 1 /\ Looked(e + 3) => far' \in Nat /\ far' <= Len(text) + Padding
  BY <1>1, ReadingFacts DEF Looked
<1>8. UNCHANGED <<text, out>>
  BY <1>1 DEF Kept
<1>9. CASE At(src) = Quote /\ Close(src) /\ UNCHANGED far
  BY <1>1, <1>2, <1>9, CloseStep, ReadingFacts
<1>10. CASE /\ src' = three /\ pc' = "skip_ascii" /\ Looked(three + 3)
            /\ UNCHANGED <<mem, dst, pos, str>>
  BY <1>1, <1>3, <1>7, <1>8, <1>10, SkipTo, Sets
<1>11. CASE /\ src' = four /\ pc' = "skip_ascii" /\ Looked(four + 3)
            /\ UNCHANGED <<mem, dst, pos, str>>
  <2>1. src <= four
    BY <1>1, <1>3, <1>5, <1>6, ReadingFacts
  <2>. QED
    BY <1>1, <1>6, <1>7, <1>8, <1>11, <2>1, SkipTo, Sets
<1>12. CASE Looked(src + 3) /\ Fail
  BY <1>1, <1>7, <1>12, FailStep, ReadingFacts
<1>13. CASE /\ At(src) < 128 /\ At(src) # Quote
            /\ dst' = src /\ pc' = "copy_escape"
            /\ UNCHANGED <<mem, src, pos, far, str>>
  <2>1. Types'
    BY <1>1, <1>8, <1>13, Sets, ReadingFacts DEF Types
  <2>2. Unread'
    <3>1. \A i \in Nat : At(i)' = In(text', i)
      BY <1>1, <1>8, <1>13, SameMemory DEF Unread
    <3>. QED
      BY <1>1, <1>8, <1>13, <3>1, Sets, ReadingFacts DEF Unread
  <2>3. Stopped'
    BY <1>1, <1>13, SameMemory DEF Stopped
  <2>4. Ended'
    BY <1>2, <1>13, Sets DEF Ended
  <2>. QED
    BY <2>1, <2>2, <2>3, <2>4 DEF IInv
<1>. QED
  BY <1>4, <1>9, <1>10, <1>11, <1>12, <1>13

\* The reader moves on by n bytes and has stored k bytes that it keeps.
LEMMA CopyTo ==
    ASSUME IInv, pc \in Copying, pc' \in Copying, Kept, str' = str,
           mem' \in Seq(Byte), Len(mem') = Len(mem),
           NEW k \in Nat, NEW n \in Nat, dst' = dst + k, src' = src + n,
           src + n <= Len(text) + 1, dst + k < src + n,
           \A i \in Nat : i < dst \/ i >= src + n => In(mem', i) = In(mem, i),
           \A j \in Nat : j < k => j + Lead(In(mem', dst + j)) <= k,
           far' \in Nat, far' <= Len(text) + Padding, pos' \in Nat, Stopped'
    PROVE  IInv'
<1>1. Types /\ Unread /\ pc \in Reading /\ pc' \in Reading /\ pc' \notin Writing /\ pc' \notin Skipping
      /\ pc' # "read"
  BY Sets DEF IInv
<1>2. text' = text /\ out' = out
  BY DEF Kept
<1>3. /\ src \in Nat /\ src >= 1 /\ dst \in Nat /\ dst >= 1 /\ dst <= src
      /\ Len(text) \in Nat /\ Len(mem) = Len(text) + Padding /\ str \in Nat
      /\ out \in Seq(Byte) /\ text \in Seq(Byte)
  BY <1>1, ReadingFacts
<1>4. Types'
  BY <1>1, <1>2, <1>3 DEF Types
<1>5. Unread'
  <2>1. ASSUME NEW i \in Nat, i >= src' PROVE At(i)' = In(text', i)
    <3>1. In(mem', i) = In(mem, i)
      BY <2>1
    <3>2. In(mem, i) = In(text, i)
      BY <1>1, <1>3, <2>1 DEF Unread, At
    <3>. QED
      BY <1>2, <3>1, <3>2 DEF At
  <2>2. src' <= Len(text') + 1 /\ dst' < src' /\ dst' <= src'
    BY <1>2, <1>3
  <2>. QED
    BY <1>1, <1>2, <2>1, <2>2 DEF Unread
<1>6. Whole(mem', dst + k)
  <2>1. Whole(mem, dst)
    BY <1>1, Sets DEF IInv, Ended
  <2>. QED
    BY <1>3, <2>1, WholeGrows
<1>7. Ended'
  BY <1>1, <1>6 DEF Ended
<1>. QED
  BY <1>4, <1>5, <1>7 DEF IInv

LEMMA StoredFacts ==
    ASSUME NEW b \in Seq(Byte), NEW d \in Nat, d >= 1, mem \in Seq(Byte), mem' = Store(mem, d, b)
    PROVE  /\ mem' \in Seq(Byte) /\ Len(mem') = Len(mem) /\ Len(mem) \in Nat /\ Len(b) \in Nat
           /\ \A i \in Nat : i < d \/ i >= d + Len(b) => In(mem', i) = In(mem, i)
           /\ \A j \in Nat : j < Len(b) /\ d + j <= Len(mem) => In(mem', d + j) = b[j + 1]
<1>1. Len(mem) \in Nat /\ Len(b) \in Nat
  OBVIOUS
<1>2. /\ mem' \in Seq(Byte) /\ Len(mem') = Len(mem)
      /\ \A i \in Nat : In(mem', i) = IF d <= i /\ i < d + Len(b) /\ i <= Len(mem)
                                      THEN b[i - d + 1] ELSE In(mem, i)
  BY StoreFacts
<1>3. ASSUME NEW j \in Nat, j < Len(b), d + j <= Len(mem) PROVE In(mem', d + j) = b[j + 1]
  <2>1. d + j \in Nat /\ d <= d + j /\ d + j < d + Len(b) /\ d + j - d + 1 = j + 1
    BY <1>1, <1>3
  <2>. QED
    BY <1>2, <1>3, <2>1
<1>4. \A i \in Nat : i < d \/ i >= d + Len(b) => In(mem', i) = In(mem, i)
  BY <1>1, <1>2
<1>. QED
  BY <1>1, <1>2, <1>3, <1>4

LEMMA DecodedStep ==
    ASSUME IInv, pc \in Copying, Kept, NEW b \in Seq(Byte), NEW n \in Nat, Decoded(b, n),
           src + n <= Len(text) + 1, Len(b) < n,
           \A j \in Nat : j < Len(b) => j + Lead(b[j + 1]) <= Len(b),
           far' \in Nat, far' <= Len(text) + Padding
    PROVE  IInv'
<1>1. /\ mem' = Store(mem, dst, b) /\ dst' = dst + Len(b) /\ src' = src + n
      /\ pc' = "copy_ascii" /\ pos' = pos /\ str' = str
  BY DEF Decoded
<1>2. pc' \in Copying /\ pc \in Reading
  BY <1>1, Sets
<1>3. /\ src \in Nat /\ dst \in Nat /\ dst >= 1 /\ dst <= src /\ mem \in Seq(Byte) /\ pos \in Nat
      /\ Len(mem) \in Nat /\ Len(text) \in Nat /\ Len(mem) = Len(text) + Padding
      /\ Padding \in Nat /\ Padding >= 4
  BY <1>2, ReadingFacts
<1>4. Len(b) \in Nat
  OBVIOUS
<1>5. /\ mem' \in Seq(Byte) /\ Len(mem') = Len(mem)
      /\ \A i \in Nat : i < dst \/ i >= dst + Len(b) => In(mem', i) = In(mem, i)
      /\ \A j \in Nat : j < Len(b) /\ dst + j <= Len(mem) => In(mem', dst + j) = b[j + 1]
  BY <1>1, <1>3, StoredFacts
<1>6. \A i \in Nat : i < dst \/ i >= src + n => In(mem', i) = In(mem, i)
  BY <1>3, <1>4, <1>5
<1>7. ASSUME NEW j \in Nat, j < Len(b) PROVE j + Lead(In(mem', dst + j)) <= Len(b)
  <2>1. dst + j <= Len(mem)
    BY <1>3, <1>4, <1>7
  <2>2. In(mem', dst + j) = b[j + 1]
    BY <1>5, <1>7, <2>1
  <2>. QED
    BY <1>7, <2>2
<1>8. Stopped'
  BY <1>1 DEF Stopped
<1>9. dst + Len(b) < src + n
  BY <1>3, <1>4
<1>. QED
  BY <1>1, <1>2, <1>3, <1>4, <1>5, <1>6, <1>7, <1>8, <1>9, CopyTo

LEMMA HexFacts ==
    ASSUME Types, NEW i \in Nat, IsHex(i)
    PROVE  /\ HexU16(i) \in Nat /\ HexU16(i) < 65536
           /\ \A k \in 0 .. 3 : At(i + k) # 0
<1>1. ASSUME NEW k \in 0 .. 3 PROVE Hex(At(i + k)) \in Nat /\ Hex(At(i + k)) < 16 /\ At(i + k) # 0
  <2>1. At(i + k) \in Nat
    BY AtFacts, i + k \in Nat
  <2>2. Hex(At(i + k)) < 16
    BY DEF IsHex
  <2>3. At(i + k) < 300 => Hex(At(i + k)) \in Nat
    BY <2>1, SMT DEF Hex
  <2>4. Hex(0) = 240
    BY SMT DEF Hex
  <2>5. At(i + k) < 300
    BY AtFacts, i + k \in Nat
  <2>. QED
    BY <2>2, <2>3, <2>4, <2>5
<1>2. At(i + 0) = At(i)
  OBVIOUS
<1>3. /\ Hex(At(i)) \in Nat /\ Hex(At(i)) < 16 /\ Hex(At(i + 1)) \in Nat /\ Hex(At(i + 1)) < 16
      /\ Hex(At(i + 2)) \in Nat /\ Hex(At(i + 2)) < 16 /\ Hex(At(i + 3)) \in Nat /\ Hex(At(i + 3)) < 16
  BY <1>1, <1>2
<1>4. HexU16(i) \in Nat /\ HexU16(i) < 65536
  BY <1>3, SMT DEF HexU16
<1>. QED
  BY <1>1, <1>4

LEMMA SingleFacts ==
    ASSUME NEW c \in DOMAIN Single
    PROVE  c # 0 /\ Single[c] \in Byte /\ Lead(Single[c]) = 1
<1>1. c # 0 /\ Single[c] \in Nat /\ Single[c] < 128
  BY SMT DEF Single, Quote, Escape, Slash
<1>. QED
  BY <1>1, ByteRange, SmallLead

LEMMA LookedFacts ==
    ASSUME IInv, pc \in Reading, NEW i \in Nat, Looked(i), i <= Len(text) + Padding
    PROVE  far' \in Nat /\ far' <= Len(text) + Padding
<1>1. far \in Nat /\ far <= Len(text) + Padding
  BY ReadingFacts
<1>. QED
  BY <1>1 DEF Looked

LEMMA CopyEscapeStep ==
    ASSUME IInv, CopyEscape
    PROVE  IInv'
<1> DEFINE c  == At(src + 1)
           hi == HexU16(src + 2)
           lo == HexU16(src + 8)
           pair == At(src + 6) = Escape /\ At(src + 7) = 117
           code == 65536 + 1024 * (hi - 55296) + (lo - 56320)
<1>1. /\ pc = "copy_escape" /\ pc \in Copying /\ pc \in Reading /\ Kept
      /\ Types /\ Unread /\ Whole(mem, dst)
  BY Sets DEF CopyEscape, IInv, Ended
<1>2. /\ src \in Nat /\ src >= 1 /\ dst \in Nat /\ dst >= 1 /\ dst <= src
      /\ Len(text) \in Nat /\ Padding \in Nat /\ Padding >= 4
      /\ far \in Nat /\ far <= Len(text) + Padding
  BY <1>1, ReadingFacts
<1>3. \A i \in Nat : src + i \in Nat /\ (At(src + i) # 0 => src + i <= Len(text))
  <2> SUFFICES ASSUME NEW i \in Nat PROVE src + i \in Nat /\ (At(src + i) # 0 => src + i <= Len(text))
    OBVIOUS
  <2>1. src + i \in Nat /\ src + i >= src
    BY <1>2
  <2>. QED
    BY <1>1, <2>1, ZeroBehind
<1>4. At(src) = Escape => src <= Len(text)
  BY <1>2, <1>3, src + 0 = src DEF Escape
<1>5. CASE At(src) = Quote /\ Close(dst) /\ UNCHANGED far
  BY <1>1, <1>2, <1>5, CloseStep
<1>6. CASE Fail /\ UNCHANGED far
  BY <1>1, <1>2, <1>6, FailStep
<1>7. CASE At(src) = Escape /\ c \in DOMAIN Single /\ Decoded(<<Single[c]>>, 2) /\ Looked(src + 1)
  <2>1. c # 0 /\ Single[c] \in Byte /\ Lead(Single[c]) = 1
    BY <1>7, SingleFacts
  <2>2. src + 1 <= Len(text)
    BY <1>3, <2>1
  <2> DEFINE b == <<Single[c]>>
  <2>3. b \in Seq(Byte) /\ Len(b) = 1 /\ b[1] = Single[c]
    BY <2>1
  <2>4. Decoded(b, 2)
    BY <1>7
  <2>. HIDE DEF b
  <2>5. \A j \in Nat : j < Len(b) => j + Lead(b[j + 1]) <= Len(b)
    BY <2>1, <2>3
  <2>6. far' \in Nat /\ far' <= Len(text) + Padding
    BY <1>1, <1>2, <1>3, <1>7, <2>2, LookedFacts
  <2>7. src + 2 <= Len(text) + 1 /\ Len(b) < 2
    BY <1>2, <2>2, <2>3
  <2>. QED
    BY <1>1, <2>3, <2>4, <2>5, <2>6, <2>7, DecodedStep
<1>8. CASE At(src) = Escape /\ Fail /\ Looked(src + 1)
  <2>1. src + 1 <= Len(text) + Padding /\ src + 1 \in Nat
    BY <1>2, <1>4, <1>8
  <2>. QED
    BY <1>1, <1>8, <2>1, LookedFacts, FailStep
<1>9. CASE At(src) = Escape /\ c = 117 /\ Fail /\ Looked(src + 5)
  <2>1. src + 1 <= Len(text)
    BY <1>3, <1>9
  <2>2. src + 5 <= Len(text) + Padding /\ src + 5 \in Nat
    BY <1>2, <2>1
  <2>. QED
    BY <1>1, <1>9, <2>2, LookedFacts, FailStep
<1>10. IsHex(src + 2) => src + 5 <= Len(text) /\ hi \in Nat /\ hi < 65536
  <2> SUFFICES ASSUME IsHex(src + 2) PROVE src + 5 <= Len(text) /\ hi \in Nat /\ hi < 65536
    OBVIOUS
  <2>1. src + 2 \in Nat
    BY <1>2
  <2>2. hi \in Nat /\ hi < 65536 /\ At(src + 2 + 3) # 0
    BY <1>1, <2>1, HexFacts
  <2>3. src + 2 + 3 = src + 5
    BY <1>2
  <2>. QED
    BY <1>3, <2>2, <2>3
<1>11. CASE /\ At(src) = Escape /\ c = 117 /\ IsHex(src + 2) /\ ~IsHigh(hi) /\ ~IsLow(hi)
            /\ Decoded(Utf8(hi), 6) /\ Looked(src + 5)
  <2> DEFINE b == Utf8(hi)
  <2>1. /\ b \in Seq(Byte) /\ Len(b) \in Nat /\ Len(b) <= 3
        /\ \A j \in Nat : j < Len(b) => j + Lead(b[j + 1]) <= Len(b)
    <3>1. hi \in Nat /\ hi < 65536
      BY <1>10, <1>11
    <3>. HIDE DEF hi
    <3>2. hi < 1114112
      BY <3>1
    <3>. QED
      BY <3>1, <3>2, Utf8Facts
  <2>2. Decoded(b, 6)
    BY <1>11
  <2>. HIDE DEF b
  <2>3. far' \in Nat /\ far' <= Len(text) + Padding
    BY <1>1, <1>2, <1>3, <1>10, <1>11, LookedFacts
  <2>4. src + 6 <= Len(text) + 1 /\ Len(b) < 6
    BY <1>2, <1>10, <1>11, <2>1
  <2>. QED
    BY <1>1, <2>1, <2>2, <2>3, <2>4, DecodedStep
<1>12. CASE /\ At(src) = Escape /\ c = 117 /\ IsHex(src + 2)
            /\ Looked(IF pair THEN src + 11 ELSE src + 7) /\ Fail
  <2>1. src + 5 <= Len(text)
    BY <1>10, <1>12
  <2>2. pair => src + 7 <= Len(text)
    BY <1>3
  <2> DEFINE e == IF pair THEN src + 11 ELSE src + 7
  <2>3. e \in Nat /\ e <= Len(text) + Padding
    BY <1>2, <2>1, <2>2
  <2>4. Looked(e)
    BY <1>12
  <2>. HIDE DEF e
  <2>. QED
    BY <1>1, <1>12, <2>3, <2>4, LookedFacts, FailStep
<1>13. CASE /\ At(src) = Escape /\ c = 117 /\ IsHex(src + 2) /\ IsHigh(hi)
            /\ Looked(IF pair THEN src + 11 ELSE src + 7)
            /\ pair /\ IsHex(src + 8) /\ IsLow(lo)
            /\ Decoded(Utf8(code), 12)
  <2>1. src + 8 \in Nat
    BY <1>2
  <2>2. lo \in Nat /\ lo < 65536 /\ At(src + 8 + 3) # 0
    BY <1>1, <1>13, <2>1, HexFacts
  <2>3. src + 8 + 3 = src + 11
    BY <1>2
  <2>4. src + 11 <= Len(text)
    BY <1>3, <2>2, <2>3
  <2>5. Looked(src + 11) /\ src + 11 \in Nat
    BY <1>2, <1>13
  <2>6. far' \in Nat /\ far' <= Len(text) + Padding
    BY <1>1, <1>2, <2>4, <2>5, LookedFacts
  <2>7. hi \in Nat /\ IsHigh(hi) /\ IsLow(lo)
    BY <1>10, <1>13
  <2> DEFINE u == hi
             w == lo
             b == Utf8(code)
  <2>8. code = 65536 + 1024 * (u - 55296) + (w - 56320)
    OBVIOUS
  <2>9. u \in Nat /\ w \in Nat /\ IsHigh(u) /\ IsLow(w)
    BY <2>2, <2>7
  <2>10. Decoded(b, 12)
    BY <1>13
  <2>. HIDE DEF u, w, hi, lo
  <2>11. code \in Nat /\ code < 1114112
    <3>. HIDE DEF code
    <3>. QED
      BY <2>8, <2>9, SMT DEF IsHigh, IsLow
  <2>12. /\ b \in Seq(Byte) /\ Len(b) \in Nat /\ Len(b) <= 4
         /\ \A j \in Nat : j < Len(b) => j + Lead(b[j + 1]) <= Len(b)
    <3>. HIDE DEF code
    <3>. QED
      BY <2>11, Utf8Facts
  <2>. HIDE DEF b
  <2>13. src + 12 <= Len(text) + 1 /\ Len(b) < 12
    BY <1>2, <2>4, <2>12
  <2>. QED
    BY <1>1, <2>6, <2>10, <2>12, <2>13, DecodedStep
<1>. HIDE DEF c, hi, lo, pair, code
<1>14. \/ At(src) = Quote /\ Close(dst) /\ UNCHANGED far
       \/ At(src) \notin {Quote, Escape} /\ Fail /\ UNCHANGED far
       \/ At(src) = Escape /\ c \in DOMAIN Single /\ Decoded(<<Single[c]>>, 2) /\ Looked(src + 1)
       \/ At(src) = Escape /\ c \notin DOMAIN Single \cup {117} /\ Fail /\ Looked(src + 1)
       \/ /\ At(src) = Escape /\ c = 117
          /\ \/ ~IsHex(src + 2) /\ Fail /\ Looked(src + 5)
             \/ /\ IsHex(src + 2) /\ ~IsHigh(hi) /\ ~IsLow(hi)
                /\ Decoded(Utf8(hi), 6) /\ Looked(src + 5)
             \/ IsHex(src + 2) /\ IsLow(hi) /\ Fail /\ Looked(src + 5)
             \/ /\ IsHex(src + 2) /\ IsHigh(hi)
                /\ Looked(IF pair THEN src + 11 ELSE src + 7)
                /\ \/ ~(pair /\ IsHex(src + 8) /\ IsLow(lo)) /\ Fail
                   \/ /\ pair /\ IsHex(src + 8) /\ IsLow(lo)
                      /\ Decoded(Utf8(code), 12)
  BY DEF CopyEscape, c, hi, lo, pair, code
<1>. QED
  BY <1>5, <1>6, <1>7, <1>8, <1>9, <1>11, <1>12, <1>13, <1>14

\* The bytes moved are the run, and what is stored beyond them has been read.
LEMMA AsciiMoved ==
    ASSUME IInv, CopyAscii, NEW n, n = Run(src, 16)
    PROVE  /\ n \in 0 .. 16
           /\ \A j \in Nat : j < n => ~Stop(At(src + j))
           /\ n = 16 \/ Stop(At(src + n))
           /\ src + n <= Len(text) + 1 /\ mem' \in Seq(Byte) /\ Len(mem') = Len(mem)
           /\ \A i \in Nat : i < dst \/ i >= src + n => In(mem', i) = In(mem, i)
           /\ \A j \in Nat : j < n => In(mem', dst + j) = At(src + j)
<1>1. pc \in Copying /\ pc \in Behind /\ pc \in Reading /\ Types /\ Unread
  BY Sets DEF CopyAscii, IInv
<1>2. /\ src \in Nat /\ src >= 1 /\ dst \in Nat /\ dst >= 1 /\ dst < src
      /\ Len(text) \in Nat /\ Padding \in Nat /\ Padding >= 4 /\ src <= Len(text) + 1
      /\ mem \in Seq(Byte) /\ Len(mem) = Len(text) + Padding
  BY <1>1, ReadingFacts DEF Unread
<1>3. mem' = Moved(n)
  BY DEF CopyAscii
<1>4. /\ n \in 0 .. 16
      /\ \A j \in Nat : j < n => ~Stop(At(src + j))
      /\ n = 16 \/ Stop(At(src + n))
  BY <1>2, RunFacts
<1>5. n \in Nat /\ n <= 16
  BY <1>4
<1>6. src + n <= Len(text) + 1
  <2>1. SUFFICES ASSUME src + n > Len(text) + 1 PROVE FALSE
    BY <1>2, <1>5
  <2>2. Len(text) + 1 - src \in Nat /\ Len(text) + 1 - src < n /\ src + (Len(text) + 1 - src) = Len(text) + 1
    BY <1>2, <1>5, <2>1
  <2>3. At(Len(text) + 1) = 0
    BY <1>1, <1>2, ZeroBehind, Len(text) + 1 \in Nat, ~(Len(text) + 1 <= Len(text))
  <2>4. Stop(0)
    BY SMT DEF Stop
  <2>. QED
    BY <1>4, <2>2, <2>3, <2>4
<1>7. src + n <= Len(mem)
  BY <1>2, <1>5, <1>6
<1>8. MovedTo(mem', Pairs(n)) /\ Pairs(n) \in Nat /\ n <= Pairs(n) /\ Pairs(n) <= n + 1
  BY <1>2, <1>3, <1>5, <1>7, MovedFacts
<1>9. /\ mem' \in Seq(Byte) /\ Len(mem') = Len(mem)
      /\ \A i \in Nat : In(mem', i) = IF dst <= i /\ i < dst + Pairs(n)
                                      THEN In(mem, src + i - dst) ELSE In(mem, i)
  BY <1>8 DEF MovedTo
<1>10. \A i \in Nat : i < dst \/ i >= src + n => In(mem', i) = In(mem, i)
  BY <1>2, <1>5, <1>8, <1>9
<1>11. ASSUME NEW j \in Nat, j < n PROVE In(mem', dst + j) = At(src + j)
  <2>1. dst + j \in Nat /\ dst <= dst + j /\ dst + j < dst + Pairs(n) /\ src + (dst + j) - dst = src + j
    BY <1>2, <1>5, <1>8, <1>11
  <2>. QED
    BY <1>9, <2>1 DEF At
<1>. QED
  BY <1>4, <1>6, <1>9, <1>10, <1>11

LEMMA CopyAsciiStep ==
    ASSUME IInv, CopyAscii
    PROVE  IInv'
<1> DEFINE n == Run(src, 16)
<1>1. /\ pc = "copy_ascii" /\ pc \in Copying /\ pc \in Behind /\ pc \in Reading /\ Kept
      /\ Types /\ Unread
  BY Sets DEF CopyAscii, IInv
<1>2. /\ src \in Nat /\ src >= 1 /\ dst \in Nat /\ dst >= 1 /\ dst < src
      /\ Len(text) \in Nat /\ Padding \in Nat /\ Padding >= 4 /\ src <= Len(text) + 1
      /\ mem \in Seq(Byte) /\ Len(mem) = Len(text) + Padding /\ pos \in Nat
  BY <1>1, ReadingFacts DEF Unread
<1>3. /\ mem' = Moved(n) /\ src' = src + n /\ dst' = dst + n
      /\ Looked(src + IF n < 16 THEN n ELSE 15)
      /\ pc' = (IF n = 16 THEN "copy_ascii" ELSE "copy_utf8")
      /\ pos' = pos /\ str' = str
  BY DEF CopyAscii
<1>4. /\ n \in 0 .. 16
      /\ \A j \in Nat : j < n => ~Stop(At(src + j))
      /\ n = 16 \/ Stop(At(src + n))
      /\ src + n <= Len(text) + 1 /\ mem' \in Seq(Byte) /\ Len(mem') = Len(mem)
      /\ \A i \in Nat : i < dst \/ i >= src + n => In(mem', i) = In(mem, i)
      /\ \A j \in Nat : j < n => In(mem', dst + j) = At(src + j)
  BY AsciiMoved
<1>. HIDE DEF n
<1>5. n \in Nat /\ n <= 16
  BY <1>4
<1>6. ASSUME NEW j \in Nat, j < n PROVE j + Lead(In(mem', dst + j)) <= n
  <2>1. At(src + j) \in Byte /\ ~Stop(At(src + j))
    BY <1>1, <1>2, <1>4, <1>6, AtFacts, src + j \in Nat
  <2>2. Lead(At(src + j)) = 1
    BY <2>1, PlainFacts
  <2>. QED
    BY <1>4, <1>5, <1>6, <2>2
<1>7. far' \in Nat /\ far' <= Len(text) + Padding
  <2> DEFINE e == src + IF n < 16 THEN n ELSE 15
  <2>1. e \in Nat /\ e <= Len(text) + Padding /\ Looked(e)
    BY <1>2, <1>3, <1>4, <1>5
  <2>. HIDE DEF e
  <2>. QED
    BY <1>1, <2>1, LookedFacts
<1>8. Stopped'
  <2>1. CASE n = 16
    BY <1>3, <2>1 DEF Stopped
  <2>2. CASE n # 16
    <3>1. Stop(At(src + n)) /\ pc' = "copy_utf8"
      BY <1>3, <1>4, <2>2
    <3>2. In(mem', src + n) = In(mem, src + n)
      BY <1>2, <1>4, <1>5
    <3>3. Stop(At(src)')
      BY <1>3, <3>1, <3>2 DEF At
    <3>. QED
      BY <3>1, <3>3 DEF Stopped, Stop
  <2>. QED
    BY <2>1, <2>2
<1>9. pc' \in Copying /\ dst + n < src + n
  BY <1>2, <1>3, <1>5, Sets
<1>. QED
  BY <1>1, <1>2, <1>3, <1>4, <1>5, <1>6, <1>7, <1>8, <1>9, CopyTo

LEMMA CopyUtf8Step ==
    ASSUME IInv, CopyUtf8
    PROVE  IInv'
<1>1. /\ pc = "copy_utf8" /\ pc \in Copying /\ pc \in Behind /\ pc \in Reading /\ Kept
      /\ Unread /\ Stopped
  BY Sets DEF CopyUtf8, IInv
<1>2. /\ pos' = src /\ pc' = (IF At(src) >= 128 THEN "copy_3" ELSE "copy_escape")
      /\ UNCHANGED <<mem, src, dst, far, str>>
  BY DEF CopyUtf8
<1>3. /\ src \in Nat /\ src <= Len(text) + 1 /\ dst \in Nat /\ dst < src /\ mem \in Seq(Byte)
      /\ far \in Nat /\ far <= Len(text) + Padding
  BY <1>1, ReadingFacts DEF Unread
<1>4. Stopped'
  <2>1. At(src) \in Nat
    BY <1>1, <1>3, AtFacts DEF IInv
  <2>2. At(src)' = At(src)
    BY <1>2, SameMemory
  <2>. QED
    BY <1>1, <1>2, <1>3, <2>1, <2>2 DEF Stopped
<1>5. pc' \in Copying
  BY <1>2, Sets
<1> DEFINE z == 0
<1>6. z \in Nat /\ dst' = dst + z /\ src' = src + z /\ src + z <= Len(text) + 1 /\ dst + z < src + z
      /\ \A j \in Nat : ~(j < z)
  BY <1>2, <1>3
<1>. HIDE DEF z
<1>. QED
  BY <1>1, <1>2, <1>3, <1>4, <1>5, <1>6, CopyTo

\* A sequence of n bytes is copied; the bytes behind it that go with it do no harm.
LEMMA Taken ==
    ASSUME IInv, pc \in {"copy_3", "copy_2", "copy_4"},
           NEW n \in {2, 3, 4}, NEW stored \in {2, 4}, n <= stored, stored <= n + 1,
           Valid(n, src), Take(n, stored)
    PROVE  /\ src + n <= Len(text) + 1 /\ mem' \in Seq(Byte) /\ Len(mem') = Len(mem)
           /\ \A i \in Nat : i < dst \/ i >= src + n => In(mem', i) = In(mem, i)
           /\ \A j \in Nat : j < n => In(mem', dst + j) = At(src + j)
<1>1. pc \in Copying /\ pc \in Behind /\ pc \in Reading /\ Types /\ Unread /\ Stopped
  BY Sets DEF IInv
<1>2. /\ src \in Nat /\ src >= 1 /\ dst \in Nat /\ dst >= 1 /\ dst < src
      /\ Len(text) \in Nat /\ Padding \in Nat /\ Padding >= 4 /\ src <= Len(text) + 1
      /\ mem \in Seq(Byte) /\ Len(mem) = Len(text) + Padding /\ pos \in Nat
  BY <1>1, ReadingFacts DEF Unread
<1>3. /\ mem' = Store(mem, dst, Bytes(mem, src, stored))
      /\ src' = src + n /\ dst' = dst + n /\ pc' = pc /\ pos' = pos /\ str' = str
  BY DEF Take
<1>4. src + n <= Len(text) + 1
  <2>1. \A j \in Nat : j < n => At(src + j) >= 128
    BY <1>2, ValidInside
  <2>2. n - 1 \in Nat /\ n - 1 < n /\ src + (n - 1) \in Nat /\ src + (n - 1) >= src
    BY <1>2
  <2>3. At(src + (n - 1)) # 0
    BY <2>1, <2>2
  <2>4. src + (n - 1) <= Len(text)
    BY <1>1, <2>2, <2>3, ZeroBehind
  <2>. QED
    BY <1>2, <2>4
<1> DEFINE b == Bytes(mem, src, stored)
<1>5. b \in Seq(Byte) /\ Len(b) = stored /\ \A j \in 1 .. stored : b[j] = In(mem, src + j - 1)
  BY <1>2, <1>4, BytesFacts
<1>6. mem' = Store(mem, dst, b)
  BY <1>3
<1>. HIDE DEF b
<1>7. /\ mem' \in Seq(Byte) /\ Len(mem') = Len(mem) /\ Len(mem) \in Nat
      /\ \A i \in Nat : i < dst \/ i >= dst + stored => In(mem', i) = In(mem, i)
      /\ \A j \in Nat : j < stored /\ dst + j <= Len(mem) => In(mem', dst + j) = b[j + 1]
  <2>1. mem \in Seq(Byte) /\ dst \in Nat /\ dst >= 1
    BY <1>2
  <2>2. /\ mem' \in Seq(Byte) /\ Len(mem') = Len(mem) /\ Len(mem) \in Nat
        /\ \A i \in Nat : i < dst \/ i >= dst + Len(b) => In(mem', i) = In(mem, i)
        /\ \A j \in Nat : j < Len(b) /\ dst + j <= Len(mem) => In(mem', dst + j) = b[j + 1]
    BY <1>5, <1>6, <2>1, StoredFacts
  <2>. QED
    BY <1>5, <2>2
<1>8. \A i \in Nat : i < dst \/ i >= src + n => In(mem', i) = In(mem, i)
  BY <1>2, <1>7
<1>9. ASSUME NEW j \in Nat, j < n PROVE In(mem', dst + j) = At(src + j)
  <2>1. j + 1 \in 1 .. stored /\ j < stored /\ dst + j <= Len(mem) /\ src + (j + 1) - 1 = src + j
    BY <1>2, <1>4, <1>9
  <2>. QED
    BY <1>5, <1>7, <2>1 DEF At
<1>. QED
  BY <1>4, <1>7, <1>8, <1>9

LEMMA TakeStep ==
    ASSUME IInv, pc \in {"copy_3", "copy_2", "copy_4"}, Kept, Looked(src + 3),
           NEW n \in {2, 3, 4}, NEW stored \in {2, 4}, n <= stored, stored <= n + 1,
           Valid(n, src), Take(n, stored)
    PROVE  IInv'
<1>1. pc \in Copying /\ pc \in Behind /\ pc \in Reading /\ Types /\ Unread /\ Stopped
  BY Sets DEF IInv
<1>2. /\ src \in Nat /\ src >= 1 /\ dst \in Nat /\ dst >= 1 /\ dst < src
      /\ Len(text) \in Nat /\ Padding \in Nat /\ Padding >= 4 /\ src <= Len(text) + 1
      /\ mem \in Seq(Byte) /\ Len(mem) = Len(text) + Padding /\ pos \in Nat
  BY <1>1, ReadingFacts DEF Unread
<1>3. /\ mem' = Store(mem, dst, Bytes(mem, src, stored))
      /\ src' = src + n /\ dst' = dst + n /\ pc' = pc /\ pos' = pos /\ str' = str
  BY DEF Take
<1>4. /\ src + n <= Len(text) + 1 /\ mem' \in Seq(Byte) /\ Len(mem') = Len(mem)
      /\ \A i \in Nat : i < dst \/ i >= src + n => In(mem', i) = In(mem, i)
      /\ \A j \in Nat : j < n => In(mem', dst + j) = At(src + j)
  BY Taken
<1>5. ASSUME NEW j \in Nat, j < n PROVE j + Lead(In(mem', dst + j)) <= n
  <2>1. Lead(At(src)) = n /\ \A x \in Nat : 1 <= x /\ x < n => Lead(At(src + x)) = 1
    BY <1>2, ValidLead
  <2>2. src + 0 = src
    BY <1>2
  <2>3. CASE j = 0
    BY <1>4, <1>5, <2>1, <2>2, <2>3
  <2>4. CASE j # 0
    BY <1>4, <1>5, <2>1, <2>4
  <2>. QED
    BY <2>3, <2>4
<1>6. far' \in Nat /\ far' <= Len(text) + Padding
  BY <1>1, <1>2, LookedFacts, src + 3 \in Nat, src + 3 <= Len(text) + Padding
<1>7. Stopped'
  <2>1. pos' <= src' /\ pos' # src'
    BY <1>1, <1>2, <1>3 DEF Stopped
  <2>. QED
    BY <1>3, <2>1 DEF Stopped
<1>8. pc' \in Copying /\ dst + n < src + n /\ n \in Nat
  BY <1>1, <1>2, <1>3
<1>. QED
  BY <1>1, <1>2, <1>3, <1>4, <1>5, <1>6, <1>7, <1>8, CopyTo

LEMMA TurnStep ==
    ASSUME IInv, Turn
    PROVE  IInv'
<1>1. /\ pc \in {"copy_3", "copy_2", "copy_4"} /\ pc \in Copying /\ pc \in Behind /\ pc \in Reading
      /\ Kept /\ Looked(src + 3) /\ Types /\ Unread /\ Stopped
  BY Sets DEF Turn, IInv
<1>2. /\ src \in Nat /\ src <= Len(text) + 1 /\ dst \in Nat /\ dst < src /\ mem \in Seq(Byte)
      /\ pos \in Nat /\ Padding \in Nat /\ Padding >= 4 /\ Len(text) \in Nat
  BY <1>1, ReadingFacts DEF Unread
<1>3. far' \in Nat /\ far' <= Len(text) + Padding
  BY <1>1, <1>2, LookedFacts, src + 3 \in Nat, src + 3 <= Len(text) + Padding
<1>4. CASE pc = "copy_3" /\ Valid3(src) /\ Take(3, 4)
  <2>1. Valid(3, src)
    BY <1>4 DEF Valid
  <2>. QED
    BY <1>1, <1>4, <2>1, TakeStep
<1>5. CASE pc = "copy_2" /\ Valid2(src) /\ Take(2, 2)
  <2>1. Valid(2, src)
    BY <1>5 DEF Valid
  <2>. QED
    BY <1>1, <1>5, <2>1, TakeStep
<1>6. CASE pc = "copy_4" /\ Valid4(src) /\ Take(4, 4)
  <2>1. Valid(4, src)
    BY <1>6 DEF Valid
  <2>. QED
    BY <1>1, <1>6, <2>1, TakeStep
<1>7. CASE Fail
  BY <1>1, <1>3, <1>7, FailStep
<1>8. CASE /\ UNCHANGED <<mem, src, dst, pos, str>>
           /\ \/ pc = "copy_3" /\ ~Valid3(src) /\ pc' = (IF Valid1(src) THEN "copy_ascii" ELSE "copy_2")
              \/ pc = "copy_2" /\ ~Valid2(src) /\ pc' = "copy_4"
              \/ pc = "copy_4" /\ pc' = "copy_ascii"
  <2>1. At(src)' = At(src) /\ Valid3(src)' = Valid3(src) /\ Valid2(src)' = Valid2(src)
    BY <1>8, SameMemory
  <2>2. Stopped'
    BY <1>1, <1>8, <2>1 DEF Stopped
  <2>3. pc' \in Copying
    BY <1>8, Sets
  <2> DEFINE z == 0
  <2>4. z \in Nat /\ dst' = dst + z /\ src' = src + z /\ src + z <= Len(text) + 1 /\ dst + z < src + z
        /\ \A j \in Nat : ~(j < z)
    BY <1>2, <1>8
  <2>. HIDE DEF z
  <2>. QED
    BY <1>1, <1>2, <1>3, <1>8, <2>2, <2>3, <2>4, CopyTo
<1>. QED
  BY <1>4, <1>5, <1>6, <1>7, <1>8 DEF Turn

-----------------------------------------------------------------------------
(* The writer *)

LEMMA WritingFacts ==
    ASSUME IInv, pc \in Writing
    PROVE  /\ src \in Nat /\ src >= 1 /\ src <= str /\ str \in Nat /\ str <= Len(mem) /\ At(str) = 0
           /\ far \in Nat /\ far <= str /\ Whole(mem, str)
           /\ Len(mem) \in Nat /\ mem \in Seq(Byte) /\ out \in Seq(Byte)
           /\ Len(text) \in Nat /\ Padding \in Nat
           /\ Types /\ pc \notin Reading
  BY Sets, TextAssumption DEF IInv, Types, Ended

\* What the writer writes, while it stays within the string.
LEMMA WriteTo ==
    ASSUME IInv, pc \in Writing, pc' \in Writing, UNCHANGED <<text, mem, dst, pos, str>>,
           out' \in Seq(Byte), NEW e \in Nat, src' = e, src <= e, e <= str,
           far' \in Nat, far' <= str
    PROVE  IInv'
<1>1. pc' \notin Reading /\ pc' \notin Behind /\ pc' \notin Skipping /\ pc' \notin Copying
  BY DEF Reading, Writing, Behind, Copying, Skipping
<1>2. Types'
  BY <1>1, WritingFacts DEF Types
<1>3. Unread'
  BY <1>1 DEF Unread
<1>4. Stopped'
  BY <1>1 DEF Stopped, Reading, Skipping, Copying, Behind
<1>5. At(str)' = 0 /\ Whole(mem', str')
  BY WritingFacts DEF At
<1>6. Ended'
  <2>1. 1 <= str /\ str <= Len(mem)
    BY WritingFacts
  <2>. QED
    BY <1>1, <1>5, <2>1 DEF Ended
<1>. QED
  BY <1>2, <1>3, <1>4, <1>6 DEF IInv

LEMMA StartWritingStep ==
    ASSUME IInv, StartWriting
    PROVE  IInv'
<1>1. /\ pc = "read" /\ pc' = "copy_char" /\ pc' \in Writing /\ pc' \notin Reading /\ pc' \notin Behind
      /\ pc' \notin Skipping /\ pc' \notin Copying /\ Types /\ Ended
  BY DEF StartWriting, IInv, Reading, Writing, Behind, Skipping, Copying
<1>2. /\ UNCHANGED <<text, mem, dst, pos, str>> /\ src' = 1 /\ far' = 0 /\ out' = <<Quote>>
  BY DEF StartWriting
<1>3. out' \in Seq(Byte)
  <2>1. Quote \in Byte
    BY ByteRange DEF Quote
  <2>. QED
    BY <1>2, <2>1
<1>4. Types'
  BY <1>1, <1>2, <1>3 DEF Types
<1>5. Unread' /\ Stopped'
  BY <1>1 DEF Unread, Stopped
<1>6. At(str)' = At(str)
  BY <1>2, SameMemory
<1>7. Ended'
  BY <1>1, <1>2, <1>6 DEF Ended, Types
<1>. QED
  BY <1>4, <1>5, <1>7 DEF IInv

LEMMA EscFacts ==
    ASSUME NEW b \in Byte
    PROVE  /\ Esc(b) \in {"ASCII", "UTF8_1", "UTF8_2", "UTF8_3", "UTF8_4", "NONE"}
           /\ Esc(0) # "NONE"
           /\ Esc(b) = "UTF8_1" => b < 32
           /\ Esc(b) = "UTF8_2" => Lead(b) = 2
           /\ Esc(b) = "UTF8_3" => Lead(b) = 3
           /\ Esc(b) = "UTF8_4" => Lead(b) = 4
           /\ Esc(b) = "ASCII" => \E c \in DOMAIN Single : Single[c] = b
<1>1. b \in Nat /\ b < 256
  BY ByteRange
<1>2. Esc(0) # "NONE"
  BY SMT DEF Esc, Quote, Escape, Slash
<1>3. Esc(b) = "UTF8_1" => b < 32
  BY SMT DEF Esc
<1>4. Esc(b) = "UTF8_2" => b \in 192 .. 223
  BY SMT DEF Esc
<1>5. Esc(b) = "UTF8_3" => b \in 224 .. 239
  BY SMT DEF Esc
<1>6. Esc(b) = "UTF8_4" => b \in 240 .. 247
  BY SMT DEF Esc
<1>7. Esc(b) = "ASCII" => b \in {8, 9, 10, 12, 13, Quote, Escape, Slash}
  BY SMT DEF Esc
<1>8. \A x \in {8, 9, 10, 12, 13, Quote, Escape, Slash} : \E c \in DOMAIN Single : Single[c] = x
  BY SMT DEF Single, Quote, Escape, Slash
<1>9. Esc(b) \in {"ASCII", "UTF8_1", "UTF8_2", "UTF8_3", "UTF8_4", "NONE"}
  BY SMT DEF Esc
<1>10. /\ b \in 192 .. 223 => Lead(b) = 2
       /\ b \in 224 .. 239 => Lead(b) = 3
       /\ b \in 240 .. 247 => Lead(b) = 4
  BY <1>1, SMT DEF Lead
<1>. QED
  BY <1>2, <1>3, <1>4, <1>5, <1>6, <1>7, <1>8, <1>9, <1>10

LEMMA CopyCharStep ==
    ASSUME IInv, CopyChar
    PROVE  IInv'
<1> DEFINE n == CHOOSE k \in 0 .. 16 : /\ \A j \in 0 .. k - 1 : Esc(At(src + j)) = "NONE"
                                       /\ k = 16 \/ Esc(At(src + k)) # "NONE"
<1>1. pc = "copy_char" /\ pc \in Writing
  BY Sets DEF CopyChar
<1>2. /\ src \in Nat /\ src >= 1 /\ src <= str /\ str \in Nat /\ str <= Len(mem) /\ At(str) = 0
      /\ far \in Nat /\ far <= str /\ Len(mem) \in Nat /\ mem \in Seq(Byte) /\ out \in Seq(Byte) /\ Types
  BY <1>1, WritingFacts
<1>3. /\ UNCHANGED <<text, mem, dst, pos, str>>
      /\ out' = out \o [k \in 1 .. n |-> At(src + k - 1)]
      /\ src' = src + n
      /\ Looked(src + IF n < 16 THEN n ELSE 15)
      /\ pc' = (IF n = 16 THEN "copy_char" ELSE "copy_next")
  BY DEF CopyChar
<1>4. /\ n \in 0 .. 16
      /\ \A j \in 0 .. n - 1 : Esc(At(src + j)) = "NONE"
      /\ n = 16 \/ Esc(At(src + n)) # "NONE"
  <2> DEFINE T == {k \in Nat : Esc(At(src + k)) # "NONE"}
  <2>1. PICK k \in 0 .. 16 : (\A j \in 0 .. k - 1 : j \notin T) /\ (k = 16 \/ k \in T)
    BY FirstOrAll, 16 \in Nat
  <2>2. \E k1 \in 0 .. 16 : /\ \A j \in 0 .. k1 - 1 : Esc(At(src + j)) = "NONE"
                            /\ k1 = 16 \/ Esc(At(src + k1)) # "NONE"
    BY <2>1
  <2>. QED
    BY <2>2
<1>. HIDE DEF n
<1>5. n \in Nat /\ n <= 16
  BY <1>4
<1>6. src + n <= str
  <2>1. SUFFICES ASSUME src + n > str PROVE FALSE
    BY <1>2, <1>5
  <2>2. str - src \in 0 .. n - 1 /\ src + (str - src) = str
    BY <1>2, <1>5, <2>1
  <2>3. Esc(0) # "NONE"
    BY EscFacts, ByteRange
  <2>. QED
    BY <1>2, <1>4, <2>2, <2>3
<1>7. out' \in Seq(Byte)
  <2> DEFINE b == [k \in 1 .. n |-> At(src + k - 1)]
  <2>1. ASSUME NEW k \in 1 .. n PROVE At(src + k - 1) \in Byte
    BY <1>2, AtFacts, src + k - 1 \in Nat
  <2>2. b \in Seq(Byte) /\ out' = out \o b
    BY <1>3, <1>5, <2>1
  <2>. HIDE DEF b
  <2>. QED
    BY <1>2, <2>2, ConcatTyped
<1>8. far' \in Nat /\ far' <= str
  <2> DEFINE e == src + IF n < 16 THEN n ELSE 15
  <2>1. e \in Nat /\ e <= str /\ Looked(e)
    BY <1>2, <1>3, <1>5, <1>6
  <2>. HIDE DEF e
  <2>. QED
    BY <1>2, <2>1 DEF Looked
<1>9. pc' \in Writing /\ src + n \in Nat /\ src <= src + n
  BY <1>2, <1>3, <1>5, Sets
<1>. QED
  BY <1>1, <1>3, <1>6, <1>7, <1>8, <1>9, WriteTo

LEMMA UFacts ==
    ASSUME NEW n \in Nat, n < 65536
    PROVE  U(n) \in Seq(Byte) /\ Len(U(n)) = 6
<1> DEFINE a == HexDigit(n \div 4096)
           b == HexDigit((n \div 256) % 16)
           c == HexDigit((n \div 16) % 16)
           d == HexDigit(n % 16)
<1>1. a \in Nat /\ b \in Nat /\ c \in Nat /\ d \in Nat /\ a < 256 /\ b < 256 /\ c < 256 /\ d < 256
  BY SMT DEF HexDigit
<1>2. U(n) = <<Escape, 117, a, b, c, d>>
  BY DEF U
<1>. HIDE DEF a, b, c, d
<1>3. Escape \in Byte /\ 117 \in Byte /\ a \in Byte /\ b \in Byte /\ c \in Byte /\ d \in Byte
  BY <1>1, ByteRange DEF Escape
<1>. QED
  BY <1>2, <1>3

LEMMA CopyNextStep ==
    ASSUME IInv, CopyNext
    PROVE  IInv'
<1> DEFINE b == At(src)
           c1 == At(src + 1) % 64
           c2 == At(src + 2) % 64
           c3 == At(src + 3) % 64
           two   == 64 * (b % 32) + c1
           three == 4096 * (b % 16) + 64 * c1 + c2
           four  == 262144 * (b % 8) + 4096 * c1 + 64 * c2 + c3
<1>1. pc = "copy_next" /\ pc \in Writing
  BY Sets DEF CopyNext
<1>2. /\ src \in Nat /\ src >= 1 /\ src <= str /\ str \in Nat /\ str <= Len(mem)
      /\ far \in Nat /\ far <= str /\ Len(mem) \in Nat /\ mem \in Seq(Byte) /\ out \in Seq(Byte)
      /\ Types /\ Whole(mem, str)
  BY <1>1, WritingFacts
<1>3. UNCHANGED <<text, mem, dst, pos, far, str>> /\ src < str
  BY DEF CopyNext
<1>4. b \in Byte /\ b \in Nat /\ b < 256
  BY <1>2, AtFacts
<1>5. c1 \in Nat /\ c2 \in Nat /\ c3 \in Nat /\ c1 < 64 /\ c2 < 64 /\ c3 < 64
  <2>1. At(src + 1) \in Nat /\ At(src + 2) \in Nat /\ At(src + 3) \in Nat
    BY <1>2, AtFacts, src + 1 \in Nat, src + 2 \in Nat, src + 3 \in Nat
  <2>. QED
    BY <2>1, SMT
<1>6. src + Lead(b) <= str
  BY <1>2, <1>3 DEF Whole, At
<1>7. \/ /\ Esc(b) = "NONE"
         /\ out' = Append(out, b) /\ src' = src + 1 /\ pc' = "copy_char"
      \/ Esc(b) = "ASCII" /\ Escaped(<<Escape, Letter(b)>>, 1)
      \/ Esc(b) = "UTF8_1" /\ Escaped(U(b), 1)
      \/ Esc(b) = "UTF8_2" /\ Escaped(U(two), 2)
      \/ Esc(b) = "UTF8_3" /\ Escaped(U(three), 3)
      \/ Esc(b) = "UTF8_4" /\ Escaped(SurrogatePair(four), 4)
  BY SMT DEF CopyNext
<1>. HIDE DEF b, c1, c2, c3
<1>14. two \in Nat /\ two < 65536 /\ three \in Nat /\ three < 65536 /\ four \in Nat /\ four < 2097152
  BY <1>4, <1>5, SMT
<1>. HIDE DEF two, three, four
<1>8. CASE /\ Esc(b) = "NONE"
           /\ out' = Append(out, b) /\ src' = src + 1 /\ pc' = "copy_char"
  <2>1. out' \in Seq(Byte)
    BY <1>2, <1>4, <1>8
  <2>2. src + 1 \in Nat /\ src <= src + 1 /\ src + 1 <= str /\ pc' \in Writing
    BY <1>2, <1>3, <1>8, Sets
  <2>. QED
    BY <1>1, <1>2, <1>3, <1>8, <2>1, <2>2, WriteTo
<1>9. CASE Esc(b) = "ASCII" /\ Escaped(<<Escape, Letter(b)>>, 1)
  <2>1. Letter(b) \in DOMAIN Single
    BY <1>4, <1>9, EscFacts DEF Letter
  <2>2. Letter(b) \in Byte
    <3>1. DOMAIN Single \subseteq Byte
      BY SMT DEF Single, Byte, Quote, Escape, Slash
    <3>. QED
      BY <2>1, <3>1
  <2>3. Escape \in Byte
    BY ByteRange DEF Escape
  <2> DEFINE x == <<Escape, Letter(b)>>
  <2>4. x \in Seq(Byte)
    BY <2>2, <2>3
  <2>. HIDE DEF x
  <2>5. out' \in Seq(Byte)
    BY <1>2, <1>9, <2>4, ConcatTyped DEF x, Escaped
  <2>6. src + 1 \in Nat /\ src <= src + 1 /\ src + 1 <= str /\ pc' \in Writing
    BY <1>1, <1>2, <1>3, <1>9 DEF Escaped
  <2>. QED
    BY <1>1, <1>2, <1>3, <1>9, <2>5, <2>6, WriteTo DEF Escaped
<1>10. CASE Esc(b) = "UTF8_1" /\ Escaped(U(b), 1)
  <2>1. out' \in Seq(Byte)
    BY <1>2, <1>4, <1>10, UFacts, ConcatTyped, b < 65536 DEF Escaped
  <2>2. src + 1 \in Nat /\ src <= src + 1 /\ src + 1 <= str /\ pc' \in Writing
    BY <1>1, <1>2, <1>3, <1>10 DEF Escaped
  <2>. QED
    BY <1>1, <1>2, <1>3, <1>10, <2>1, <2>2, WriteTo DEF Escaped
<1>11. CASE Esc(b) = "UTF8_2" /\ Escaped(U(two), 2)
  <2>2. out' \in Seq(Byte)
    BY <1>2, <1>11, <1>14, UFacts, ConcatTyped DEF Escaped
  <2>3. Lead(b) = 2
    BY <1>4, <1>11, EscFacts
  <2>4. src + 2 \in Nat /\ src <= src + 2 /\ src + 2 <= str /\ pc' \in Writing
    BY <1>1, <1>2, <1>6, <1>11, <2>3 DEF Escaped
  <2>. QED
    BY <1>1, <1>2, <1>3, <1>11, <2>2, <2>4, WriteTo DEF Escaped
<1>12. CASE Esc(b) = "UTF8_3" /\ Escaped(U(three), 3)
  <2>2. out' \in Seq(Byte)
    BY <1>2, <1>12, <1>14, UFacts, ConcatTyped DEF Escaped
  <2>3. Lead(b) = 3
    BY <1>4, <1>12, EscFacts
  <2>4. src + 3 \in Nat /\ src <= src + 3 /\ src + 3 <= str /\ pc' \in Writing
    BY <1>1, <1>2, <1>6, <1>12, <2>3 DEF Escaped
  <2>. QED
    BY <1>1, <1>2, <1>3, <1>12, <2>2, <2>4, WriteTo DEF Escaped
<1>13. CASE Esc(b) = "UTF8_4" /\ Escaped(SurrogatePair(four), 4)
  <2> DEFINE y == 55296 + (four - 65536) \div 1024
             z == 56320 + ((four - 65536) % 1024)
  <2>2. SurrogatePair(four) = U(y) \o U(z)
    BY DEF SurrogatePair
  <2>3. out' = out \o SurrogatePair(four)
    BY <1>13 DEF Escaped
  <2>4. y \in Nat /\ y < 65536 /\ z \in Nat /\ z < 65536
    BY <1>14, SMT
  <2>. HIDE DEF y, z
  <2>5. out' \in Seq(Byte)
    BY <1>2, <2>2, <2>3, <2>4, UFacts, ConcatTyped
  <2>6. Lead(b) = 4
    BY <1>4, <1>13, EscFacts
  <2>7. src + 4 \in Nat /\ src <= src + 4 /\ src + 4 <= str /\ pc' \in Writing
    BY <1>1, <1>2, <1>6, <1>13, <2>6 DEF Escaped
  <2>. QED
    BY <1>1, <1>2, <1>3, <1>13, <2>5, <2>7, WriteTo DEF Escaped
<1>. QED
  BY <1>7, <1>8, <1>9, <1>10, <1>11, <1>12, <1>13

LEMMA LoadedFacts ==
    ASSUME NEW t \in Seq(Byte)
    PROVE  /\ t \o Zeros(Padding) \in Seq(Byte) /\ Len(t \o Zeros(Padding)) = Len(t) + Padding
           /\ \A i \in Nat : In(t \o Zeros(Padding), i) = In(t, i)
<1> DEFINE z == Zeros(Padding)
<1>1. Padding \in Nat
  BY TextAssumption
<1>2. z \in Seq(Byte) /\ Len(z) = Padding /\ \A i \in 1 .. Padding : z[i] = 0
  BY <1>1, ByteRange DEF Zeros
<1>. HIDE DEF z
<1>3. t \o z \in Seq(Byte) /\ Len(t \o z) = Len(t) + Padding /\ Len(t) \in Nat
  BY <1>2, ConcatTyped
<1>4. ASSUME NEW i \in Nat PROVE In(t \o z, i) = In(t, i)
  <2>1. CASE i \in 1 .. Len(t)
    BY <1>1, <1>2, <1>3, <2>1 DEF In
  <2>2. CASE i > Len(t) /\ i <= Len(t) + Padding
    <3>1. (t \o z)[i] = z[i - Len(t)] /\ i - Len(t) \in 1 .. Padding
      BY <1>1, <1>2, <1>3, <2>2
    <3>. QED
      BY <1>1, <1>2, <1>3, <2>2, <3>1 DEF In
  <2>3. CASE i = 0 \/ i > Len(t) + Padding
    BY <1>1, <1>3, <2>3 DEF In
  <2>. QED
    BY <1>3, <2>1, <2>2, <2>3
<1>. QED
  BY <1>3, <1>4 DEF z

\* A text is loaded: it lies before zeros, and nothing is read of it.
LEMMA Loaded ==
    ASSUME text' \in Seq(Byte), mem' = text' \o Zeros(Padding), pc' = "skip_ascii",
           src' = 1, dst' = 1, pos' = 0, far' = 0, str' = 0, out' \in Seq(Byte)
    PROVE  IInv'
<1>1. /\ mem' \in Seq(Byte) /\ Len(mem') = Len(text') + Padding
      /\ \A i \in Nat : In(mem', i) = In(text', i)
  BY LoadedFacts
<1>2. Len(text') \in Nat /\ Padding \in Nat
  BY TextAssumption
<1>3. pc' \in Skipping /\ pc' \in Reading /\ pc' \notin Copying /\ pc' \notin Writing /\ pc' \notin Behind
  BY Sets
<1>4. Types'
  BY <1>1, <1>3 DEF Types
<1>5. Unread'
  <2>1. \A i \in Nat : At(i)' = In(text', i)
    BY <1>1 DEF At
  <2>2. src' <= Len(text') + 1 /\ dst' <= src' /\ far' <= Len(text') + Padding
    BY <1>2
  <2>. QED
    BY <1>3, <2>1, <2>2 DEF Unread
<1>6. Stopped'
  BY DEF Stopped
<1>7. Whole(mem', 1)
  BY DEF Whole
<1>8. Ended'
  BY <1>3, <1>7 DEF Ended
<1>. QED
  BY <1>4, <1>5, <1>6, <1>8 DEF IInv

LEMMA ReadAgainStep ==
    ASSUME IInv, ReadAgain
    PROVE  IInv'
<1>1. /\ out' = Append(out, Quote) /\ text' = Tail(out') /\ mem' = Tail(out') \o Zeros(Padding)
      /\ pc' = "skip_ascii" /\ src' = 1 /\ dst' = 1 /\ pos' = 0 /\ far' = 0 /\ str' = 0
  BY DEF ReadAgain
<1>2. out \in Seq(Byte)
  BY DEF IInv, Types
<1>3. Quote \in Byte
  BY ByteRange DEF Quote
<1>4. out' \in Seq(Byte) /\ out' # <<>>
  BY <1>1, <1>2, <1>3
<1>5. text' \in Seq(Byte) /\ mem' = text' \o Zeros(Padding)
  BY <1>1, <1>4
<1>. QED
  BY <1>1, <1>4, <1>5, Loaded

LEMMA Initially == Init => IInv
<1> SUFFICES ASSUME Init PROVE IInv
  OBVIOUS
<1>1. /\ text \in Seq(Byte) /\ mem = text \o Zeros(Padding)
      /\ pc = "skip_ascii" /\ src = 1 /\ dst = 1 /\ pos = 0 /\ far = 0 /\ str = 0 /\ out = <<>>
  BY TextAssumption DEF Init
<1>2. /\ mem \in Seq(Byte) /\ Len(mem) = Len(text) + Padding
      /\ \A i \in Nat : In(mem, i) = In(text, i)
  BY <1>1, LoadedFacts
<1>3. Len(text) \in Nat /\ Padding \in Nat
  BY <1>1, TextAssumption
<1>4. pc \in Skipping /\ pc \in Reading /\ pc \notin Copying /\ pc \notin Writing /\ pc \notin Behind
  BY <1>1, Sets
<1>5. Types
  BY <1>1, <1>2, <1>4 DEF Types
<1>6. Unread
  <2>1. \A i \in Nat : At(i) = In(text, i)
    BY <1>2 DEF At
  <2>. QED
    BY <1>1, <1>3, <1>4, <2>1 DEF Unread
<1>7. Stopped
  BY <1>1 DEF Stopped
<1>8. Ended
  <2>1. Whole(mem, 1)
    BY DEF Whole
  <2>. QED
    BY <1>1, <1>4, <2>1 DEF Ended
<1>. QED
  BY <1>5, <1>6, <1>7, <1>8 DEF IInv

LEMMA Stepwise == IInv /\ [Next]_vars => IInv'
<1> SUFFICES ASSUME IInv, [Next]_vars PROVE IInv'
  OBVIOUS
<1>1. CASE ReadString
  BY <1>1, SkipAsciiStep, SkipUtf8Step, CopyEscapeStep, CopyAsciiStep, CopyUtf8Step, TurnStep
     DEF ReadString
<1>2. CASE WriteString
  BY <1>2, StartWritingStep, CopyCharStep, CopyNextStep, ReadAgainStep DEF WriteString
<1>3. CASE UNCHANGED vars
  BY <1>3 DEF vars, IInv, Types, Unread, Stopped, Ended, At, Valid2, Valid3
<1>. QED
  BY <1>1, <1>2, <1>3 DEF Next

\* What the run shows of InPlace.
LEMMA InPlaceHolds == IInv => InPlace
<1> SUFFICES ASSUME IInv PROVE InPlace
  OBVIOUS
<1>1. ASSUME pc \in {"copy_escape", "copy_ascii", "copy_utf8", "copy_3", "copy_2", "copy_4"},
             NEW i \in src .. Len(text)
      PROVE  mem[i] = text[i]
  <2>1. pc \in Reading
    BY <1>1, Sets
  <2>2. i \in Nat /\ i >= src /\ i \in 1 .. Len(text) /\ i \in 1 .. Len(mem)
    BY <2>1, ReadingFacts
  <2>3. At(i) = In(text, i)
    BY <2>1, <2>2 DEF IInv, Unread
  <2>. QED
    BY <2>2, <2>3 DEF At, In
<1>2. CASE pc \in {"copy_char", "copy_next"}
  BY <1>1, <1>2, WritingFacts, Sets DEF InPlace
<1>3. CASE pc \notin {"copy_char", "copy_next"}
  BY <1>1, <1>3 DEF InPlace, IInv, Unread, Writing
<1>. QED
  BY <1>2, <1>3

\* Every text is decoded without storing over what is still to be read, and whatever
\* way it breaks off, no byte beyond the zeros behind it is looked at; the writer
\* looks no further than the zero behind its string (read_string, write_string).
THEOREM NeverAhead == Spec => []InPlace
<1>1. Spec => []IInv
  BY Initially, Stepwise, PTL DEF Spec
<1>. QED
  BY <1>1, InPlaceHolds, PTL

-----------------------------------------------------------------------------
(* What a text says *)

Said == [ok : BOOLEAN, next : Nat, bytes : Seq(Byte)]

LEMMA PrefixedFacts ==
    ASSUME NEW r \in Said, NEW b \in Seq(Byte)
    PROVE  /\ Prefixed(b, r) \in Said
           /\ Prefixed(b, r).ok = r.ok /\ Prefixed(b, r).next = r.next /\ Prefixed(b, r).bytes = b \o r.bytes
<1>1. b \o r.bytes \in Seq(Byte)
  BY ConcatTyped DEF Said
<1>2. Prefixed(b, r) = [r EXCEPT !.bytes = b \o r.bytes]
  BY DEF Prefixed
<1>. QED
  BY <1>1, <1>2 DEF Said

LEMMA PrefixedTwice ==
    ASSUME NEW r \in Said, NEW a \in Seq(Byte), NEW b \in Seq(Byte)
    PROVE  Prefixed(a, Prefixed(b, r)) = Prefixed(a \o b, r)
<1> DEFINE e == r.bytes
<1>1. e \in Seq(Byte)
  BY DEF Said
<1>. HIDE DEF e
<1>2. a \o (b \o e) = (a \o b) \o e
  BY ONLY <1>1, a \in Seq(Byte), b \in Seq(Byte), ConcatAssociative
<1>3. r = [ok |-> r.ok, next |-> r.next, bytes |-> r.bytes]
  BY DEF Said
<1>. QED
  BY <1>2, <1>3 DEF Prefixed, e

LEMMA SliceFacts ==
    ASSUME NEW s \in Seq(Byte), NEW i \in Nat, NEW n \in Nat, i >= 1
    PROVE  /\ Slice(s, i, n) \in Seq(Byte) /\ Len(Slice(s, i, n)) = n
           /\ \A k \in 1 .. n : Slice(s, i, n)[k] = In(s, i + k - 1)
<1>1. ASSUME NEW k \in 1 .. n PROVE In(s, i + k - 1) \in Byte
  BY InTyped, i + k - 1 \in Int
<1>2. Slice(s, i, n) = [k \in 1 .. n |-> In(s, i + k - 1)]
  BY DEF Slice
<1>3. Slice(s, i, n) \in [1 .. n -> Byte]
  BY <1>1, <1>2
<1>4. \A k \in 1 .. n : Slice(s, i, n)[k] = In(s, i + k - 1)
  BY <1>2
<1>5. Slice(s, i, n) \in Seq(Byte) /\ Len(Slice(s, i, n)) = n
  BY ONLY <1>3, n \in Nat
<1>. QED
  BY <1>4, <1>5

LEMMA SliceJoins ==
    ASSUME NEW s \in Seq(Byte), NEW i \in Nat, NEW n \in Nat, NEW m \in Nat, i >= 1
    PROVE  Slice(s, i, n) \o Slice(s, i + n, m) = Slice(s, i, n + m)
<1> DEFINE a == Slice(s, i, n)
           b == Slice(s, i + n, m)
           c == Slice(s, i, n + m)
<1>1. /\ a \in Seq(Byte) /\ Len(a) = n /\ \A k \in 1 .. n : a[k] = In(s, i + k - 1)
      /\ c \in Seq(Byte) /\ Len(c) = n + m /\ \A k \in 1 .. n + m : c[k] = In(s, i + k - 1)
  BY SliceFacts, n + m \in Nat
<1>2. /\ b \in Seq(Byte) /\ Len(b) = m /\ \A k \in 1 .. m : b[k] = In(s, i + n + k - 1)
  BY SliceFacts, i + n \in Nat, i + n >= 1
<1>. HIDE DEF a, b, c
<1>3. a \o b \in Seq(Byte) /\ Len(a \o b) = n + m
  BY <1>1, <1>2, ConcatTyped
<1>0. \A k \in 1 .. n + m : (a \o b)[k] = IF k <= n THEN a[k] ELSE b[k - n]
  BY ONLY <1>1, <1>2, n \in Nat, m \in Nat, ConcatProperties
<1>4. ASSUME NEW k \in 1 .. n + m PROVE (a \o b)[k] = c[k]
  <2>0. k \in Nat /\ k >= 1 /\ (k <= n \/ k > n) /\ (k > n => k - n \in 1 .. m)
    BY ONLY k \in 1 .. n + m, n \in Nat, m \in Nat
  <2>1. CASE k <= n
    <3>1. k \in 1 .. n
      BY <2>0, <2>1
    <3>. QED
      BY <1>0, <1>1, <2>1, <3>1
  <2>2. CASE k > n
    <3>1. (a \o b)[k] = b[k - n]
      <4>1. ~(k <= n)
        BY <2>0, <2>2
      <4>. QED
        BY ONLY <1>0, <4>1, k \in 1 .. n + m, Zenon
    <3>2. i + n + (k - n) - 1 = i + k - 1
      BY <2>0
    <3>3. b[k - n] = In(s, i + n + (k - n) - 1)
      BY <1>2, <2>0, <2>2
    <3>4. c[k] = In(s, i + k - 1)
      BY <1>1
    <3>. QED
      BY <3>1, <3>2, <3>3, <3>4
  <2>. QED
    BY ONLY <2>0, <2>1, <2>2, Zenon
<1>5. Len(a \o b) = Len(c) /\ \A k \in 1 .. Len(a \o b) : (a \o b)[k] = c[k]
  BY <1>1, <1>3, <1>4
<1>6. a \o b = c
  BY ONLY <1>1, <1>3, <1>5, SeqEqual
<1>. QED
  BY <1>6 DEF a, b, c

LEMMA SliceOn ==
    ASSUME NEW s \in Seq(Byte), NEW i \in Nat, NEW n \in Nat, i >= 1
    PROVE  /\ Slice(s, 1, i - 1) \in Seq(Byte) /\ Len(Slice(s, 1, i - 1)) = i - 1
           /\ \A k \in 1 .. i - 1 : Slice(s, 1, i - 1)[k] = In(s, 1 + k - 1)
           /\ Slice(s, i, n) \in Seq(Byte)
           /\ Slice(s, 1, i - 1) \o Slice(s, i, n) = Slice(s, 1, i + n - 1)
<1> DEFINE d == i - 1
           o == 1
<1>1. d \in Nat /\ o \in Nat /\ o >= 1 /\ o + d = i /\ d + n = i + n - 1
  OBVIOUS
<1>. HIDE DEF d, o
<1>2. /\ Slice(s, o, d) \in Seq(Byte) /\ Len(Slice(s, o, d)) = d
      /\ \A k \in 1 .. d : Slice(s, o, d)[k] = In(s, o + k - 1)
  BY <1>1, SliceFacts
<1>3. Slice(s, i, n) \in Seq(Byte)
  BY SliceFacts
<1>4. Slice(s, o, d) \o Slice(s, o + d, n) = Slice(s, o, d + n)
  BY <1>1, SliceJoins
<1>. QED
  BY <1>1, <1>2, <1>3, <1>4 DEF d, o

LEMMA WidthFacts ==
    ASSUME NEW b \in Byte
    PROVE  /\ Width(b) \in {0, 1, 2, 3, 4}
           /\ Width(b) = 1 <=> 32 <= b /\ b < 128
           /\ Width(b) = 2 <=> 194 <= b /\ b < 224
           /\ Width(b) = 3 <=> 224 <= b /\ b < 240
           /\ Width(b) = 4 <=> 240 <= b /\ b < 245
  BY ByteRange, SMT DEF Width

LEMMA SecondFacts ==
    ASSUME NEW b \in Byte, NEW c \in Byte
    PROVE  c \in Second(b) <=> /\ 128 <= c /\ c < 192
                               /\ b = 224 => c >= 160
                               /\ b = 237 => c < 160
                               /\ b = 240 => c >= 144
                               /\ b = 244 => c < 144
  BY ByteRange, SMT DEF Second

LEMMA HexTyped ==
    ASSUME NEW b \in Nat
    PROVE  Hex(b) \in Nat /\ (Hex(b) < 16 => b # 0)
  BY SMT DEF Hex

LEMMA Digits ==
    ASSUME NEW a \in Nat, NEW b \in Nat, NEW c \in Nat, NEW d \in Nat, a < 16, b < 16, c < 16, d < 16
    PROVE  4096 * a + 256 * b + 16 * c + d \in Nat /\ 4096 * a + 256 * b + 16 * c + d < 65536
  BY SMT

LEMMA CodeUnitFacts ==
    ASSUME NEW t \in Seq(Byte), NEW i \in Nat, Unicode(t, i)
    PROVE  CodeUnit(t, i) \in Nat /\ CodeUnit(t, i) < 65536 /\ In(t, i + 5) # 0
<1>1. ASSUME NEW k \in 2 .. 5 PROVE Hex(In(t, i + k)) \in Nat /\ Hex(In(t, i + k)) < 16 /\ In(t, i + k) # 0
  <2>1. In(t, i + k) \in Nat /\ In(t, i + k) < 256
    BY InTyped, i + k \in Int
  <2>2. Hex(In(t, i + k)) < 16
    BY DEF Unicode
  <2>. QED
    BY <2>1, <2>2, HexTyped
<1>2. /\ Hex(In(t, i + 2)) \in Nat /\ Hex(In(t, i + 2)) < 16 /\ Hex(In(t, i + 3)) \in Nat
      /\ Hex(In(t, i + 3)) < 16 /\ Hex(In(t, i + 4)) \in Nat /\ Hex(In(t, i + 4)) < 16
      /\ Hex(In(t, i + 5)) \in Nat /\ Hex(In(t, i + 5)) < 16 /\ In(t, i + 5) # 0
  BY <1>1
<1> DEFINE h2 == Hex(In(t, i + 2))
           h3 == Hex(In(t, i + 3))
           h4 == Hex(In(t, i + 4))
           h5 == Hex(In(t, i + 5))
<1>3. CodeUnit(t, i) = 4096 * h2 + 256 * h3 + 16 * h4 + h5
  BY DEF CodeUnit
<1>. HIDE DEF h2, h3, h4, h5
<1>4. 4096 * h2 + 256 * h3 + 16 * h4 + h5 \in Nat /\ 4096 * h2 + 256 * h3 + 16 * h4 + h5 < 65536
  <2>1. /\ h2 \in Nat /\ h3 \in Nat /\ h4 \in Nat /\ h5 \in Nat /\ h2 < 16 /\ h3 < 16 /\ h4 < 16 /\ h5 < 16
    BY <1>2 DEF h2, h3, h4, h5
  <2>. QED
    BY ONLY <2>1, Digits
<1>. QED
  BY <1>2, <1>3, <1>4

LEMMA PairedFacts ==
    ASSUME NEW hi \in Nat, NEW lo \in Nat, 55296 <= hi, hi < 56320, 56320 <= lo, lo <= 57343
    PROVE  Paired(hi, lo) \in Nat /\ Paired(hi, lo) < 1114112
  BY SMT DEF Paired

LEMMA CharacterFacts ==
    ASSUME NEW t \in Seq(Byte), NEW i \in Nat
    PROVE  /\ Character(t, i).n \in Nat /\ Character(t, i).bytes \in Seq(Byte)
           /\ Character(t, i).n # 0 => In(t, i) # 0
<1> DEFINE b  == In(t, i)
           hi == CodeUnit(t, i)
           lo == CodeUnit(t, i + 6)
           w  == Width(b)
           s  == [k \in 1 .. w |-> In(t, i + k - 1)]
           good == w > 1 /\ In(t, i + 1) \in Second(b) /\ \A k \in 2 .. w - 1 : Follows(In(t, i + k))
           c  == Character(t, i)
<1>1. c = IF b = Escape /\ In(t, i + 1) \in DOMAIN Single
          THEN [n |-> 2, bytes |-> <<Single[In(t, i + 1)]>>]
          ELSE IF Unicode(t, i) /\ (hi < 55296 \/ hi > 57343)
          THEN [n |-> 6, bytes |-> Utf8(hi)]
          ELSE IF Unicode(t, i) /\ hi < 56320 /\ Unicode(t, i + 6) /\ 56320 <= lo /\ lo <= 57343
          THEN [n |-> 12, bytes |-> Utf8(Paired(hi, lo))]
          ELSE IF w = 1 /\ b # Escape
          THEN [n |-> 1, bytes |-> <<b>>]
          ELSE IF good
          THEN [n |-> w, bytes |-> s]
          ELSE [n |-> 0, bytes |-> <<>>]
  BY DEF Character
<1>2. b \in Byte /\ b \in Nat
  BY InTyped
<1>3. w \in Nat /\ (w > 0 => b # 0)
  BY <1>2, WidthFacts
<1>4. Escape # 0 /\ (Unicode(t, i) => b = Escape)
  BY DEF Escape, Unicode
<1>5. Unicode(t, i) => hi \in Nat /\ hi < 65536
  BY CodeUnitFacts
<1>6. Unicode(t, i + 6) => lo \in Nat
  BY CodeUnitFacts, i + 6 \in Nat
<1>7. s \in Seq(Byte)
  <2>1. \A k \in 1 .. w : In(t, i + k - 1) \in Byte
    <3> SUFFICES ASSUME NEW k \in 1 .. w PROVE In(t, i + k - 1) \in Byte
      OBVIOUS
    <3>. QED
      BY InTyped, i + k - 1 \in Int
  <2>. QED
    BY <1>3, <2>1
<1>. HIDE DEF b, hi, lo, w, s, c, good
<1>8. CASE b = Escape /\ In(t, i + 1) \in DOMAIN Single
  <2>1. Single[In(t, i + 1)] \in Byte
    BY <1>8, SingleFacts
  <2>2. c = [n |-> 2, bytes |-> <<Single[In(t, i + 1)]>>]
    BY <1>1, <1>8
  <2>3. c.n = 2 /\ c.bytes = <<Single[In(t, i + 1)]>>
    BY <2>2
  <2>. QED
    BY <1>4, <1>8, <2>1, <2>3 DEF b, c
<1>9. CASE c = [n |-> 6, bytes |-> Utf8(hi)] /\ Unicode(t, i)
  <2>1. hi < 1114112
    BY <1>5, <1>9
  <2>2. Utf8(hi) \in Seq(Byte)
    BY <1>5, <1>9, <2>1, Utf8Facts
  <2>3. c.n = 6 /\ c.bytes = Utf8(hi)
    BY <1>9
  <2>. QED
    BY <1>4, <1>9, <2>2, <2>3 DEF b, c
<1>10. CASE /\ c = [n |-> 12, bytes |-> Utf8(Paired(hi, lo))]
            /\ Unicode(t, i) /\ ~(hi < 55296 \/ hi > 57343)
            /\ hi < 56320 /\ Unicode(t, i + 6) /\ 56320 <= lo /\ lo <= 57343
  <2>1. hi \in Nat /\ lo \in Nat /\ 55296 <= hi
    BY <1>5, <1>6, <1>10
  <2>2. Utf8(Paired(hi, lo)) \in Seq(Byte)
    <3> DEFINE p == Paired(hi, lo)
    <3>1. p \in Nat /\ p < 1114112
      BY <1>10, <2>1, PairedFacts
    <3>. HIDE DEF p
    <3>2. Utf8(p) \in Seq(Byte)
      BY ONLY <3>1, Utf8Facts
    <3>. QED
      BY <3>2 DEF p
  <2>3. c.n = 12 /\ c.bytes = Utf8(Paired(hi, lo))
    BY <1>10
  <2>. QED
    BY <1>4, <1>10, <2>2, <2>3 DEF b, c
<1>11. CASE c = [n |-> 1, bytes |-> <<b>>] /\ w = 1
  <2>1. c.n = 1 /\ c.bytes = <<b>> /\ <<b>> \in Seq(Byte)
    BY <1>2, <1>11
  <2>. QED
    BY <1>3, <1>11, <2>1 DEF b, c
<1>12. CASE c = [n |-> w, bytes |-> s]
  <2>1. c.n = w /\ c.bytes = s
    BY <1>12
  <2>. QED
    BY <1>3, <1>7, <2>1 DEF b, c
<1>13. CASE c = [n |-> 0, bytes |-> <<>>]
  <2>1. c.n = 0 /\ c.bytes = <<>>
    BY <1>13
  <2>. QED
    BY <2>1 DEF c
<1>. QED
  BY <1>1, <1>8, <1>9, <1>10, <1>11, <1>12, <1>13

\* What a text says from i on, by what it says from later places on.
Saying(t, f, i) ==
    IF In(t, i) = Quote THEN [ok |-> TRUE, next |-> i + 1, bytes |-> <<>>]
    ELSE IF Character(t, i).n = 0 THEN Bad
    ELSE Prefixed(Character(t, i).bytes, f[i + Character(t, i).n])

LEMMA SayingTyped ==
    ASSUME NEW t \in Seq(Byte), NEW f \in [Nat -> Said], NEW i \in Nat
    PROVE  Saying(t, f, i) \in Said
<1>1. Character(t, i).n \in Nat /\ Character(t, i).bytes \in Seq(Byte)
  BY CharacterFacts
<1>2. i + Character(t, i).n \in Nat
  BY <1>1
<1>3. Prefixed(Character(t, i).bytes, f[i + Character(t, i).n]) \in Said
  BY <1>1, <1>2, PrefixedFacts
<1>4. Bad \in Said
  BY DEF Bad, Said
<1>5. [ok |-> TRUE, next |-> i + 1, bytes |-> <<>>] \in Said
  BY DEF Said
<1>. QED
  BY <1>3, <1>4, <1>5 DEF Saying

LEMMA SayingLater ==
    ASSUME NEW t \in Seq(Byte), NEW f, NEW g, NEW i \in Nat,
           \A j \in Nat : j > i => f[j] = g[j]
    PROVE  Saying(t, f, i) = Saying(t, g, i)
<1>1. Character(t, i).n \in Nat
  BY CharacterFacts
<1>2. Character(t, i).n # 0 => i + Character(t, i).n \in Nat /\ i + Character(t, i).n > i
  BY <1>1
<1>. QED
  BY <1>2 DEF Saying

\* The recursion of Says has a solution: behind the text nothing is said, and each
\* place only looks behind itself.
LEMMA SaysExists ==
    ASSUME NEW t \in Seq(Byte)
    PROVE  \E f \in [Nat -> Said] : \A i \in Nat : f[i] = Saying(t, f, i)
<1> DEFINE Solves(k, f) == \A i \in Nat : i + k > Len(t) => f[i] = Saying(t, f, i)
           T == {k \in Nat : ~ \E f \in [Nat -> Said] : Solves(k, f)}
<1>0. Len(t) \in Nat
  OBVIOUS
<1>1. T = {}
  <2>1. SUFFICES ASSUME T # {} PROVE FALSE
    OBVIOUS
  <2>2. T \subseteq Nat
    OBVIOUS
  <2>. HIDE DEF T
  <2>3. PICK k \in T : \A e \in T : ~ (<<e, k>> \in OpToRel(<, Nat))
    BY <2>1, <2>2, NatLessThanWellFounded, WFMin
  <2>4. k \in Nat /\ \A e \in Nat : e < k => e \notin T
    BY <2>2, <2>3 DEF OpToRel
  <2>5. k # 0
    <3>1. SUFFICES \E f \in [Nat -> Said] : Solves(0, f)
      BY <2>3 DEF T
    <3> DEFINE f == [i \in Nat |-> Bad]
    <3>2. f \in [Nat -> Said]
      BY DEF Bad, Said
    <3>3. ASSUME NEW i \in Nat, i + 0 > Len(t) PROVE f[i] = Saying(t, f, i)
      <4>1. In(t, i) = 0
        BY <3>3, <1>0, InTyped
      <4>2. Character(t, i).n = 0
        BY <4>1, CharacterFacts
      <4>. QED
        BY <4>1, <4>2 DEF Saying, Quote
    <3>. QED
      BY <3>2, <3>3
  <2>6. k - 1 \in Nat /\ k - 1 < k
    BY <2>4, <2>5
  <2>7. PICK f \in [Nat -> Said] : Solves(k - 1, f)
    BY <2>4, <2>6 DEF T
  <2> DEFINE x == Len(t) + 1 - k
  <2>8. CASE x \notin Nat
    <3>1. Solves(k, f)
      BY <1>0, <2>4, <2>6, <2>7, <2>8
    <3>. QED
      BY <2>3, <3>1 DEF T
  <2>9. CASE x \in Nat
    <3> DEFINE g == [f EXCEPT ![x] = Saying(t, f, x)]
    <3>1. Saying(t, f, x) \in Said
      BY <2>9, SayingTyped
    <3>2. g \in [Nat -> Said] /\ g[x] = Saying(t, f, x) /\ \A i \in Nat : i # x => g[i] = f[i]
      BY <2>9, <3>1
    <3>. HIDE DEF g
    <3>3. ASSUME NEW i \in Nat, i + k > Len(t) PROVE g[i] = Saying(t, g, i)
      <4>1. i >= x
        BY <1>0, <2>4, <3>3
      <4>2. \A j \in Nat : j > i => g[j] = f[j]
        BY <2>9, <3>2, <4>1
      <4>3. Saying(t, g, i) = Saying(t, f, i)
        BY <4>2, SayingLater
      <4>4. CASE i = x
        BY <3>2, <4>3, <4>4
      <4>5. CASE i # x
        <5>1. i + (k - 1) > Len(t)
          BY <1>0, <2>4, <4>1, <4>5
        <5>. QED
          BY <2>7, <3>2, <4>3, <4>5, <5>1
      <4>. QED
        BY <4>4, <4>5
    <3>. QED
      BY <2>3, <3>2, <3>3 DEF T
  <2>. QED
    BY <2>8, <2>9
<1>2. Len(t) + 1 \in Nat /\ Len(t) + 1 \notin T
  <2>. HIDE DEF T
  <2>. QED
    BY <1>0, <1>1
<1>3. PICK f \in [Nat -> Said] : Solves(Len(t) + 1, f)
  BY <1>2
<1>4. \A i \in Nat : i + (Len(t) + 1) > Len(t)
  BY <1>0
<1>. QED
  BY <1>3, <1>4

\* Two solutions are the same: the last place where they differ looks behind itself.
LEMMA SaysTyped ==
    ASSUME NEW t \in Seq(Byte), NEW f \in [Nat -> Said], \A i \in Nat : f[i] = Saying(t, f, i),
           NEW g, \A i \in Nat : g[i] = Saying(t, g, i)
    PROVE  \A i \in Nat : g[i] = f[i]
<1> DEFINE Same(k) == \A i \in Nat : i + k > Len(t) => g[i] = f[i]
           T == {k \in Nat : ~ Same(k)}
<1>0. Len(t) \in Nat
  OBVIOUS
<1>1. T = {}
  <2>1. SUFFICES ASSUME T # {} PROVE FALSE
    OBVIOUS
  <2>2. T \subseteq Nat
    OBVIOUS
  <2>. HIDE DEF T
  <2>3. PICK k \in T : \A e \in T : ~ (<<e, k>> \in OpToRel(<, Nat))
    BY <2>1, <2>2, NatLessThanWellFounded, WFMin
  <2>4. k \in Nat /\ \A e \in Nat : e < k => e \notin T
    BY <2>2, <2>3 DEF OpToRel
  <2>5. \A e \in Nat : e < k => Same(e)
    BY <2>4 DEF T
  <2>6. ASSUME NEW i \in Nat, i + k > Len(t) PROVE g[i] = f[i]
    <3>1. \A j \in Nat : j > i => g[j] = f[j]
      <4>1. CASE k = 0
        <5>1. ASSUME NEW j \in Nat, j > Len(t) PROVE g[j] = f[j]
          <6>1. In(t, j) = 0
            BY <5>1, <1>0, InTyped
          <6>2. Character(t, j).n = 0
            BY <6>1, CharacterFacts
          <6>3. Saying(t, g, j) = Saying(t, f, j)
            BY <6>1, <6>2 DEF Saying, Quote
          <6>. QED
            BY <6>3
        <5>. QED
          BY <1>0, <2>6, <4>1, <5>1
      <4>2. CASE k # 0
        <5>1. k - 1 \in Nat /\ k - 1 < k
          BY <2>4, <4>2
        <5>2. Same(k - 1)
          BY <2>5, <5>1
        <5>. QED
          BY <1>0, <2>4, <2>6, <5>2
      <4>. QED
        BY <4>1, <4>2
    <3>2. Saying(t, g, i) = Saying(t, f, i)
      BY <3>1, SayingLater
    <3>. QED
      BY <3>2
  <2>. QED
    BY <2>3, <2>6 DEF T
<1>2. Len(t) + 1 \in Nat /\ Len(t) + 1 \notin T
  <2>. HIDE DEF T
  <2>. QED
    BY <1>0, <1>1
<1>3. Same(Len(t) + 1)
  BY <1>2
<1>4. \A i \in Nat : i + (Len(t) + 1) > Len(t)
  BY <1>0
<1>. QED
  BY <1>3, <1>4

LEMMA SaysFacts ==
    ASSUME NEW t \in Seq(Byte), NEW i \in Nat
    PROVE  Says(t)[i] \in Said /\ Says(t)[i] = Saying(t, Says(t), i)
<1>1. PICK f \in [Nat -> Said] : \A j \in Nat : f[j] = Saying(t, f, j)
  BY SaysExists
<1>2. f = [j \in Nat |-> Saying(t, f, j)]
  BY <1>1
<1>3. Says(t) = CHOOSE g : g = [j \in Nat |-> Saying(t, g, j)]
  BY Zenon DEF Says, Saying
<1> DEFINE g == Says(t)
<1>4. g = [j \in Nat |-> Saying(t, g, j)]
  BY <1>2, <1>3
<1>. HIDE DEF g
<1>5. \A j \in Nat : g[j] = Saying(t, g, j)
  BY ONLY <1>4
<1>6. \A j \in Nat : g[j] = f[j]
  BY <1>1, <1>5, SaysTyped
<1>. QED
  BY <1>5, <1>6 DEF g

\* The n bytes of t from i on stand for b; for themselves.
Stands(t, i, n, b) == Says(t)[i] = Prefixed(b, Says(t)[i + n])
Plain(t, i, n) == Stands(t, i, n, Slice(t, i, n))

LEMMA OneCharacter ==
    ASSUME NEW t \in Seq(Byte), NEW i \in Nat, In(t, i) # Quote
    PROVE  IF Character(t, i).n = 0 THEN Says(t)[i] = Bad
           ELSE Stands(t, i, Character(t, i).n, Character(t, i).bytes)
<1>1. Says(t)[i] = Saying(t, Says(t), i)
  BY SaysFacts
<1>. QED
  BY <1>1 DEF Saying, Stands

LEMMA NoneStand ==
    ASSUME NEW t \in Seq(Byte), NEW i \in Nat, i >= 1
    PROVE  Plain(t, i, 0)
<1> DEFINE r == Says(t)[i]
<1>1. r \in Said
  BY SaysFacts
<1>2. Slice(t, i, 0) = <<>>
  BY DEF Slice
<1>3. i + 0 = i
  OBVIOUS
<1>. HIDE DEF r
<1>4. <<>> \o r.bytes = r.bytes
  <2>1. r.bytes \in Seq(Byte)
    BY <1>1 DEF Said
  <2>. QED
    BY ONLY <2>1, ConcatEmptySeq
<1>5. r = [ok |-> r.ok, next |-> r.next, bytes |-> r.bytes]
  BY <1>1 DEF Said
<1>6. Prefixed(<<>>, r) = r
  BY <1>4, <1>5 DEF Prefixed
<1>. QED
  BY <1>2, <1>3, <1>6 DEF Plain, Stands, r

LEMMA StandTogether ==
    ASSUME NEW t \in Seq(Byte), NEW i \in Nat, NEW n \in Nat, NEW m \in Nat,
           NEW a \in Seq(Byte), NEW b \in Seq(Byte), Stands(t, i, n, a), Stands(t, i + n, m, b)
    PROVE  Stands(t, i, n + m, a \o b)
<1> DEFINE r == Says(t)[i + n + m]
<1>1. r \in Said
  BY SaysFacts, i + n + m \in Nat
<1>2. i + n + m = i + (n + m)
  OBVIOUS
<1>3. Says(t)[i] = Prefixed(a, Prefixed(b, r))
  BY DEF Stands
<1>. HIDE DEF r
<1>4. Prefixed(a, Prefixed(b, r)) = Prefixed(a \o b, r)
  BY <1>1, PrefixedTwice
<1>. QED
  BY <1>2, <1>3, <1>4 DEF Stands, r

LEMMA PlainTogether ==
    ASSUME NEW t \in Seq(Byte), NEW i \in Nat, NEW n \in Nat, NEW m \in Nat, i >= 1,
           Plain(t, i, n), Plain(t, i + n, m)
    PROVE  Plain(t, i, n + m)
<1>1. Slice(t, i, n) \in Seq(Byte) /\ Slice(t, i + n, m) \in Seq(Byte)
  BY SliceFacts, i + n \in Nat, i + n >= 1
<1>2. Slice(t, i, n) \o Slice(t, i + n, m) = Slice(t, i, n + m)
  BY SliceJoins
<1>3. Stands(t, i, n + m, Slice(t, i, n) \o Slice(t, i + n, m))
  BY <1>1, StandTogether DEF Plain
<1>. QED
  BY <1>2, <1>3 DEF Plain

\* One after the other, k times.
LEMMA PlainRun ==
    ASSUME NEW t \in Seq(Byte), NEW i \in Nat, i >= 1, NEW n \in {1, 2, 3, 4}, NEW k \in Nat,
           \A j \in Nat : j < k => Plain(t, i + n * j, n)
    PROVE  Plain(t, i, n * k)
<1> DEFINE T == {e \in Nat : e <= k /\ ~Plain(t, i, n * e)}
<1>1. SUFFICES ASSUME T # {} PROVE FALSE
  <2>1. SUFFICES ASSUME ~Plain(t, i, n * k) PROVE FALSE
    OBVIOUS
  <2>2. k \in T
    BY <2>1
  <2>. QED
    BY <1>1, <2>2
<1>2. T \subseteq Nat
  OBVIOUS
<1>3. \A e \in T : e \in Nat /\ e <= k /\ ~Plain(t, i, n * e)
  OBVIOUS
<1>4. \A e \in Nat : e <= k /\ e \notin T => Plain(t, i, n * e)
  OBVIOUS
<1>. HIDE DEF T
<1>5. PICK e \in T : \A d \in T : ~ (<<d, e>> \in OpToRel(<, Nat))
  BY <1>1, <1>2, NatLessThanWellFounded, WFMin
<1>6. e \in Nat /\ \A d \in Nat : d < e => d \notin T
  BY <1>2, <1>5 DEF OpToRel
<1>7. e # 0
  <2>1. n * 0 = 0
    BY SMT
  <2>. QED
    BY <1>3, <1>5, <2>1, NoneStand
<1> DEFINE d == e - 1
<1>8. d \in Nat /\ d < e /\ d < k /\ d <= k
  <2>1. e <= k
    BY <1>3, <1>5
  <2>. QED
    BY ONLY <1>6, <1>7, <2>1, k \in Nat
<1>9. n * d \in Nat /\ n * d + n = n * e /\ n \in Nat
  BY <1>6, <1>7, SMT
<1>10. Plain(t, i, n * d)
  BY <1>4, <1>6, <1>8
<1>11. Plain(t, i + n * d, n)
  BY <1>8
<1>12. Plain(t, i, n * d + n)
  <2> DEFINE x == n * d
  <2>1. x \in Nat /\ Plain(t, i, x) /\ Plain(t, i + x, n)
    BY <1>9, <1>10, <1>11
  <2>. HIDE DEF x
  <2>2. Plain(t, i, x + n)
    BY <1>9, <2>1, PlainTogether
  <2>. QED
    BY <2>2 DEF x
<1>. QED
  BY <1>3, <1>5, <1>9, <1>12

LEMMA PlainByte ==
    ASSUME NEW t \in Seq(Byte), NEW i \in Nat, i >= 1, ~Stop(In(t, i))
    PROVE  Plain(t, i, 1)
<1> DEFINE b == In(t, i)
<1>1. b \in Byte /\ b >= 32 /\ b < 128 /\ b # Quote /\ b # Escape
  BY InTyped, PlainFacts
<1>2. Width(b) = 1
  BY <1>1, WidthFacts
<1>3. ~Unicode(t, i)
  BY <1>1 DEF Unicode
<1>4. Character(t, i) = [n |-> 1, bytes |-> <<b>>]
  BY <1>1, <1>2, <1>3 DEF Character
<1>5. Character(t, i).n = 1 /\ Character(t, i).bytes = <<b>>
  BY <1>4
<1>6. Slice(t, i, 1) = <<b>>
  <2>1. /\ Slice(t, i, 1) \in Seq(Byte) /\ Len(Slice(t, i, 1)) = 1
        /\ \A k \in 1 .. 1 : Slice(t, i, 1)[k] = In(t, i + k - 1)
    BY SliceFacts
  <2>2. i + 1 - 1 = i
    OBVIOUS
  <2>3. Slice(t, i, 1)[1] = b
    BY <2>1, <2>2
  <2> DEFINE s == Slice(t, i, 1)
  <2>. HIDE DEF s, b
  <2>4. s \in Seq(Byte) /\ Len(s) = 1 /\ s[1] = b
    BY <2>1, <2>3 DEF s, b
  <2>5. <<b>> \in Seq(Byte) /\ Len(<<b>>) = 1 /\ <<b>>[1] = b
    BY <1>1
  <2>6. s = <<b>>
    BY ONLY <2>4, <2>5, SeqEqual
  <2>. QED
    BY <2>6 DEF s, b
<1>. QED
  BY <1>1, <1>5, <1>6, OneCharacter DEF Plain

\* The tests of the code are the table of the standard.
LEMMA TwoBytes ==
    ASSUME NEW b \in Byte, NEW c \in Byte
    PROVE  b \div 32 = 6 /\ Follows(c) /\ (b \div 2) % 16 # 0 <=> Width(b) = 2 /\ c \in Second(b)
<1>1. b \in Nat /\ c \in Nat /\ b < 256 /\ c < 256
  BY ByteRange
<1>2. b \div 32 = 6 /\ (b \div 2) % 16 # 0 <=> 194 <= b /\ b < 224
  BY <1>1, SMT
<1>. QED
  BY <1>1, <1>2, WidthFacts, SecondFacts, FollowsFacts

LEMMA ThreeBytes ==
    ASSUME NEW b \in Byte, NEW c \in Byte
    PROVE  b \div 16 = 14 /\ Follows(c) /\ <<b % 16, (c \div 32) % 2>> \notin {<<0, 0>>, <<13, 1>>}
           <=> Width(b) = 3 /\ c \in Second(b)
<1>1. b \in Nat /\ c \in Nat /\ b < 256 /\ c < 256
  BY ByteRange
<1>2. b \div 16 = 14 <=> 224 <= b /\ b < 240
  BY <1>1, SMT
<1>3. 224 <= b /\ b < 240 => (b % 16 = 0 <=> b = 224) /\ (b % 16 = 13 <=> b = 237)
  BY <1>1, SMT
<1>4. 128 <= c /\ c < 192 => ((c \div 32) % 2 = 0 <=> c < 160) /\ ((c \div 32) % 2 = 1 <=> c >= 160)
  BY <1>1, SMT
<1> DEFINE x == b % 16
           y == (c \div 32) % 2
<1>5. <<x, y>> \notin {<<0, 0>>, <<13, 1>>} <=> ~(x = 0 /\ y = 0) /\ ~(x = 13 /\ y = 1)
  <2>. HIDE DEF x, y
  <2>. QED
    OBVIOUS
<1>6. b \div 16 = 14 /\ Follows(c) => (<<x, y>> \notin {<<0, 0>>, <<13, 1>>} <=> c \in Second(b))
  BY <1>1, <1>2, <1>3, <1>4, <1>5, SecondFacts, FollowsFacts
<1>7. c \in Second(b) => Follows(c)
  BY SecondFacts, FollowsFacts
<1>. QED
  BY <1>2, <1>6, <1>7, WidthFacts

LEMMA FourBytes ==
    ASSUME NEW b \in Byte, NEW c \in Byte
    PROVE  /\ b \div 8 = 30 /\ Follows(c)
           /\ <<b % 8, (c \div 16) % 4>> # <<0, 0>>
           /\ b % 8 < 4 \/ ((b % 8) % 4 = 0 /\ (c \div 16) % 4 = 0)
           <=> Width(b) = 4 /\ c \in Second(b)
<1>1. b \in Nat /\ c \in Nat /\ b < 256 /\ c < 256
  BY ByteRange
<1>2. b \div 8 = 30 <=> 240 <= b /\ b < 248
  BY <1>1, SMT
<1>3. 240 <= b /\ b < 248 => b % 8 = b - 240
  BY <1>1, SMT
<1>4. 128 <= c /\ c < 192 => ((c \div 16) % 4 = 0 <=> c < 144)
  BY <1>1, SMT
<1> DEFINE x == b % 8
           y == (c \div 16) % 4
<1>5. <<x, y>> # <<0, 0>> <=> ~(x = 0 /\ y = 0)
  <2>. HIDE DEF x, y
  <2>. QED
    OBVIOUS
<1>6. x \in 0 .. 7 => (x < 4 \/ (x % 4 = 0 /\ y = 0) <=> x < 4 \/ (x = 4 /\ y = 0))
  <2>. HIDE DEF x, y
  <2>. QED
    BY SMT
<1>7. b \div 8 = 30 /\ Follows(c) =>
          (<<x, y>> # <<0, 0>> /\ (x < 4 \/ (x % 4 = 0 /\ y = 0)) <=> b < 245 /\ c \in Second(b))
  BY <1>1, <1>2, <1>3, <1>4, <1>5, <1>6, SecondFacts, FollowsFacts
<1>8. c \in Second(b) => Follows(c)
  BY SecondFacts, FollowsFacts
<1>9. Width(b) = 4 <=> b \div 8 = 30 /\ b < 245
  BY <1>1, <1>2, WidthFacts
<1>. QED
  BY <1>7, <1>8, <1>9

LEMMA ValidMeans ==
    ASSUME Types, NEW i \in Nat, NEW n \in {2, 3, 4}
    PROVE  Valid(n, i) <=> /\ Width(At(i)) = n /\ At(i + 1) \in Second(At(i))
                           /\ \A k \in 2 .. n - 1 : Follows(At(i + k))
<1> DEFINE b == At(i)
           c == At(i + 1)
<1>1. b \in Byte /\ c \in Byte
  BY AtFacts, i + 1 \in Nat
<1>2. Valid2(i) <=> b \div 32 = 6 /\ Follows(c) /\ (b \div 2) % 16 # 0
  BY DEF Valid2
<1>3. Valid3(i) <=> /\ b \div 16 = 14 /\ Follows(c) /\ <<b % 16, (c \div 32) % 2>> \notin {<<0, 0>>, <<13, 1>>}
                    /\ Follows(At(i + 2))
  BY DEF Valid3
<1>4. Valid4(i) <=> /\ /\ b \div 8 = 30 /\ Follows(c)
                       /\ <<b % 8, (c \div 16) % 4>> # <<0, 0>>
                       /\ b % 8 < 4 \/ ((b % 8) % 4 = 0 /\ (c \div 16) % 4 = 0)
                    /\ Follows(At(i + 2)) /\ Follows(At(i + 3))
  <2>1. (\A k \in 1 .. 3 : Follows(At(i + k))) <=> Follows(c) /\ Follows(At(i + 2)) /\ Follows(At(i + 3))
    <3>1. 1 .. 3 = {1, 2, 3}
      OBVIOUS
    <3>. QED
      BY <3>1, Zenon
  <2>. QED
    BY <2>1, Zenon DEF Valid4
<1>. HIDE DEF b, c
<1>5. Valid2(i) <=> Width(b) = 2 /\ c \in Second(b)
  BY ONLY <1>1, <1>2, TwoBytes
<1>6. Valid3(i) <=> Width(b) = 3 /\ c \in Second(b) /\ Follows(At(i + 2))
  BY ONLY <1>1, <1>3, ThreeBytes
<1>7. Valid4(i) <=> Width(b) = 4 /\ c \in Second(b) /\ Follows(At(i + 2)) /\ Follows(At(i + 3))
  BY ONLY <1>1, <1>4, FourBytes
<1>8. CASE n = 2
  <2>1. Valid(n, i) <=> Valid2(i)
    BY <1>8 DEF Valid
  <2>2. 2 .. n - 1 = {}
    BY <1>8
  <2>. QED
    BY <1>5, <1>8, <2>1, <2>2 DEF b, c
<1>9. CASE n = 3
  <2>1. Valid(n, i) <=> Valid3(i)
    BY <1>9 DEF Valid
  <2>2. 2 .. n - 1 = {2}
    BY <1>9
  <2>. QED
    BY <1>6, <1>9, <2>1, <2>2, Zenon DEF b, c
<1>10. CASE n = 4
  <2>1. Valid(n, i) <=> Valid4(i)
    BY <1>10 DEF Valid
  <2>2. 2 .. n - 1 = {2, 3}
    BY <1>10
  <2>. QED
    BY <1>7, <1>10, <2>1, <2>2, Zenon DEF b, c
<1>. QED
  BY <1>8, <1>9, <1>10

\* The memory as the text, from i on.
AsText(i) == \A k \in Nat : At(i + k) = In(text, i + k)

LEMMA SequenceCharacter ==
    ASSUME Types, NEW i \in Nat, i >= 1, AsText(i), At(i) >= 128
    PROVE  /\ \A n \in {2, 3, 4} : Valid(n, i) => Plain(text, i, n)
           /\ (\A n \in {2, 3, 4} : ~Valid(n, i)) => Says(text)[i] = Bad
<1> DEFINE b == In(text, i)
           w == Width(b)
           good == w > 1 /\ In(text, i + 1) \in Second(b) /\ \A k \in 2 .. w - 1 : Follows(In(text, i + k))
<1>1. text \in Seq(Byte) /\ At(i + 0) = At(i) /\ At(i) \in Nat
  BY AtFacts, i + 0 = i DEF Types
<1>2. b = At(i) /\ b \in Byte /\ b \in Nat /\ \A k \in 1 .. 3 : In(text, i + k) = At(i + k)
  <2>1. At(i + 0) = In(text, i + 0) /\ i + 0 = i
    BY DEF AsText
  <2>2. b \in Byte /\ b \in Nat
    BY <1>1, InTyped
  <2>3. \A k \in 1 .. 3 : In(text, i + k) = At(i + k)
    BY DEF AsText
  <2>. QED
    BY <2>1, <2>2, <2>3
<1>3. b >= 128 /\ w \in {0, 1, 2, 3, 4} /\ w # 1
  BY <1>2, WidthFacts
<1>4. b # Quote /\ b # Escape
  BY <1>3 DEF Quote, Escape
<1>5. Character(text, i) = IF good THEN [n |-> w, bytes |-> [k \in 1 .. w |-> In(text, i + k - 1)]]
                           ELSE [n |-> 0, bytes |-> <<>>]
  <2>1. ~Unicode(text, i)
    BY <1>4 DEF Unicode
  <2>. QED
    BY <1>3, <1>4, <2>1 DEF Character
<1>6. ASSUME NEW n \in {2, 3, 4} PROVE Valid(n, i) <=> w = n /\ good
  <2>1. Valid(n, i) <=> /\ Width(b) = n /\ At(i + 1) \in Second(b)
                        /\ \A k \in 2 .. n - 1 : Follows(At(i + k))
    BY <1>2, ValidMeans
  <2>2. At(i + 1) = In(text, i + 1)
    BY <1>2
  <2>3. \A k \in 2 .. n - 1 : At(i + k) = In(text, i + k)
    BY <1>2
  <2>4. n > 1
    OBVIOUS
  <2>. QED
    BY <2>1, <2>2, <2>3, <2>4
<1>7. ASSUME NEW n \in {2, 3, 4}, Valid(n, i) PROVE Plain(text, i, n)
  <2>1. w = n /\ good
    BY <1>6, <1>7
  <2>2. Character(text, i) = [n |-> n, bytes |-> Slice(text, i, n)]
    BY <1>5, <2>1 DEF Slice
  <2>3. Character(text, i).n = n /\ Character(text, i).bytes = Slice(text, i, n) /\ n # 0
    BY <2>2
  <2>4. Stands(text, i, Character(text, i).n, Character(text, i).bytes)
    BY <1>1, <1>4, <2>3, OneCharacter
  <2>. QED
    BY <2>3, <2>4 DEF Plain
<1>8. ASSUME \A n \in {2, 3, 4} : ~Valid(n, i) PROVE Says(text)[i] = Bad
  <2>1. ~good
    <3>1. good => w \in {2, 3, 4}
      BY <1>3
    <3>. QED
      BY <1>6, <1>8, <3>1
  <2>2. Character(text, i).n = 0
    BY <1>5, <2>1
  <2>. QED
    BY <1>1, <1>4, <2>2, OneCharacter
<1>. QED
  BY <1>7, <1>8

\* What is refused where an escape may begin.
LEMMA NoEscape ==
    ASSUME NEW t \in Seq(Byte), NEW i \in Nat, Stop(In(t, i)), In(t, i) < 128, In(t, i) \notin {Quote, Escape}
    PROVE  Says(t)[i] = Bad
<1> DEFINE b == In(t, i)
<1>1. b \in Byte /\ b \in Nat
  BY InTyped
<1>2. b < 32 /\ b # Quote /\ b # Escape
  BY <1>1 DEF Stop
<1>3. Width(b) = 0
  BY <1>1, <1>2, WidthFacts
<1>4. ~Unicode(t, i)
  BY <1>2 DEF Unicode
<1>. HIDE DEF b
<1>5. Character(t, i) = [n |-> 0, bytes |-> <<>>]
  BY <1>2, <1>3, <1>4 DEF Character, b
<1>6. Character(t, i).n = 0
  BY <1>5
<1>. QED
  BY <1>2, <1>6, OneCharacter DEF b

LEMMA Surrogates ==
    ASSUME NEW u \in Nat
    PROVE  /\ IsHigh(u) <=> 55296 <= u /\ u < 56320
           /\ IsLow(u) <=> 56320 <= u /\ u <= 57343
  BY SMT DEF IsHigh, IsLow

LEMMA EscapeCharacter ==
    ASSUME NEW t \in Seq(Byte), NEW i \in Nat, In(t, i) = Escape,
           NEW c, c = In(t, i + 1), NEW hi, hi = CodeUnit(t, i), NEW lo, lo = CodeUnit(t, i + 6)
    PROVE  /\ c \in DOMAIN Single => Stands(t, i, 2, <<Single[c]>>)
           /\ c \notin DOMAIN Single /\ ~Unicode(t, i) => Says(t)[i] = Bad
           /\ Unicode(t, i) => /\ ~IsHigh(hi) /\ ~IsLow(hi) => Stands(t, i, 6, Utf8(hi))
                               /\ IsLow(hi) => Says(t)[i] = Bad
                               /\ IsHigh(hi) /\ Unicode(t, i + 6) /\ IsLow(lo) =>
                                      Stands(t, i, 12, Utf8(Paired(hi, lo)))
                               /\ IsHigh(hi) /\ ~(Unicode(t, i + 6) /\ IsLow(lo)) => Says(t)[i] = Bad
<1> DEFINE d == Character(t, i)
           p == Paired(hi, lo)
           single == c \in DOMAIN Single
           four == Unicode(t, i)
           more == Unicode(t, i + 6)
<1>1. IF d.n = 0 THEN Says(t)[i] = Bad ELSE Stands(t, i, d.n, d.bytes)
  BY OneCharacter DEF Quote, Escape
<1>2. Width(Escape) = 1
  BY SMT DEF Width, Escape
<1>3. d = IF single THEN [n |-> 2, bytes |-> <<Single[c]>>]
          ELSE IF four /\ (hi < 55296 \/ hi > 57343) THEN [n |-> 6, bytes |-> Utf8(hi)]
          ELSE IF four /\ hi < 56320 /\ more /\ 56320 <= lo /\ lo <= 57343 THEN [n |-> 12, bytes |-> Utf8(p)]
          ELSE [n |-> 0, bytes |-> <<>>]
  BY <1>2 DEF Character
<1>4. four => ~single
  <2>1. 117 \notin DOMAIN Single
    BY SMT DEF Single, Quote, Escape, Slash
  <2>. QED
    BY <2>1 DEF Unicode
<1>5. four => hi \in Nat /\ (IsHigh(hi) <=> 55296 <= hi /\ hi < 56320) /\ (IsLow(hi) <=> 56320 <= hi /\ hi <= 57343)
  BY CodeUnitFacts, Surrogates
<1>6. more => lo \in Nat /\ (IsLow(lo) <=> 56320 <= lo /\ lo <= 57343)
  BY CodeUnitFacts, Surrogates, i + 6 \in Nat
<1>. HIDE DEF d, p, single, four, more
<1>7. single => d.n = 2 /\ d.bytes = <<Single[c]>>
  BY <1>3
<1>8. ~single /\ ~four => d.n = 0
  BY <1>3
<1>9. four /\ ~IsHigh(hi) /\ ~IsLow(hi) => d.n = 6 /\ d.bytes = Utf8(hi)
  <2> SUFFICES ASSUME four /\ ~IsHigh(hi) /\ ~IsLow(hi) PROVE d.n = 6 /\ d.bytes = Utf8(hi)
    OBVIOUS
  <2>1. ~single /\ (hi < 55296 \/ hi > 57343)
    BY <1>4, <1>5
  <2>2. d = [n |-> 6, bytes |-> Utf8(hi)]
    BY <1>3, <2>1
  <2>. QED
    BY <2>2
<1>10. four /\ IsLow(hi) => d.n = 0
  <2> SUFFICES ASSUME four /\ IsLow(hi) PROVE d.n = 0
    OBVIOUS
  <2>1. ~single /\ ~(hi < 55296 \/ hi > 57343) /\ ~(hi < 56320)
    BY <1>4, <1>5
  <2>. QED
    BY <1>3, <2>1
<1>11. four /\ IsHigh(hi) /\ more /\ IsLow(lo) => d.n = 12 /\ d.bytes = Utf8(p)
  <2> SUFFICES ASSUME four /\ IsHigh(hi) /\ more /\ IsLow(lo) PROVE d.n = 12 /\ d.bytes = Utf8(p)
    OBVIOUS
  <2>1. ~single /\ ~(hi < 55296 \/ hi > 57343) /\ hi < 56320 /\ 56320 <= lo /\ lo <= 57343
    BY <1>4, <1>5, <1>6
  <2>2. d = [n |-> 12, bytes |-> Utf8(p)]
    BY <1>3, <2>1
  <2>. QED
    BY <2>2
<1>12. four /\ IsHigh(hi) /\ ~(more /\ IsLow(lo)) => d.n = 0
  <2> SUFFICES ASSUME four /\ IsHigh(hi) /\ ~(more /\ IsLow(lo)) PROVE d.n = 0
    OBVIOUS
  <2>1. ~single /\ ~(hi < 55296 \/ hi > 57343) /\ ~(more /\ 56320 <= lo /\ lo <= 57343)
    BY <1>4, <1>5, <1>6
  <2>2. d = [n |-> 0, bytes |-> <<>>]
    BY <1>3, <2>1
  <2>. QED
    BY <2>2
<1>. QED
  <2>1. single => Stands(t, i, 2, <<Single[c]>>)
    BY <1>1, <1>7
  <2>2. ~single /\ ~four => Says(t)[i] = Bad
    BY <1>1, <1>8
  <2>3. four /\ ~IsHigh(hi) /\ ~IsLow(hi) => Stands(t, i, 6, Utf8(hi))
    BY <1>1, <1>9
  <2>4. four /\ IsLow(hi) => Says(t)[i] = Bad
    BY <1>1, <1>10
  <2>5. four /\ IsHigh(hi) /\ more /\ IsLow(lo) => Stands(t, i, 12, Utf8(p))
    BY <1>1, <1>11
  <2>6. four /\ IsHigh(hi) /\ ~(more /\ IsLow(lo)) => Says(t)[i] = Bad
    BY <1>1, <1>12
  <2>. QED
    BY <2>1, <2>2, <2>3, <2>4, <2>5, <2>6, Zenon DEF single, four, more, p

\* The tests of read_string on the digits, on the text.
LEMMA DigitsOfText ==
    ASSUME NEW i \in Nat, AsText(i), NEW d \in {0, 6}
    PROVE  /\ IsHex(i + d + 2) <=> \A k \in 2 .. 5 : Hex(In(text, i + d + k)) < 16
           /\ HexU16(i + d + 2) = CodeUnit(text, i + d)
<1>1. ASSUME NEW k \in 0 .. 3
      PROVE  At(i + d + 2 + k) = In(text, i + d + (k + 2)) /\ At(i + d + 2 + k) = At(i + d + (k + 2))
  <2>1. d + (k + 2) \in Nat /\ i + (d + (k + 2)) = i + d + 2 + k /\ i + (d + (k + 2)) = i + d + (k + 2)
    OBVIOUS
  <2>2. At(i + (d + (k + 2))) = In(text, i + (d + (k + 2)))
    BY <2>1 DEF AsText
  <2>. QED
    BY <2>1, <2>2
<1>2. IsHex(i + d + 2) <=> \A k \in 2 .. 5 : Hex(In(text, i + d + k)) < 16
  <2>1. ASSUME IsHex(i + d + 2), NEW k \in 2 .. 5 PROVE Hex(In(text, i + d + k)) < 16
    <3>1. k - 2 \in 0 .. 3 /\ (k - 2) + 2 = k
      OBVIOUS
    <3>2. Hex(At(i + d + 2 + (k - 2))) < 16
      BY <2>1, <3>1 DEF IsHex
    <3>. QED
      BY <1>1, <3>1, <3>2
  <2>2. ASSUME \A k \in 2 .. 5 : Hex(In(text, i + d + k)) < 16, NEW k \in 0 .. 3
        PROVE  Hex(At(i + d + 2 + k)) < 16
    <3>1. k + 2 \in 2 .. 5
      OBVIOUS
    <3>. QED
      BY <1>1, <2>2, <3>1
  <2>. QED
    BY <2>1, <2>2 DEF IsHex
<1>3. /\ At(i + d + 2) = In(text, i + d + 2) /\ At(i + d + 2 + 1) = In(text, i + d + 3)
      /\ At(i + d + 2 + 2) = In(text, i + d + 4) /\ At(i + d + 2 + 3) = In(text, i + d + 5)
  <2>1. i + d + 2 + 0 = i + d + 2 /\ 0 + 2 = 2 /\ 1 + 2 = 3 /\ 2 + 2 = 4 /\ 3 + 2 = 5
    OBVIOUS
  <2>. QED
    BY <1>1, <2>1
<1>4. HexU16(i + d + 2) = CodeUnit(text, i + d)
  BY <1>3, SMT DEF HexU16, CodeUnit
<1>. QED
  BY <1>2, <1>4

-----------------------------------------------------------------------------
(* The string so far is what the text says so far *)

LEMMA Reads ==
    ASSUME IInv, pc \in Reading
    PROVE  /\ AsText(src) /\ (pc \in Skipping => \A i \in Nat : In(mem, i) = In(text, i))
           /\ \A i \in Nat : i >= src => In(mem, i) = In(text, i)
           /\ text \in Seq(Byte) /\ src \in Nat /\ src >= 1 /\ Types
<1>1. src \in Nat /\ src >= 1 /\ text \in Seq(Byte) /\ Unread /\ Types
  BY ReadingFacts DEF IInv
<1>2. \A i \in Nat : i >= src => At(i) = In(text, i)
  BY <1>1 DEF Unread
<1>3. pc \in Skipping => \A i \in Nat : At(i) = In(text, i)
  BY <1>1 DEF Unread
<1>4. AsText(src)
  BY <1>1, <1>2 DEF AsText
<1>. QED
  BY <1>1, <1>2, <1>3, <1>4 DEF At

\* What is skipped stands for itself.
LEMMA SkippedOn ==
    ASSUME IInv, Decoding, pc \in Skipping, pc' \in Skipping, text' = text, mem' = mem,
           NEW n \in Nat, src' = src + n, Plain(text, src, n)
    PROVE  Decoding'
<1>1. pc \in Reading /\ pc' \notin Copying /\ pc' # "read" /\ pc' # "failed"
  BY Sets
<1>2. /\ text \in Seq(Byte) /\ mem \in Seq(Byte) /\ src \in Nat /\ src >= 1
      /\ \A i \in Nat : In(mem, i) = In(text, i)
  BY <1>1, Reads, ReadingFacts
<1>3. Says(text)[1] = Prefixed(Slice(mem, 1, src - 1), Says(text)[src])
  BY DEF Decoding
<1> DEFINE a == Slice(mem, 1, src - 1)
           b == Slice(mem, src, n)
           r == Says(text)[src + n]
<1>4. b = Slice(text, src, n)
  <2>1. \A k \in 1 .. n : In(mem, src + k - 1) = In(text, src + k - 1)
    BY <1>2
  <2>. QED
    BY <2>1 DEF Slice
<1>5. Says(text)[1] = Prefixed(a, Prefixed(b, r))
  BY <1>3, <1>4 DEF Plain, Stands
<1>6. src - 1 \in Nat /\ src + n \in Nat /\ 1 + (src - 1) = src /\ src - 1 + n = src + n - 1
  BY <1>2
<1>7. a \in Seq(Byte) /\ b \in Seq(Byte) /\ a \o b = Slice(mem, 1, src + n - 1)
  BY <1>2, SliceOn
<1>8. r \in Said
  BY <1>2, <1>6, SaysFacts
<1>9. Prefixed(a, Prefixed(b, r)) = Prefixed(a \o b, r)
  <2>. HIDE DEF a, b, r
  <2>. QED
    BY <1>7, <1>8, PrefixedTwice
<1>10. Says(text')[1] = Prefixed(Slice(mem', 1, src' - 1), Says(text')[src'])
  <2>1. Slice(mem', 1, src' - 1) = a \o b
    <3>1. src' - 1 = src + n - 1
      BY <1>2
    <3>2. Slice(mem', 1, src' - 1) = Slice(mem, 1, src + n - 1)
      BY <3>1
    <3>. HIDE DEF a, b
    <3>. QED
      BY <1>7, <3>2
  <2>2. Says(text')[src'] = r /\ Says(text')[1] = Says(text)[1]
    BY Zenon
  <2>. HIDE DEF a, b, r
  <2>. QED
    BY <1>5, <1>9, <2>1, <2>2, Zenon
<1>. QED
  BY <1>1, <1>10 DEF Decoding, Decodes

\* The n bytes read stand for the bytes stored.
LEMMA CopiedOn ==
    ASSUME IInv, Decoding, pc \in Copying, pc' \in Copying, text' = text,
           mem' \in Seq(Byte), Len(mem') = Len(mem),
           NEW n \in Nat, NEW b \in Seq(Byte), src' = src + n, dst' = dst + Len(b),
           \A i \in Nat : i < dst => In(mem', i) = In(mem, i),
           \A j \in Nat : j < Len(b) => In(mem', dst + j) = b[j + 1],
           Stands(text, src, n, b)
    PROVE  Decoding'
<1>1. pc \in Reading /\ pc' \notin Skipping /\ pc' # "read" /\ pc' # "failed"
  BY Sets
<1>2. /\ text \in Seq(Byte) /\ mem \in Seq(Byte) /\ src \in Nat /\ src >= 1 /\ dst \in Nat /\ dst >= 1
      /\ Len(b) \in Nat
  BY <1>1, ReadingFacts
<1>3. Says(text)[1] = Prefixed(Slice(mem, 1, dst - 1), Says(text)[src])
  BY DEF Decoding
<1> DEFINE a == Slice(mem, 1, dst - 1)
           r == Says(text)[src + n]
<1>4. Says(text)[1] = Prefixed(a, Prefixed(b, r))
  BY <1>3 DEF Stands
<1>5. dst - 1 \in Nat /\ src + n \in Nat /\ 1 + (dst - 1) = dst /\ dst - 1 + Len(b) = dst + Len(b) - 1
  BY <1>2
<1>6. a = Slice(mem', 1, dst - 1)
  <2>1. \A k \in 1 .. dst - 1 : In(mem', 1 + k - 1) = In(mem, 1 + k - 1)
    BY <1>2
  <2>. QED
    BY <2>1 DEF Slice
<1>7. b = Slice(mem', dst, Len(b))
  <2> DEFINE s == Slice(mem', dst, Len(b))
  <2>1. s \in Seq(Byte) /\ Len(s) = Len(b) /\ \A k \in 1 .. Len(b) : s[k] = In(mem', dst + k - 1)
    BY <1>2, SliceFacts
  <2>. HIDE DEF s
  <2>2. ASSUME NEW k \in 1 .. Len(s) PROVE s[k] = b[k]
    <3>1. k \in 1 .. Len(b) /\ k - 1 \in Nat /\ k - 1 < Len(b) /\ dst + (k - 1) = dst + k - 1 /\ (k - 1) + 1 = k
      BY <1>2, <2>1
    <3>2. In(mem', dst + (k - 1)) = b[(k - 1) + 1]
      BY <3>1
    <3>. QED
      BY <2>1, <3>1, <3>2
  <2>3. s = b
    BY ONLY <2>1, <2>2, b \in Seq(Byte), SeqEqual
  <2>. QED
    BY <2>3 DEF s
<1>8. a \in Seq(Byte) /\ a \o b = Slice(mem', 1, dst + Len(b) - 1)
  <2> DEFINE m == mem'
             l == Len(b)
  <2>1. m \in Seq(Byte) /\ l \in Nat
    BY <1>2
  <2>. HIDE DEF m, l
  <2>2. Slice(m, 1, dst - 1) \in Seq(Byte) /\ Slice(m, 1, dst - 1) \o Slice(m, dst, l) = Slice(m, 1, dst + l - 1)
    BY <1>2, <2>1, SliceOn
  <2>. QED
    BY <1>6, <1>7, <2>2, Zenon DEF m, l
<1>9. r \in Said
  BY <1>2, <1>5, SaysFacts
<1>10. Prefixed(a, Prefixed(b, r)) = Prefixed(a \o b, r)
  <2>. HIDE DEF a, r
  <2>. QED
    BY <1>8, <1>9, PrefixedTwice
<1>11. Says(text')[1] = Prefixed(Slice(mem', 1, dst' - 1), Says(text')[src'])
  <2>1. Slice(mem', 1, dst' - 1) = a \o b
    <3>1. dst' - 1 = dst + Len(b) - 1
      BY <1>2
    <3>2. Slice(mem', 1, dst' - 1) = Slice(mem', 1, dst + Len(b) - 1)
      BY <3>1
    <3>. HIDE DEF a
    <3>. QED
      BY <1>8, <3>2
  <2>2. Says(text')[src'] = r /\ Says(text')[1] = Says(text)[1]
    BY Zenon
  <2>. HIDE DEF a, r
  <2>. QED
    BY <1>4, <1>10, <2>1, <2>2, Zenon
<1>. QED
  BY <1>1, <1>11 DEF Decoding, Decodes

\* Nothing is read or stored.
LEMMA CopiedNone ==
    ASSUME Decoding, pc \in Copying, pc' \in Copying, UNCHANGED <<text, mem, src, dst>>
    PROVE  Decoding'
<1>1. pc' \notin Skipping /\ pc' # "read" /\ pc' # "failed"
  BY Sets
<1>. QED
  BY <1>1 DEF Decoding, Decodes

\* From src on the text says nothing, and so from its beginning.
LEMMA Refused ==
    ASSUME IInv, Decoding, pc \in Reading, Fail, Kept, Says(text)[src] = Bad
    PROVE  Decoding'
<1>1. pc' = "failed" /\ text' = text
  BY DEF Fail, Kept
<1>2. pc' \notin Skipping /\ pc' \notin Copying
  BY <1>1, Sets DEF Reading
<1>3. ~Prefixed(Slice(mem, 1, src - 1), Bad).ok /\ ~Prefixed(Slice(mem, 1, dst - 1), Bad).ok
  BY DEF Prefixed, Bad
<1>4. pc \in Skipping \/ pc \in Copying
  BY DEF Reading
<1>5. ~Says(text)[1].ok
  BY <1>3, <1>4 DEF Decoding
<1>. QED
  BY <1>1, <1>2, <1>5 DEF Decoding, Decodes

\* At the closing quotation mark the string is what the text says.
LEMMA Closed ==
    ASSUME IInv, Decoding, pc \in Reading, At(src) = Quote, Kept,
           NEW e, e = IF pc \in Skipping THEN src ELSE dst, Close(e)
    PROVE  Decoding'
<1>1. /\ pc' = "read" /\ str' = e /\ src' = src + 1 /\ mem' = Store(mem, e, <<0>>) /\ text' = text
  BY DEF Close, Kept
<1>2. pc' \notin Skipping /\ pc' \notin Copying /\ pc' # "failed"
  BY <1>1, Sets DEF Reading
<1>3. /\ text \in Seq(Byte) /\ mem \in Seq(Byte) /\ src \in Nat /\ src >= 1 /\ dst \in Nat /\ dst >= 1
      /\ dst <= src /\ Len(text) \in Nat /\ Len(mem) = Len(text) + Padding /\ Padding \in Nat
      /\ AsText(src) /\ \A i \in Nat : i >= src => In(mem, i) = In(text, i)
  BY ReadingFacts, Reads
<1>4. e \in Nat /\ e >= 1 /\ e <= src
  BY <1>3
<1>5. Says(text)[1] = Prefixed(Slice(mem, 1, e - 1), Says(text)[src])
  <2>1. pc \in Skipping \/ (pc \in Copying /\ pc \notin Skipping)
    BY Sets DEF Reading
  <2>. QED
    BY <2>1 DEF Decoding
<1>6. In(text, src) = Quote
  <2>1. In(mem, src) = In(text, src)
    BY <1>3
  <2>. QED
    BY <2>1 DEF At
<1>7. Says(text)[src] = [ok |-> TRUE, next |-> src + 1, bytes |-> <<>>]
  BY <1>3, <1>6, SaysFacts DEF Saying
<1>8. src <= Len(text)
  <2>1. At(src) # 0 /\ src >= src
    BY <1>3 DEF Quote
  <2>. QED
    BY <1>3, <2>1, ZeroBehind DEF IInv
<1> DEFINE a == Slice(mem, 1, e - 1)
<1>9. a \in Seq(Byte) /\ Len(a) = e - 1 /\ \A k \in 1 .. e - 1 : a[k] = In(mem, 1 + k - 1)
  BY <1>3, <1>4, SliceOn, 0 \in Nat
<1>10. /\ Says(text)[1].ok /\ Says(text)[1].next = src + 1 /\ Says(text)[1].bytes = a
  <2>. HIDE DEF a
  <2>1. a \o <<>> = a
    BY ONLY <1>9, a \in Seq(Byte), ConcatEmptySeq
  <2> DEFINE r == [ok |-> TRUE, next |-> src + 1, bytes |-> <<>>]
  <2>2. r \in Said /\ r.ok /\ r.next = src + 1 /\ r.bytes = <<>>
    BY <1>3 DEF Said
  <2>3. Says(text)[1] = Prefixed(a, r)
    BY ONLY <1>5, <1>7, Zenon DEF a
  <2>. HIDE DEF r
  <2>4. Prefixed(a, r).ok = r.ok /\ Prefixed(a, r).next = r.next /\ Prefixed(a, r).bytes = a \o r.bytes
    BY <1>9, <2>2, PrefixedFacts
  <2>. QED
    BY <2>1, <2>2, <2>3, <2>4
<1>. HIDE DEF a
<1> DEFINE z == <<0>>
<1>11. z \in Seq(Byte) /\ Len(z) = 1 /\ z[1] = 0
  BY ByteRange
<1>12. mem' = Store(mem, e, z)
  BY <1>1
<1>. HIDE DEF z
<1>13. /\ mem' \in Seq(Byte) /\ Len(mem') = Len(mem) /\ Len(mem) \in Nat
       /\ \A i \in Nat : i < e \/ i >= e + 1 => In(mem', i) = In(mem, i)
       /\ In(mem', e) = 0
  <2>1. /\ mem' \in Seq(Byte) /\ Len(mem') = Len(mem) /\ Len(mem) \in Nat /\ Len(z) \in Nat
        /\ \A i \in Nat : i < e \/ i >= e + Len(z) => In(mem', i) = In(mem, i)
        /\ \A j \in Nat : j < Len(z) /\ e + j <= Len(mem) => In(mem', e + j) = z[j + 1]
    BY <1>3, <1>4, <1>11, <1>12, StoredFacts
  <2>2. 0 \in Nat /\ 0 < Len(z) /\ e + 0 = e /\ 0 + 1 = 1 /\ e <= Len(mem)
    BY <1>3, <1>4, <1>8, <1>11
  <2>3. In(mem', e + 0) = z[0 + 1]
    BY <2>1, <2>2
  <2>. QED
    BY <1>11, <2>1, <2>2, <2>3
<1>14. Bytes(mem', 1, e - 1) = a
  <2>1. \A k \in 1 .. e - 1 : mem'[1 + k - 1] = In(mem, 1 + k - 1)
    <3> SUFFICES ASSUME NEW k \in 1 .. e - 1 PROVE mem'[1 + k - 1] = In(mem, 1 + k - 1)
      OBVIOUS
    <3>1. k \in Nat /\ k < e /\ 1 + k - 1 = k /\ k \in 1 .. Len(mem')
      BY <1>3, <1>4, <1>8, <1>13
    <3>2. In(mem', k) = mem'[k]
      BY <3>1 DEF In
    <3>. QED
      BY <1>13, <3>1, <3>2
  <2>. QED
    BY <2>1 DEF Bytes, Slice, a
<1>15. mem'[e] = 0
  <2>1. e \in 1 .. Len(mem')
    BY <1>3, <1>4, <1>8, <1>13
  <2>. QED
    BY <1>13, <2>1 DEF In
<1>16. \A i \in src + 1 .. Len(text) : mem'[i] = text[i]
  <2> SUFFICES ASSUME NEW i \in src + 1 .. Len(text) PROVE mem'[i] = text[i]
    OBVIOUS
  <2>1. i \in Nat /\ i >= src /\ i >= e + 1 /\ i \in 1 .. Len(text) /\ i \in 1 .. Len(mem')
    BY <1>3, <1>4, <1>13
  <2>2. In(mem', i) = In(mem, i) /\ In(mem, i) = In(text, i)
    BY <1>3, <1>13, <2>1
  <2>. QED
    BY <2>1, <2>2 DEF In
<1>. QED
  BY <1>1, <1>2, <1>10, <1>14, <1>15, <1>16 DEF Decoding, Decodes, Result

LEMMA SkipAsciiSays ==
    ASSUME IInv, Decoding, SkipAscii
    PROVE  Decoding'
<1> DEFINE n == Len(mem) + 1 - src
           k == Run(src, n)
<1>1. /\ pc \in Skipping /\ pc \in Reading /\ pc' \in Skipping /\ mem' = mem /\ text' = text /\ src' = src + k
  BY Sets DEF SkipAscii, Kept
<1>2. /\ src \in Nat /\ src >= 1 /\ mem \in Seq(Byte) /\ text \in Seq(Byte) /\ n \in Nat
      /\ \A i \in Nat : At(i) = In(text, i)
  BY <1>1, ReadingFacts, Reads DEF At
<1>. HIDE DEF n
<1>3. k \in Nat /\ \A j \in Nat : j < k => ~Stop(At(src + j))
  <2>1. k \in 0 .. n /\ \A j \in Nat : j < k => ~Stop(At(src + j))
    BY <1>2, RunFacts
  <2>. HIDE DEF k
  <2>. QED
    BY <1>2, <2>1
<1>. HIDE DEF k
<1>4. ASSUME NEW j \in Nat, j < k PROVE Plain(text, src + 1 * j, 1)
  <2>1. src + j \in Nat /\ src + j >= 1 /\ src + 1 * j = src + j
    BY <1>2
  <2>2. ~Stop(In(text, src + j))
    BY <1>2, <1>3, <1>4, <2>1
  <2>. QED
    BY <1>2, <2>1, <2>2, PlainByte
<1>5. Plain(text, src, 1 * k) /\ 1 * k = k
  <2>1. 1 \in {1, 2, 3, 4}
    OBVIOUS
  <2>2. Plain(text, src, 1 * k)
    BY <1>2, <1>3, <1>4, <2>1, PlainRun
  <2>. QED
    BY <1>3, <2>2
<1>. QED
  BY <1>1, <1>3, <1>5, SkippedOn

LEMMA SeqEndPlain ==
    ASSUME IInv, pc \in Skipping, NEW i \in Nat, 1 <= i, NEW n \in {2, 3, 4}
    PROVE  /\ SeqEnd(i, n) \in Nat /\ SeqEnd(i, n) >= i
           /\ Plain(text, i, SeqEnd(i, n) - i)
           /\ ~Valid(n, SeqEnd(i, n))
<1>1. pc \in Reading /\ Types /\ text \in Seq(Byte) /\ mem \in Seq(Byte) /\ \A j \in Nat : At(j) = In(text, j)
  BY Sets, Reads, ReadingFacts DEF At
<1>2. PICK k \in Nat : /\ SeqEnd(i, n) = i + n * k
                       /\ \A j \in Nat : j < k => Valid(n, i + n * j)
                       /\ ~Valid(n, i + n * k)
  BY <1>1, SeqEndFacts
<1>3. ASSUME NEW j \in Nat, j < k PROVE Plain(text, i + n * j, n)
  <2> DEFINE q == i + n * j
  <2>1. q \in Nat /\ q >= 1
    BY SMT
  <2>2. Valid(n, q)
    BY <1>2, <1>3
  <2>. HIDE DEF q
  <2>3. AsText(q)
    <3> SUFFICES ASSUME NEW d \in Nat PROVE At(q + d) = In(text, q + d)
      BY DEF AsText
    <3>. QED
      BY <1>1, <2>1, q + d \in Nat
  <2>4. At(q) >= 128
    <3>1. \A d \in Nat : d < n => At(q + d) >= 128
      BY <1>1, <2>1, <2>2, ValidInside
    <3>2. 0 < n /\ q + 0 = q
      BY <2>1
    <3>. QED
      BY <3>1, <3>2
  <2>5. Plain(text, q, n)
    BY <1>1, <2>1, <2>2, <2>3, <2>4, SequenceCharacter
  <2>. QED
    BY <2>5 DEF q
<1>4. n * k \in Nat
  BY SMT
<1>5. Plain(text, i, n * k)
  BY <1>1, <1>3, PlainRun, n \in {1, 2, 3, 4}
<1> DEFINE x == n * k
<1>6. x \in Nat /\ Plain(text, i, x) /\ SeqEnd(i, n) = i + x /\ ~Valid(n, i + x)
  BY <1>2, <1>4, <1>5
<1>. HIDE DEF x
<1>7. i + x - i = x /\ i + x \in Nat /\ i + x >= i
  BY <1>6
<1>. QED
  BY <1>6, <1>7

LEMMA SkipUtf8Says ==
    ASSUME IInv, Decoding, SkipUtf8
    PROVE  Decoding'
<1> DEFINE three == SeqEnd(src, 3)
           two   == SeqEnd(three, 2)
           four  == SeqEnd(two, 4)
<1>1. /\ pc = "skip_ascii_end" /\ pc \in Skipping /\ pc \in Reading /\ Kept /\ text' = text
      /\ src \in Nat /\ src >= 1 /\ text \in Seq(Byte) /\ Types /\ AsText(src)
  BY Sets, ReadingFacts, Reads DEF SkipUtf8, Kept
<1>2. \/ At(src) = Quote /\ Close(src)
      \/ At(src) >= 128 /\ src' = three /\ pc' = "skip_ascii" /\ mem' = mem
      \/ src' = four /\ pc' = "skip_ascii" /\ mem' = mem
      \/ At(src) >= 128 /\ four = src /\ Fail
      \/ dst' = src /\ pc' = "copy_escape" /\ UNCHANGED <<mem, src>>
  BY DEF SkipUtf8
<1>3. three \in Nat /\ three >= src /\ Plain(text, src, three - src) /\ ~Valid(3, three)
  BY <1>1, SeqEndPlain
<1>. HIDE DEF three
<1>11. three >= 1 /\ 2 \in {2, 3, 4} /\ 4 \in {2, 3, 4}
  BY <1>1, <1>3
<1>4. two \in Nat /\ two >= three /\ Plain(text, three, two - three) /\ ~Valid(2, two)
  BY ONLY IInv, <1>1, <1>3, <1>11, SeqEndPlain
<1>. HIDE DEF two
<1>12. two >= 1
  BY <1>3, <1>4, <1>11
<1>5. four \in Nat /\ four >= two /\ Plain(text, two, four - two) /\ ~Valid(4, four)
  BY ONLY IInv, <1>1, <1>4, <1>11, <1>12, SeqEndPlain
<1>. HIDE DEF four
<1>6. CASE At(src) = Quote /\ Close(src)
  BY <1>1, <1>6, Closed
<1>7. CASE src' = three /\ pc' = "skip_ascii" /\ mem' = mem
  <2>1. three - src \in Nat /\ src' = src + (three - src)
    BY <1>1, <1>3, <1>7
  <2>. QED
    BY <1>1, <1>3, <1>7, <2>1, SkippedOn, Sets
<1>8. CASE src' = four /\ pc' = "skip_ascii" /\ mem' = mem
  <2> DEFINE a == three - src
             b == two - three
             c == four - two
  <2>1. /\ a \in Nat /\ b \in Nat /\ c \in Nat /\ src + a = three /\ src + (a + b) = two
        /\ src' = src + (a + b + c) /\ a + b \in Nat /\ a + b + c \in Nat
    BY <1>1, <1>3, <1>4, <1>5, <1>8
  <2>2. Plain(text, src, a) /\ Plain(text, src + a, b) /\ Plain(text, src + (a + b), c)
    BY <1>3, <1>4, <1>5, <2>1
  <2>. HIDE DEF a, b, c
  <2>3. Plain(text, src, a + b)
    BY <1>1, <2>1, <2>2, PlainTogether
  <2> DEFINE d == a + b
  <2>4. d \in Nat /\ Plain(text, src, d) /\ Plain(text, src + d, c)
    BY <2>1, <2>2, <2>3
  <2>. HIDE DEF d
  <2>5. Plain(text, src, d + c)
    BY <1>1, <2>1, <2>4, PlainTogether
  <2>6. Plain(text, src, a + b + c)
    BY <2>5 DEF d
  <2>. QED
    BY <1>1, <1>8, <2>1, <2>6, SkippedOn, Sets
<1>9. CASE At(src) >= 128 /\ four = src /\ Fail
  <2>1. three = src /\ two = src
    BY <1>1, <1>3, <1>4, <1>5, <1>9
  <2>2. ~Valid(3, src) /\ ~Valid(2, src) /\ ~Valid(4, src)
    BY <1>3, <1>4, <1>5, <1>9, <2>1
  <2>3. \A n \in {2, 3, 4} : ~Valid(n, src)
    BY <2>2
  <2>4. Says(text)[src] = Bad
    BY <1>1, <1>9, <2>3, SequenceCharacter
  <2>. QED
    BY <1>1, <1>9, <2>4, Refused
<1>10. CASE dst' = src /\ pc' = "copy_escape" /\ UNCHANGED <<mem, src>>
  <2>1. pc' \in Copying /\ pc' \notin Skipping /\ pc' # "read" /\ pc' # "failed"
    BY <1>10, Sets
  <2>2. Says(text)[1] = Prefixed(Slice(mem, 1, src - 1), Says(text)[src])
    BY <1>1 DEF Decoding
  <2>. QED
    BY <1>1, <1>10, <2>1, <2>2 DEF Decoding, Decodes
<1>. QED
  BY <1>2, <1>6, <1>7, <1>8, <1>9, <1>10

LEMMA DecodedSays ==
    ASSUME IInv, Decoding, pc \in Copying, Kept, NEW b \in Seq(Byte), NEW n \in Nat, Decoded(b, n),
           src + n <= Len(text) + 1, Len(b) < n, Stands(text, src, n, b)
    PROVE  Decoding'
<1>1. /\ mem' = Store(mem, dst, b) /\ dst' = dst + Len(b) /\ src' = src + n
      /\ pc' = "copy_ascii" /\ text' = text
  BY DEF Decoded, Kept
<1>2. pc' \in Copying /\ pc \in Reading
  BY <1>1, Sets
<1>3. /\ src \in Nat /\ dst \in Nat /\ dst >= 1 /\ dst <= src /\ mem \in Seq(Byte)
      /\ Len(mem) \in Nat /\ Len(text) \in Nat /\ Len(mem) = Len(text) + Padding
      /\ Padding \in Nat /\ Padding >= 4 /\ Len(b) \in Nat
  BY <1>2, ReadingFacts
<1>4. /\ mem' \in Seq(Byte) /\ Len(mem') = Len(mem)
      /\ \A i \in Nat : i < dst \/ i >= dst + Len(b) => In(mem', i) = In(mem, i)
      /\ \A j \in Nat : j < Len(b) /\ dst + j <= Len(mem) => In(mem', dst + j) = b[j + 1]
  BY <1>1, <1>3, StoredFacts
<1>5. \A j \in Nat : j < Len(b) => In(mem', dst + j) = b[j + 1]
  <2> SUFFICES ASSUME NEW j \in Nat, j < Len(b) PROVE dst + j <= Len(mem)
    BY <1>4
  <2>. QED
    BY <1>3
<1>6. \A i \in Nat : i < dst => In(mem', i) = In(mem, i)
  BY <1>4
<1>. QED
  BY <1>1, <1>2, <1>4, <1>5, <1>6, CopiedOn

LEMMA CopyEscapeSays ==
    ASSUME IInv, Decoding, CopyEscape
    PROVE  Decoding'
<1> DEFINE c  == At(src + 1)
           hi == HexU16(src + 2)
           lo == HexU16(src + 8)
           pair == At(src + 6) = Escape /\ At(src + 7) = 117
           code == 65536 + 1024 * (hi - 55296) + (lo - 56320)
<1>1. /\ pc = "copy_escape" /\ pc \in Copying /\ pc \notin Skipping /\ pc \in Reading /\ Kept
      /\ Types /\ Stopped
  BY Sets DEF CopyEscape, IInv
<1>2. /\ src \in Nat /\ src >= 1 /\ text \in Seq(Byte) /\ AsText(src) /\ Len(text) \in Nat
      /\ \A k \in Nat : src + k \in Nat /\ At(src + k) = In(text, src + k)
  <2>1. src \in Nat /\ src >= 1 /\ text \in Seq(Byte) /\ AsText(src) /\ Len(text) \in Nat
    BY <1>1, ReadingFacts, Reads
  <2>2. \A k \in Nat : src + k \in Nat /\ At(src + k) = In(text, src + k)
    BY <2>1 DEF AsText
  <2>. QED
    BY <2>1, <2>2
<1>3. At(src) = In(text, src) /\ Stop(At(src)) /\ At(src) < 128
  <2>1. At(src + 0) = In(text, src + 0) /\ src + 0 = src
    BY <1>2
  <2>. QED
    BY <1>1, <2>1 DEF Stopped
<1>4. /\ c = In(text, src + 1) /\ At(src + 6) = In(text, src + 6) /\ At(src + 7) = In(text, src + 7)
  BY <1>2
<1>5. /\ IsHex(src + 2) <=> \A k \in 2 .. 5 : Hex(In(text, src + k)) < 16
      /\ hi = CodeUnit(text, src)
  <2> DEFINE d == 0
  <2>1. d \in {0, 6} /\ src + d = src /\ src + d + 2 = src + 2 /\ \A k \in 2 .. 5 : src + d + k = src + k
    BY <1>2
  <2>. HIDE DEF d
  <2>2. /\ IsHex(src + d + 2) <=> \A k \in 2 .. 5 : Hex(In(text, src + d + k)) < 16
        /\ HexU16(src + d + 2) = CodeUnit(text, src + d)
    BY <1>2, <2>1, DigitsOfText
  <2>. QED
    BY <2>1, <2>2
<1>6. /\ IsHex(src + 8) <=> \A k \in 2 .. 5 : Hex(In(text, src + 6 + k)) < 16
      /\ lo = CodeUnit(text, src + 6)
  <2> DEFINE d == 6
  <2>1. d \in {0, 6} /\ src + d = src + 6 /\ src + d + 2 = src + 8
    BY <1>2
  <2>. HIDE DEF d
  <2>2. /\ IsHex(src + d + 2) <=> \A k \in 2 .. 5 : Hex(In(text, src + d + k)) < 16
        /\ HexU16(src + d + 2) = CodeUnit(text, src + d)
    BY <1>2, <2>1, DigitsOfText
  <2>. QED
    BY <2>1, <2>2
<1>7. At(src) = Escape /\ c = 117 => (Unicode(text, src) <=> IsHex(src + 2))
  BY <1>3, <1>4, <1>5 DEF Unicode
<1>8. pair /\ IsHex(src + 8) <=> Unicode(text, src + 6)
  <2>1. src + 6 + 1 = src + 7
    BY <1>2
  <2>. QED
    BY <1>4, <1>6, <2>1 DEF Unicode
<1>9. code = Paired(hi, lo)
  BY DEF Paired
<1>10. At(src) = Escape /\ c # 117 => ~Unicode(text, src)
  BY <1>4 DEF Unicode
<1>11. \A k \in Nat : At(src + k) # 0 => src + k <= Len(text)
  <2> SUFFICES ASSUME NEW k \in Nat, At(src + k) # 0 PROVE src + k <= Len(text)
    OBVIOUS
  <2>1. src + k \in Nat /\ src + k >= src
    BY <1>2
  <2>. QED
    BY <1>1, <2>1, ZeroBehind DEF IInv
<1>. HIDE DEF c, hi, lo, pair, code
<1>12. CASE At(src) = Quote /\ Close(dst)
  BY <1>1, <1>12, Closed
<1>13. CASE At(src) \notin {Quote, Escape} /\ Fail
  <2>1. Says(text)[src] = Bad
    BY <1>2, <1>3, <1>13, NoEscape
  <2>. QED
    BY <1>1, <1>13, <2>1, Refused
<1>14. ASSUME At(src) = Escape
       PROVE  /\ c \in DOMAIN Single => Stands(text, src, 2, <<Single[c]>>)
              /\ c \notin DOMAIN Single /\ ~Unicode(text, src) => Says(text)[src] = Bad
              /\ Unicode(text, src) =>
                     /\ ~IsHigh(hi) /\ ~IsLow(hi) => Stands(text, src, 6, Utf8(hi))
                     /\ IsLow(hi) => Says(text)[src] = Bad
                     /\ IsHigh(hi) /\ Unicode(text, src + 6) /\ IsLow(lo) =>
                            Stands(text, src, 12, Utf8(Paired(hi, lo)))
                     /\ IsHigh(hi) /\ ~(Unicode(text, src + 6) /\ IsLow(lo)) => Says(text)[src] = Bad
  <2>1. In(text, src) = Escape
    BY <1>3, <1>14
  <2>. QED
    BY ONLY <1>2, <1>4, <1>5, <1>6, <2>1, EscapeCharacter
<1>15. CASE Fail /\ At(src) = Escape /\ Says(text)[src] = Bad
  BY <1>1, <1>15, Refused
<1>16. CASE At(src) = Escape /\ c \in DOMAIN Single /\ Decoded(<<Single[c]>>, 2)
  <2>1. c # 0 /\ Single[c] \in Byte
    BY <1>16, SingleFacts
  <2>2. src + 2 <= Len(text) + 1
    BY <1>2, <1>11, <2>1 DEF c
  <2> DEFINE b == <<Single[c]>>
  <2>3. b \in Seq(Byte) /\ Len(b) < 2
    BY <2>1
  <2>4. Decoded(b, 2) /\ Stands(text, src, 2, b)
    BY <1>14, <1>16
  <2>. HIDE DEF b
  <2>. QED
    BY <1>1, <2>2, <2>3, <2>4, DecodedSays
<1>17. CASE /\ At(src) = Escape /\ c = 117 /\ IsHex(src + 2) /\ ~IsHigh(hi) /\ ~IsLow(hi)
            /\ Decoded(Utf8(hi), 6)
  <2>1. hi \in Nat /\ hi < 65536 /\ At(src + 2 + 3) # 0
    BY <1>1, <1>2, <1>17, HexFacts, src + 2 \in Nat DEF hi
  <2>2. src + 6 <= Len(text) + 1
    <3>1. src + 2 + 3 = src + 5
      BY <1>2
    <3>2. src + 5 <= Len(text)
      BY <1>11, <2>1, <3>1
    <3>. QED
      BY <1>2, <3>2
  <2> DEFINE b == Utf8(hi)
  <2>3. b \in Seq(Byte) /\ Len(b) \in Nat /\ Len(b) <= 4
    <3>1. hi < 1114112
      BY <2>1
    <3> DEFINE u == hi
    <3>2. u \in Nat /\ u < 1114112 /\ b = Utf8(u)
      BY <2>1, <3>1
    <3>. HIDE DEF u, b
    <3>3. Utf8(u) \in Seq(Byte) /\ Len(Utf8(u)) <= 4
      BY ONLY <3>2, Utf8Facts
    <3>. QED
      BY <3>2, <3>3
  <2>4. Decoded(b, 6) /\ Stands(text, src, 6, b)
    BY <1>7, <1>14, <1>17
  <2>. HIDE DEF b
  <2>5. Len(b) < 6
    BY <2>3
  <2>. QED
    BY <1>1, <2>2, <2>3, <2>4, <2>5, DecodedSays
<1>18. CASE /\ At(src) = Escape /\ c = 117 /\ IsHex(src + 2) /\ IsHigh(hi)
            /\ pair /\ IsHex(src + 8) /\ IsLow(lo) /\ Decoded(Utf8(code), 12)
  <2>1. hi \in Nat /\ lo \in Nat /\ At(src + 8 + 3) # 0
    BY <1>1, <1>2, <1>18, HexFacts, src + 2 \in Nat, src + 8 \in Nat DEF hi, lo
  <2>2. src + 12 <= Len(text) + 1
    <3>1. src + 8 + 3 = src + 11
      BY <1>2
    <3>2. src + 11 <= Len(text)
      BY <1>11, <2>1, <3>1
    <3>. QED
      BY <1>2, <3>2
  <2>3. code \in Nat /\ code < 1114112
    <3>1. 55296 <= hi /\ hi < 56320 /\ 56320 <= lo /\ lo <= 57343
      BY <1>18, <2>1, Surrogates
    <3>. QED
      BY <1>9, <2>1, <3>1, PairedFacts
  <2> DEFINE b == Utf8(code)
  <2>4. b \in Seq(Byte) /\ Len(b) \in Nat /\ Len(b) <= 4
    BY <2>3, Utf8Facts
  <2>5. Decoded(b, 12) /\ Stands(text, src, 12, b)
    BY <1>7, <1>8, <1>9, <1>14, <1>18
  <2>. HIDE DEF b
  <2>6. Len(b) < 12
    BY <2>4
  <2>. QED
    BY <1>1, <2>2, <2>4, <2>5, <2>6, DecodedSays
<1>19. \/ At(src) = Quote /\ Close(dst)
       \/ At(src) \notin {Quote, Escape} /\ Fail
       \/ At(src) = Escape /\ c \in DOMAIN Single /\ Decoded(<<Single[c]>>, 2)
       \/ At(src) = Escape /\ c \notin DOMAIN Single \cup {117} /\ Fail
       \/ /\ At(src) = Escape /\ c = 117
          /\ \/ ~IsHex(src + 2) /\ Fail
             \/ IsHex(src + 2) /\ ~IsHigh(hi) /\ ~IsLow(hi) /\ Decoded(Utf8(hi), 6)
             \/ IsHex(src + 2) /\ IsLow(hi) /\ Fail
             \/ IsHex(src + 2) /\ IsHigh(hi) /\ ~(pair /\ IsHex(src + 8) /\ IsLow(lo)) /\ Fail
             \/ /\ IsHex(src + 2) /\ IsHigh(hi) /\ pair /\ IsHex(src + 8) /\ IsLow(lo)
                /\ Decoded(Utf8(code), 12)
  BY DEF CopyEscape, c, hi, lo, pair, code
<1>20. 117 \notin DOMAIN Single
  BY SMT DEF Single, Quote, Escape, Slash
<1>21. CASE At(src) = Escape /\ c \notin DOMAIN Single \cup {117} /\ Fail
  BY <1>10, <1>14, <1>15, <1>21
<1>22. CASE At(src) = Escape /\ c = 117 /\ ~IsHex(src + 2) /\ Fail
  BY <1>7, <1>14, <1>15, <1>20, <1>22
<1>23. CASE At(src) = Escape /\ c = 117 /\ IsHex(src + 2) /\ IsLow(hi) /\ Fail
  BY <1>7, <1>14, <1>15, <1>23
<1>24. CASE /\ At(src) = Escape /\ c = 117 /\ IsHex(src + 2) /\ IsHigh(hi)
            /\ ~(pair /\ IsHex(src + 8) /\ IsLow(lo)) /\ Fail
  BY <1>7, <1>8, <1>14, <1>15, <1>24
<1>. QED
  BY <1>12, <1>13, <1>16, <1>17, <1>18, <1>19, <1>21, <1>22, <1>23, <1>24

LEMMA CopyAsciiSays ==
    ASSUME IInv, Decoding, CopyAscii
    PROVE  Decoding'
<1> DEFINE n == Run(src, 16)
           b == Slice(text, src, n)
<1>1. /\ pc \in Copying /\ pc' \in Copying /\ pc \in Reading /\ text' = text
      /\ src' = src + n /\ dst' = dst + n
  BY Sets DEF CopyAscii, Kept
<1>2. /\ n \in 0 .. 16
      /\ \A j \in Nat : j < n => ~Stop(At(src + j))
      /\ mem' \in Seq(Byte) /\ Len(mem') = Len(mem)
      /\ \A i \in Nat : i < dst \/ i >= src + n => In(mem', i) = In(mem, i)
      /\ \A j \in Nat : j < n => In(mem', dst + j) = At(src + j)
  BY AsciiMoved
<1>. HIDE DEF n
<1>3. /\ src \in Nat /\ src >= 1 /\ text \in Seq(Byte) /\ AsText(src) /\ n \in Nat
  BY <1>1, <1>2, Reads
<1>4. ASSUME NEW j \in Nat, j < n PROVE Plain(text, src + 1 * j, 1)
  <2>1. src + j \in Nat /\ src + j >= 1 /\ src + 1 * j = src + j
    BY <1>3
  <2>2. ~Stop(In(text, src + j))
    BY <1>2, <1>3, <1>4 DEF AsText
  <2>. QED
    BY <1>3, <2>1, <2>2, PlainByte
<1>5. Plain(text, src, 1 * n) /\ 1 * n = n
  <2>1. Plain(text, src, 1 * n)
    BY <1>3, <1>4, PlainRun, 1 \in {1, 2, 3, 4}
  <2>. QED
    BY <1>3, <2>1
<1>6. Stands(text, src, n, b)
  BY <1>5 DEF Plain
<1>7. b \in Seq(Byte) /\ Len(b) = n /\ \A k \in 1 .. n : b[k] = In(text, src + k - 1)
  BY <1>3, SliceFacts
<1>. HIDE DEF b
<1>8. ASSUME NEW j \in Nat, j < Len(b) PROVE In(mem', dst + j) = b[j + 1]
  <2>1. j < n /\ j + 1 \in 1 .. n /\ src + (j + 1) - 1 = src + j
    BY <1>3, <1>7, <1>8
  <2>2. At(src + j) = In(text, src + j)
    BY <1>3 DEF AsText
  <2>. QED
    BY <1>2, <1>7, <2>1, <2>2
<1>. QED
  BY <1>1, <1>2, <1>3, <1>6, <1>7, <1>8, CopiedOn

LEMMA TurnSays ==
    ASSUME IInv, Decoding, Turn
    PROVE  Decoding'
<1>1. /\ pc \in {"copy_3", "copy_2", "copy_4"} /\ pc \in Copying /\ pc \notin Skipping /\ pc \in Reading
      /\ Kept /\ text' = text /\ Stopped
  BY Sets DEF Turn, IInv, Kept
<1>2. src \in Nat /\ src >= 1 /\ text \in Seq(Byte) /\ AsText(src) /\ Types /\ mem \in Seq(Byte)
  BY <1>1, Reads, ReadingFacts
<1>3. ASSUME NEW n \in {2, 3, 4}, NEW stored \in {2, 4}, n <= stored, stored <= n + 1,
             Valid(n, src), Take(n, stored)
      PROVE  Decoding'
  <2>1. /\ mem' \in Seq(Byte) /\ Len(mem') = Len(mem)
        /\ \A i \in Nat : i < dst \/ i >= src + n => In(mem', i) = In(mem, i)
        /\ \A j \in Nat : j < n => In(mem', dst + j) = At(src + j)
    BY <1>1, <1>3, Taken
  <2>2. src' = src + n /\ dst' = dst + n /\ pc' \in Copying
    BY <1>1, <1>3 DEF Take
  <2>3. At(src) >= 128
    <3>1. \A j \in Nat : j < n => At(src + j) >= 128
      BY <1>2, <1>3, ValidInside
    <3>2. 0 < n /\ src + 0 = src
      BY <1>2
    <3>. QED
      BY <3>1, <3>2
  <2> DEFINE b == Slice(text, src, n)
  <2>4. Stands(text, src, n, b)
    BY <1>2, <1>3, <2>3, SequenceCharacter DEF Plain
  <2>5. b \in Seq(Byte) /\ Len(b) = n /\ \A k \in 1 .. n : b[k] = In(text, src + k - 1)
    BY <1>2, SliceFacts, n \in Nat
  <2>. HIDE DEF b
  <2>6. ASSUME NEW j \in Nat, j < Len(b) PROVE In(mem', dst + j) = b[j + 1]
    <3>1. j < n /\ j + 1 \in 1 .. n /\ src + (j + 1) - 1 = src + j
      BY <1>2, <2>5, <2>6
    <3>2. At(src + j) = In(text, src + j)
      BY <1>2 DEF AsText
    <3>. QED
      BY <2>1, <2>5, <3>1, <3>2
  <2>. QED
    BY <1>1, <2>1, <2>2, <2>4, <2>5, <2>6, CopiedOn, n \in Nat
<1>4. CASE pc = "copy_3" /\ Valid3(src) /\ Take(3, 4)
  <2>1. Valid(3, src)
    BY <1>4 DEF Valid
  <2>. QED
    BY <1>3, <1>4, <2>1
<1>5. CASE pc = "copy_2" /\ Valid2(src) /\ Take(2, 2)
  <2>1. Valid(2, src)
    BY <1>5 DEF Valid
  <2>. QED
    BY <1>3, <1>5, <2>1
<1>6. CASE pc = "copy_4" /\ Valid4(src) /\ Take(4, 4)
  <2>1. Valid(4, src)
    BY <1>6 DEF Valid
  <2>. QED
    BY <1>3, <1>6, <2>1
<1>7. CASE pc = "copy_4" /\ ~Valid4(src) /\ pos = src /\ Fail
  <2>1. At(src) >= 128 /\ ~Valid3(src) /\ ~Valid2(src)
    BY <1>1, <1>7 DEF Stopped
  <2>2. \A n \in {2, 3, 4} : ~Valid(n, src)
    BY <1>7, <2>1 DEF Valid
  <2>3. Says(text)[src] = Bad
    BY <1>2, <2>1, <2>2, SequenceCharacter
  <2>. QED
    BY <1>1, <1>7, <2>3, Refused
<1>8. CASE UNCHANGED <<mem, src, dst>> /\ pc' \in {"copy_ascii", "copy_2", "copy_4"}
  BY <1>1, <1>8, CopiedNone, Sets
<1>. QED
  BY <1>4, <1>5, <1>6, <1>7, <1>8 DEF Turn

LEMMA WritingSays ==
    ASSUME IInv, Decoding, IInv', WriteString
    PROVE  Decoding'
<1>1. CASE pc' \in Writing
  <2>1. pc' \notin Skipping /\ pc' \notin Copying /\ pc' # "read" /\ pc' # "failed"
    BY <1>1, Sets DEF Reading
  <2>. QED
    BY <2>1 DEF Decoding, Decodes
<1>2. CASE ReadAgain
  <2>1. pc' \in Skipping /\ pc' \notin Copying /\ pc' # "read" /\ pc' # "failed" /\ src' = 1
    BY <1>2, Sets DEF ReadAgain
  <2> DEFINE t == text'
  <2>2. t \in Seq(Byte)
    BY DEF IInv, Types
  <2>. HIDE DEF t
  <2>3. Plain(t, 1, 0)
    BY <2>2, NoneStand
  <2>4. Slice(t, 1, 0) = <<>> /\ Slice(mem', 1, src' - 1) = <<>> /\ 1 + 0 = 1
    BY <2>1 DEF Slice
  <2>5. Says(t)[1] = Prefixed(Slice(mem', 1, src' - 1), Says(t)[src'])
    BY <2>1, <2>3, <2>4 DEF Plain, Stands
  <2>. QED
    BY <2>1, <2>5 DEF Decoding, Decodes, t
<1>3. CASE StartWriting \/ CopyChar \/ CopyNext
  <2>1. pc' \in Writing
    BY <1>3, Sets DEF StartWriting, CopyChar, CopyNext, Escaped
  <2>. QED
    BY <1>1, <2>1
<1>. QED
  BY <1>2, <1>3 DEF WriteString

LEMMA DecodingFirst == Init => Decoding
<1> SUFFICES ASSUME Init PROVE Decoding
  OBVIOUS
<1>1. pc \in Skipping /\ pc \notin Copying /\ pc # "read" /\ pc # "failed" /\ src = 1 /\ text \in Seq(Byte)
  BY Sets, TextAssumption DEF Init
<1>2. Plain(text, 1, 0)
  BY <1>1, NoneStand
<1>3. Slice(text, 1, 0) = <<>> /\ Slice(mem, 1, src - 1) = <<>> /\ 1 + 0 = 1
  BY <1>1 DEF Slice
<1>. QED
  BY <1>1, <1>2, <1>3 DEF Decoding, Decodes, Plain, Stands

LEMMA DecodingNext == DInv /\ [Next]_vars => Decoding'
<1> SUFFICES ASSUME DInv, [Next]_vars PROVE Decoding'
  OBVIOUS
<1>1. IInv /\ Decoding /\ IInv'
  BY Stepwise DEF DInv
<1>2. CASE CopyUtf8
  <2>1. pc \in Copying /\ pc' \in Copying /\ UNCHANGED <<text, mem, src, dst>>
    BY <1>2, Sets DEF CopyUtf8, Kept
  <2>. QED
    BY <1>1, <2>1, CopiedNone
<1>3. CASE SkipAscii \/ SkipUtf8 \/ CopyEscape \/ CopyAscii \/ Turn
  BY <1>1, <1>3, SkipAsciiSays, SkipUtf8Says, CopyEscapeSays, CopyAsciiSays, TurnSays
<1>4. CASE WriteString
  BY <1>1, <1>4, WritingSays
<1>5. CASE UNCHANGED vars
  BY <1>1, <1>5 DEF vars, Decoding, Decodes, Result
<1>. QED
  BY <1>2, <1>3, <1>4, <1>5 DEF Next, ReadString

\* A string that read_string takes is the one its text says, in its place and with a
\* zero behind it, and what it refuses says none: every escape, surrogate and sequence
\* of UTF-8, however the text mixes them and breaks off (read_string).
THEOREM SaysWhatItReads == Spec => []Decodes
<1>1. Init => DInv
  BY Initially, DecodingFirst DEF DInv
<1>2. DInv /\ [Next]_vars => DInv'
  BY Stepwise, DecodingNext DEF DInv
<1>3. DInv => Decodes
  BY DEF DInv, Decoding
<1>. QED
  BY <1>1, <1>2, <1>3, PTL DEF Spec

=============================================================================
