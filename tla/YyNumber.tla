------------------------------ MODULE YyNumber ------------------------------
(***************************************************************************)
(* Numbers in yyjson: read_number (3rd/yyjson.c:3060-3646), the big        *)
(* integers of its slow path (2793-2975), and write_number (6018-6030).    *)
(*                                                                         *)
(* The widths are parameters: a word of Word bits holds every number of   *)
(* SafeDig digits, and some with one more.  The two fast paths and the     *)
(* approximation of the slow path are floating-point arithmetic and are    *)
(* left out; what remains is the comparison that settles a number near the *)
(* boundary half way between two doubles, with any boundary.               *)
(***************************************************************************)
EXTENDS YyInteger, SequencesExt

CONSTANTS NumberTexts,   \* sequences of characters
          Halves,        \* boundaries <<u, e>>, that is u * 2^e
          Word,         \* 64
          SafeDig,       \* U64_SAFE_DIG
          MaxDig,        \* F64_MAX_DEC_DIG: the digits of the longest boundary
          MinExp, MaxExp \* F64_MIN_DEC_EXP, F64_MAX_DEC_EXP

Base == 2 ^ Word

ASSUME NumberAssumption ==
    /\ {Word, SafeDig, MaxDig} \subseteq Nat \ {0} /\ {MinExp, MaxExp} \subseteq Int
    /\ 10 ^ SafeDig < Base /\ Base < 10 ^ (SafeDig + 1) /\ SafeDig <= MaxDig
    /\ \A h \in Halves : h[1] < Base
    /\ \A h \in Halves : (IF h[2] >= 0 THEN h[1] * 2 ^ h[2] ELSE h[1] * 5 ^ (0 - h[2])) < 10 ^ MaxDig

\* Characters: the digits are themselves.
Minus == 10
Plus  == 11
Dot   == 12
E     == 13

VARIABLES number,   \* the text
          label,
          ncur,     \* cur
          r,        \* sign, sig, sig_len, dot_pos, sig_cut, sig_end, exp_sig; a place is 0 for NULL
          ended     \* what was returned, or what the slow path has to decide

nvars == <<number, label, ncur, r, ended>>

Char(i) == IF i <= Len(number) THEN number[i] ELSE 14
IsDigit(i) == Char(i) \in 0 .. 9
IsFp(i) == Char(i) \in {Dot, E}
IsSign(i) == Char(i) \in {Minus, Plus}

\* The end of the digits, and of the zeros, from i on; the value from i up to j.
RunEnd(i) == CHOOSE j \in i .. Len(number) + 1 : ~IsDigit(j) /\ \A k \in i .. j - 1 : IsDigit(k)
ZerosEnd(i) == CHOOSE j \in i .. Len(number) + 1 :
                   Char(j) # 0 /\ \A k \in i .. j - 1 : Char(k) = 0
Value(i, j) == FoldLeft(LAMBDA n, c : IF c = Dot THEN n ELSE 10 * n + c, 0, SubSeq(number, i, j - 1))

-----------------------------------------------------------------------------
(* The ways out *)

Go(l) == label' = l /\ UNCHANGED ended
Return(what) == label' = "done" /\ ended' = what /\ UNCHANGED <<ncur, r>>

Refuse == Return([kind |-> "refused"])
Fixed(v, end) == Return([kind |-> "int", sint |-> r.sign, v |-> IF r.sign THEN (Base - v) % Base ELSE v,
                       end |-> end])
Zero(end)   == Return([kind |-> "zero", end |-> end])
Exact(v, end) == Return([kind |-> "exact", sig |-> v, exp |-> 0, cut |-> 0, end |-> end])

\* 0 or infinity, or what is to be converted.
Finish(x, end) ==
    Return(CASE x < MinExp - SafeDig -> [kind |-> "under", end |-> end]
             [] x > MaxExp           -> [kind |-> "over", end |-> end]
             [] OTHER -> [kind |-> "real", sig |-> r.sig, exp |-> x, cut |-> r.cut, end |-> end])

-----------------------------------------------------------------------------
(* read_number, a label at a time *)

Begin ==
    /\ label = "begin"
    /\ LET sign == Char(1) = Minus
           h    == IF sign THEN 2 ELSE 1
       IN  /\ ncur' = h /\ r' = [r EXCEPT !.sign = sign]
           /\ IF ~IsDigit(h) THEN label' = "done" /\ ended' = [kind |-> "refused"]
              ELSE Go(IF Char(h) = 0 THEN "zero" ELSE "intg")

\* 0, 0.0, 0e5; the zeros behind the point are no significant digits.
LeadingZero ==
    /\ label = "zero"
    /\ LET dot == Char(ncur + 1) = Dot
           z   == IF dot THEN ZerosEnd(ncur + 2) ELSE ncur + 1
           x   == z + 1 + (IF IsSign(z + 1) THEN 1 ELSE 0)
       IN  CASE ~IsDigit(ncur + 1) /\ ~IsFp(ncur + 1) -> Fixed(0, ncur + 1)
             [] \/ IsDigit(ncur + 1)
                \/ dot /\ ~IsDigit(ncur + 2)
                \/ Char(z) = E /\ ~IsDigit(x) -> Refuse
             [] OTHER ->
                    IF IsDigit(z)
                    THEN /\ r' = [r EXCEPT !.sig = Char(z), !.len = 1, !.dot = ncur + 1]
                         /\ ncur' = z + 1 /\ Go("frac")
                    ELSE Zero(IF Char(z) = E THEN RunEnd(x) ELSE z)

\* Mutant: the smallest integer is taken for too small.
FitsNegatedStrict(sig) == sig < Base \div 2

FitsNegated(sig) == sig <= Base \div 2

\* Digits up to SafeDig of them, and what follows fewer.
Intg ==
    /\ label = "intg"
    /\ LET n    == IF RunEnd(ncur) < ncur + SafeDig THEN RunEnd(ncur) ELSE ncur + SafeDig
           full == n = ncur + SafeDig
           sig  == Value(ncur, n)
       IN  IF ~IsDigit(n) /\ ~IsFp(n)
           THEN IF full /\ r.sign /\ ~FitsNegated(sig) THEN Exact(sig, n) ELSE Fixed(sig, n)
           ELSE /\ r' = [r EXCEPT !.sig = sig, !.len = n - ncur, !.dot = IF full THEN 0 ELSE n,
                                  !.end = IF ~full /\ Char(n) = E THEN n ELSE 0]
                /\ ncur' = IF ~full /\ Char(n) = Dot THEN n + 1 ELSE n
                /\ Go(IF full THEN "intg_more" ELSE IF Char(n) = Dot THEN "frac" ELSE "exp_more")

\* The fraction, up to SafeDig digits in all.
Frac ==
    /\ label = "frac"
    /\ LET left == SafeDig - r.len
           n    == IF RunEnd(ncur) < ncur + left THEN RunEnd(ncur) ELSE ncur + left
       IN  /\ r' = [r EXCEPT !.sig = @ * 10 ^ (n - ncur) + Value(ncur, n)]
           /\ ncur' = n
           /\ Go(IF IsDigit(n) THEN "frac_more" ELSE "frac_end")

\* One digit more may still be an integer of a word.
IntgMore ==
    /\ label = "intg_more"
    /\ LET sig  == 10 * r.sig + Char(ncur)
           fits == \/ r.sig < (Base - 1) \div 10
                   \/ r.sig = (Base - 1) \div 10 /\ Char(ncur) <= (Base - 1) % 10
       IN  IF IsDigit(ncur) /\ ~IsDigit(ncur + 1) /\ ~IsFp(ncur + 1) /\ fits
           THEN IF r.sign THEN Exact(sig, ncur + 1) ELSE Fixed(sig, ncur + 1)
           ELSE CASE Char(ncur) = E -> r' = [r EXCEPT !.dot = ncur] /\ Go("exp_more") /\ UNCHANGED ncur
                  [] Char(ncur) = Dot /\ ~IsDigit(ncur + 1) -> Refuse
                  [] Char(ncur) = Dot /\ IsDigit(ncur + 1) ->
                        r' = [r EXCEPT !.dot = ncur] /\ ncur' = ncur + 1 /\ Go("frac_more")
                  [] OTHER -> Go("frac_more") /\ UNCHANGED <<r, ncur>>

\* Mutant: the point is counted with the digits behind it.
CutExpWithDot(dot, cut) == dot - cut

CutExp(dot, cut) == dot - cut + (IF dot < cut THEN 1 ELSE 0)

\* The digits that are cut; the first of them rounds.
FracMore ==
    /\ label = "frac_more"
    /\ LET cut == ncur
           d   == RunEnd(cut)
           dot == IF r.dot = 0 THEN d ELSE r.dot
           end == IF r.dot = 0 /\ Char(d) = Dot THEN RunEnd(d + 1) ELSE d
           none == \A i \in cut .. end - 1 : number[i] \in {0, Dot}
       IN  IF r.dot = 0 /\ Char(d) = Dot /\ ~IsDigit(d + 1) THEN Refuse
           ELSE /\ r' = [r EXCEPT !.sig = @ + (IF Char(cut) >= 5 THEN 1 ELSE 0), !.dot = dot,
                                  !.cut = IF none THEN 0 ELSE cut, !.end = IF none THEN 0 ELSE end,
                                  !.exp = CutExp(dot, cut)]
                /\ ncur' = end
                /\ Go(IF Char(end) = E THEN "exp_more" ELSE "exp_finish")

FracEnd ==
    /\ label = "frac_end"
    /\ IF r.dot + 1 = ncur THEN Refuse
       ELSE /\ r' = [r EXCEPT !.end = ncur, !.exp = r.dot + 1 - ncur]
            /\ UNCHANGED ncur
            /\ Go(IF Char(ncur) = E THEN "exp_more" ELSE "exp_finish")

ExpMore ==
    /\ label = "exp_more"
    /\ LET neg == Char(ncur + 1) = Minus
           d   == ncur + 1 + (IF IsSign(ncur + 1) THEN 1 ELSE 0)
           z   == ZerosEnd(d)
           end == RunEnd(z)
       IN  CASE ~IsDigit(d) -> Refuse
             [] IsDigit(d) /\ end - z >= SafeDig ->
                    Return([kind |-> IF neg THEN "under" ELSE "over", end |-> end])
             [] OTHER -> /\ r' = [r EXCEPT !.exp = IF neg THEN @ - Value(z, end) ELSE @ + Value(z, end)]
                         /\ ncur' = end /\ Go("exp_finish")

\* exp_finish, and what frac_end checks without an exponent.
ExpFinish == label = "exp_finish" /\ Finish(r.exp, ncur)

-----------------------------------------------------------------------------
(* Big integers: chunks of Word bits, the lowest first *)

\* Mutant: a carry goes no further than the second chunk, if there is one.
AddU64OneCarry(big, val) ==
    LET add == (big[1] + val) % Base
    IN  IF add >= big[1] \/ Len(big) = 1 THEN [big EXCEPT ![1] = add]
        ELSE [big EXCEPT ![1] = add, ![2] = (@ + 1) % Base]

AddU64(big, val) ==
    LET add   == (big[1] + val) % Base
        stop  == CHOOSE k \in 2 .. Len(big) + 1 :
                     /\ k <= Len(big) => big[k] # Base - 1
                     /\ \A j \in 2 .. k - 1 : big[j] = Base - 1
        carry == [i \in 1 .. Len(big) |-> CASE i = 1 -> add [] i > 1 /\ i < stop -> 0
                                            [] i = stop -> big[i] + 1 [] i > stop -> big[i]]
    IN  IF add >= big[1] \/ add >= val THEN [big EXCEPT ![1] = add]
        ELSE IF stop > Len(big) THEN Append(carry, 1) ELSE carry

MulU64(big, val) ==
    LET m == FoldLeft(LAMBDA a, b : [bits  |-> Append(a.bits, (b * val + a.carry) % Base),
                                     carry |-> (b * val + a.carry) \div Base],
                      [bits |-> <<>>, carry |-> 0], big)
    IN  IF m.carry > 0 THEN Append(m.bits, m.carry) ELSE m.bits

MulPow2(big, exp) ==
    LET shft  == exp % Word
        move  == [i \in 1 .. exp \div Word |-> 0]
        above == Append(big, 0)
        bits  == [i \in 1 .. Len(above) |->
                    ((above[i] * 2 ^ shft) % Base)
                        + (IF i = 1 THEN 0 ELSE above[i - 1] \div 2 ^ (Word - shft))]
    IN  move \o (IF shft = 0 THEN big ELSE IF Last(bits) > 0 THEN bits ELSE Front(bits))

MulPow10(big, exp) ==
    LET whole == FoldLeft(LAMBDA b, p : MulU64(b, p), big,
                          [i \in 1 .. exp \div SafeDig |-> 10 ^ SafeDig])
    IN  IF exp % SafeDig = 0 THEN whole ELSE MulU64(whole, 10 ^ (exp % SafeDig))

Sign(x) == CASE x < 0 -> -1 [] x = 0 -> 0 [] x > 0 -> 1

Cmp(a, b) ==
    LET differ == {i \in 1 .. Len(a) : a[i] # b[i]}
    IN  IF Len(a) # Len(b) THEN Sign(Len(a) - Len(b))
        ELSE IF differ = {} THEN 0
        ELSE LET i == CHOOSE j \in differ : \A k \in differ : k <= j IN Sign(a[i] - b[i])

\* bigint_set_buf: the digits that were cut are read again, MaxDig + 1 digits in
\* all, and the last of them set to 1 for those that are left out.
HasDot == r.cut < r.dot /\ r.dot < r.end
Total  == SafeDig + (r.end - r.cut) - (IF HasDot THEN 1 ELSE 0)
BigCut == Total > MaxDig

\* Where the digits that are kept end, but for the point.
KeptEnd == IF BigCut THEN r.end - (Total - (MaxDig + 1)) ELSE r.end

DigEnd == IF BigCut /\ r.dot + 1 = KeptEnd THEN KeptEnd - 1 ELSE KeptEnd

SetBuf ==
    LET digit(a, i) ==
            LET full == a.val * 10 + number[i]
                val  == IF i + 1 = DigEnd /\ BigCut THEN 10 * (full \div 10) + 1 ELSE full
            IN  IF a.len + 1 = SafeDig \/ i + 1 = DigEnd
                THEN [big |-> AddU64(MulPow10(a.big, a.len + 1), val), val |-> 0, len |-> 0]
                ELSE [a EXCEPT !.val = val, !.len = @ + 1]
        cut == [i \in 1 .. DigEnd - r.cut |-> r.cut + i - 1]
    IN  FoldLeft(LAMBDA a, i : IF i = r.dot THEN a ELSE digit(a, i),
                 [big |-> <<r.sig - (IF number[r.cut] >= 5 THEN 1 ELSE 0)>>, val |-> 0, len |-> 0],
                 cut).big

SetBufExp == ended.exp - ((IF BigCut THEN MaxDig + 1 ELSE Total) - SafeDig)

Size(n) == CHOOSE k \in 0 .. 9 : n < 10 ^ k /\ \A j \in 0 .. k - 1 : n >= 10 ^ j

\* Decimal digits of a boundary in front of the point.
Order(h) == IF h[2] >= 0 THEN Size(h[1] * 2 ^ h[2]) ELSE Size(h[1] * 5 ^ (0 - h[2])) + h[2]

\* The slow path, when the approximation leaves the boundary h open, which is then
\* as long as the number.
Compare ==
    /\ label = "done" /\ ended.kind = "real"
    /\ \E h \in {b \in Halves : Order(b) = Size(ended.sig) + ended.exp} :
        LET exp  == IF r.cut = 0 THEN ended.exp ELSE SetBufExp
            full == IF r.cut = 0 THEN <<ended.sig>> ELSE SetBuf
            up   == Cmp(MulPow2(IF exp >= 0 THEN MulPow10(full, exp) ELSE full,
                                IF h[2] > 0 THEN 0 ELSE 0 - h[2]),
                        MulPow2(IF exp >= 0 THEN <<h[1]>> ELSE MulPow10(<<h[1]>>, 0 - exp),
                                IF h[2] > 0 THEN h[2] ELSE 0))
        IN  ended' = [kind |-> "compared", half |-> h, up |-> up, end |-> ended.end]
    /\ UNCHANGED <<number, label, ncur, r>>

NInit == /\ number \in NumberTexts
         /\ label = "begin" /\ ncur = 1 /\ ended = [kind |-> "none"]
         /\ r = [sign |-> FALSE, sig |-> 0, len |-> 0, dot |-> 0, cut |-> 0, end |-> 0, exp |-> 0]

ReadNumber ==
    /\ \/ Begin \/ LeadingZero \/ Intg \/ Frac \/ IntgMore \/ FracMore \/ FracEnd
       \/ ExpMore \/ ExpFinish
    /\ UNCHANGED number
NNext == ReadNumber \/ Compare

-----------------------------------------------------------------------------
(* write_number, of an integer *)

WriteInt(sint, v) == IF sint /\ v >= Base \div 2 THEN <<Minus>> \o WriteU64(Base - v) ELSE WriteU64(v)

-----------------------------------------------------------------------------
(* What a text says, by the grammar of numbers *)

Said ==
    LET h == IF Char(1) = Minus THEN 2 ELSE 1
        d == RunEnd(h)
        f == IF Char(d) = Dot THEN RunEnd(d + 1) ELSE d
        x == f + 1 + (IF IsSign(f + 1) THEN 1 ELSE 0)
        end == IF Char(f) = E THEN RunEnd(x) ELSE f
        lit == IF Char(f) = E THEN Value(x, end) ELSE 0
    IN  [ok    |-> /\ d > h /\ (Char(h) = 0 => d = h + 1)
                   /\ Char(d) = Dot => f > d + 1
                   /\ Char(f) = E => end > x,
         neg   |-> h = 2,
         whole |-> Char(d) # Dot /\ Char(f) # E,
         mant  |-> Value(h, f),
         exp   |-> (IF Char(f) = E /\ Char(f + 1) = Minus THEN 0 - lit ELSE lit)
                       - (IF Char(d) = Dot THEN f - d - 1 ELSE 0),
         end   |-> end]

Abs(n) == IF n < 0 THEN 0 - n ELSE n

\* The texts the slow path goes wrong with: more digits than MaxDig, those
\* behind them all zeros, or the point among them.
Digits == SelectSeq(SubSeq(number, 1, r.end - 1), LAMBDA c : c \in 0 .. 9)
Leading == Len(Digits) - Total   \* zeros in front
Miscut == /\ r.cut # 0 /\ BigCut
          /\ \/ \A i \in Leading + MaxDig + 1 .. Len(Digits) : Digits[i] = 0
             \/ HasDot /\ r.dot >= KeptEnd

-----------------------------------------------------------------------------
(* Properties *)

\* A text is read to the end of its number and refused when there is none.  An
\* integer that fits is read as itself, and written as it was read; any other
\* number becomes a double (yyjson.h:480-487, yyjson.c:3110-3266, 6018-6030).
ReadsNumbers ==
    label = "done" =>
        /\ (ended.kind = "refused") = ~Said.ok
        /\ ended.kind # "refused" => ended.end = Said.end
        /\ Said.ok => (ended.kind = "int") =
                (Said.whole /\ Said.mant <= (IF Said.neg THEN Base \div 2 ELSE Base - 1))
        /\ ended.kind = "int" =>
                \/ WriteInt(ended.sint, ended.v) = SubSeq(number, 1, ended.end - 1)
                \/ Said.neg /\ Said.mant = 0 /\ WriteInt(ended.sint, ended.v) = <<0>>

\* The significand is the number, or within half a unit of it when digits are
\* cut, which is the error the approximation allows for; what is taken for 0 or
\* infinity lies beyond the exponents (yyjson.c:3283-3349, 3551).
Significand ==
    LET k == ended.exp - Said.exp
    IN  CASE ended.kind \in {"real", "exact"} ->
                /\ k >= 0
                /\ IF ended.cut = 0 THEN Said.mant = ended.sig * 10 ^ k
                   ELSE 2 * Abs(Said.mant - ended.sig * 10 ^ k) <= 10 ^ k
          [] ended.kind = "under" -> Size(Said.mant) + Said.exp <= MinExp
          [] ended.kind = "over"  -> Size(Said.mant) + Said.exp > MaxExp
          [] ended.kind = "zero"  -> Said.mant = 0
          [] OTHER -> TRUE

\* The number is on the side of the boundary that the comparison says.
Sides ==
    LET u == ended.half[1]
        e == ended.half[2]
        pos(n) == IF n > 0 THEN n ELSE 0
    IN  ended.kind = "compared" =>
            ended.up = Sign(Said.mant * 10 ^ pos(Said.exp) * 2 ^ pos(0 - e)
                            - u * 10 ^ pos(0 - Said.exp) * 2 ^ pos(e))

\* A number is rounded by what it is, however many digits say it, but for the
\* texts above (yyjson.c:3269-3296, 2922-2975, 3609-3642).
Rounds == label = "done" => Significand /\ (Miscut \/ Sides)

\* "Read floating-point number as double with correct rounding" (yyjson.h:483):
\* without that exception (yyjson.c:2943-2944, 2955-2958).
CorrectRounding == Sides

=============================================================================
