----------------------------- MODULE YyInteger ------------------------------
(***************************************************************************)
(* write_u64 of 3rd/yyjson.c:5447-5577: the decimal digits of an unsigned  *)
(* integer, two at a time from a table, in chunks of four and of eight,    *)
(* with multiplications and shifts for the divisions.  The numbers are     *)
(* those of the code, no bit of them scaled; TLC evaluates what stays in   *)
(* its integers, and YyIntegerProofs proves the rest.                      *)
(***************************************************************************)
EXTENDS Integers, Sequences

E4 == 10000
E8 == 100000000

Div100(v) == (v * 5243) \div 524288                        \* >> 19
Div10000(v) == (v * 109951163) \div (1048576 * 1048576)    \* >> 40, to 8 digits
Div10000Short(v) == (v * 429497) \div (65536 * 65536)      \* >> 32, to 6 digits

\* A row of digit_table.
Two(v) == <<v \div 10, v % 10>>

\* A first row loses its zero.
First(v) == IF v < 10 THEN <<v>> ELSE Two(v)

Len4(v) == LET aa == Div100(v) IN Two(aa) \o Two(v - aa * 100)

Len8(v) == LET aabb == Div10000(v) IN Len4(aabb) \o Len4(v - aabb * 10000)

\* Five to eight digits.
Len5To8(v) ==
    IF v < 1000000
    THEN LET aa == Div10000Short(v) IN First(aa) \o Len4(v - aa * 10000)
    ELSE LET aabb == Div10000(v)
             aa == Div100(aabb)
         IN  First(aa) \o Two(aabb - aa * 100) \o Len4(v - aabb * 10000)

Len1To8(v) ==
    IF v < 100 THEN First(v)
    ELSE IF v < 10000 THEN LET aa == Div100(v) IN First(aa) \o Two(v - aa * 100)
    ELSE Len5To8(v)

WriteU64(v) ==
    IF v < E8 THEN Len1To8(v)
    ELSE LET tmp == v \div E8
             low == v - tmp * E8
         IN  IF v < E8 * E8 THEN Len1To8(tmp) \o Len8(low)
             ELSE LET hgh == tmp \div E4 IN Len5To8(hgh) \o Len4(tmp - hgh * E4) \o Len8(low)

-----------------------------------------------------------------------------
(* What digits say, twenty of them at most, and the numeral of a number *)

Place(s, i) == IF i < Len(s) THEN s[Len(s) - i] ELSE 0
Four(s, k) ==
    Place(s, k) + 10 * Place(s, k + 1) + 100 * Place(s, k + 2) + 1000 * Place(s, k + 3)
DigitsValue(s) ==
    Four(s, 0) + 10000 * (Four(s, 4) + 10000 * (Four(s, 8) + 10000 * (Four(s, 12)
        + 10000 * Four(s, 16))))

IsNumeral(s, v) ==
    /\ s \in Seq(Nat) /\ 1 <= Len(s) /\ Len(s) <= 20
    /\ \A i \in 1 .. Len(s) : s[i] < 10
    /\ s[1] = 0 => Len(s) = 1
    /\ DigitsValue(s) = v

=============================================================================
