---------------------------- MODULE MCYyScalars ----------------------------
(***************************************************************************)
(* Strings and numbers, in one run: what is read is the one or the other.  *)
(***************************************************************************)
EXTENDS YyString, YyNumber

-----------------------------------------------------------------------------
(* Strings *)

A(n) == [i \in 1 .. n |-> 97]

\* Escapes, characters of one to four bytes, and what is wrong with either.
Good == {A(1), A(3), <<47>>, <<92, 110>>, <<92, 34>>, <<92, 117, 48, 48, 48, 48>>,
         <<92, 117, 48, 48, 101, 57>>, <<92, 117, 50, 48, 97, 67>>,
         <<92, 117, 100, 56, 51, 100, 92, 117, 100, 101, 48, 48>>,
         <<195, 169>>, <<226, 130, 172>>, <<240, 159, 152, 128>>}
Wrong == {<<10>>, <<92>>, <<92, 120>>, <<92, 117, 48, 48>>, <<92, 117, 100, 56, 51, 100>>,
          <<92, 117, 100, 101, 48, 48>>, <<92, 117, 100, 56, 51, 100, 92, 117, 48, 48, 48, 48>>,
          <<128>>, <<192, 128>>, <<226, 130>>, <<237, 160, 128>>, <<240, 159, 152>>}
Runs == {A(n) : n \in 0 .. 18}

\* First and second bytes at the limits of their ranges.
Leads   == {127, 128, 191, 192, 193, 194, 223, 224, 225, 236, 237, 238, 239, 240, 241, 243, 244,
            245, 247, 248, 255}
Seconds == {32, 127, 128, 143, 144, 159, 160, 191, 192}
Rests   == {<<>>, <<128>>, <<191, 128>>}

Ends == {<<>>, <<34>>, <<34, 44>>}   \* the closing quotation mark, and more

MCTexts ==
    {a \o b \o c \o e : a \in Good, b \in Good \cup Wrong, c \in Good \cup Wrong, e \in Ends}
    \cup {<<92, 116>> \o a \o b \o c \o e :
             a \in Runs, b \in {<<>>, <<92, 110>>, <<226, 130, 172>>, <<195, 169>>},
             c \in Runs, e \in Ends}
    \cup {a \o <<x, y>> \o z \o e :
             a \in {<<>>, <<92, 110>>}, x \in Leads, y \in Seconds, z \in Rests, e \in Ends}

-----------------------------------------------------------------------------
(* Numbers *)

Other  == 14
Lowest == -6

\* What is no number, and what nearly is one.
Short == UNION {[1 .. n -> {0, 5, Minus, Plus, Dot, E, Other}] : n \in 0 .. 5}

Numeral(n) == LET k == IF n = 0 THEN 1 ELSE Size(n) IN [i \in 1 .. k |-> (n \div 10 ^ (k - i)) % 10]
Integers10 == {Numeral(n) : n \in (0 .. 120) \cup (480 .. 1100) \cup {9999, 10230, 99999}}

\* Exponents: signs, leading zeros, at and beyond the limits.
Exponents == {<<>>, <<E, 1>>, <<E, Plus, 0, 2>>, <<E, Minus, 3>>, <<E, Minus, 0, 5>>,
              <<E, Minus, 1, 2>>, <<E, 9, 9, 9>>, <<E, Minus, 1, 0, 0>>}

\* Halves: odd significands, boundaries of up to MaxDig digits.
MCHalves == {<<5, -2>>, <<9, -3>>, <<31, -1>>, <<33, 0>>, <<1023, 0>>, <<131, 3>>, <<627, 4>>}

\* The digits of a boundary.
DigitsOf(h) == Numeral(IF h[2] >= 0 THEN h[1] * 2 ^ h[2] ELSE h[1] * 5 ^ (0 - h[2]))

\* A boundary, written short or with more digits, just below it and just above.
Lower(d) == Append(SubSeq(d, 1, Len(d) - 1), Last(d) - 1)
Near(h) == LET d == DigitsOf(h)
               tails == {<<>>, <<0>>, <<0, 0>>, <<0, 0, 0>>, <<1>>, <<0, 1>>, <<0, 0, 0, 1>>, <<5, 0, 4>>}
               nines == {<<9>>, <<9, 9>>, <<9, 9, 9>>, <<4, 9>>, <<0, 0, 0, 5>>}
           IN  {d \o t : t \in tails} \cup {Lower(d) \o t : t \in nines}

\* The point anywhere.
Pointed(d) == {d} \cup {SubSeq(d, 1, i) \o <<Dot>> \o SubSeq(d, i + 1, Len(d)) : i \in 1 .. Len(d) - 1}
                  \cup {<<0, Dot>> \o d, <<0, Dot, 0>> \o d}

MCNumberTexts ==
    Short \cup {<<Minus>> \o n : n \in Integers10} \cup Integers10
    \cup {d \o x : d \in UNION {Pointed(n) : n \in UNION {Near(h) : h \in MCHalves}}, x \in Exponents}

-----------------------------------------------------------------------------

NoString == /\ text = <<>> /\ mem = <<>> /\ pc = "none" /\ src = 1 /\ dst = 1 /\ pos = 1
            /\ far = 0 /\ str = 0 /\ flg = {} /\ out = <<>> /\ want = <<>>
NoNumber == number = <<>> /\ label = "none" /\ ncur = 1 /\ r = <<>> /\ ended = [kind |-> "none"]

MCInit == \/ Init /\ NoNumber
          \/ NInit /\ NoString
MCNext == \/ Next /\ UNCHANGED nvars
          \/ NNext /\ UNCHANGED vars
MCSpec == MCInit /\ [][MCNext]_<<vars, nvars>>

=============================================================================
