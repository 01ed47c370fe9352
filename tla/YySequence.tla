----------------------------- MODULE YySequence -----------------------------
(***************************************************************************)
(* What the modification functions of a mutable array or object promise:   *)
(* the container is a sequence of members, and each function does to it    *)
(* what its name says.  A member of an object is a pair <<key, value>>.    *)
(* Indexes count from 0, as the functions' do.                             *)
(***************************************************************************)
EXTENDS Integers, Sequences, SequencesExt

VARIABLE seq

Insert(m, idx)  == seq' = InsertAt(seq, idx + 1, m)
Add(m)          == seq' = Append(seq, m)
Replace(idx, m) == seq' = [seq EXCEPT ![idx + 1] = m]
RemoveMember(idx) == seq' = RemoveAt(seq, idx + 1)
RemoveRange(idx, n) == seq' = SubSeq(seq, 1, idx) \o SubSeq(seq, idx + n + 1, Len(seq))
Clear           == seq' = <<>>
Rotate(idx)     == seq' = SubSeq(seq, idx + 1, Len(seq)) \o SubSeq(seq, 1, idx)
Keep            == seq' = seq

\* The members whose key is not k.
Without(k) == LET kept[n \in 0..Len(seq)] ==
                    IF n = 0 THEN <<>> ELSE IF seq[n][1] = k THEN kept[n - 1]
                    ELSE Append(kept[n - 1], seq[n])
              IN  kept[Len(seq)]
RemoveKey(k)    == seq' = Without(k)
Put(m)          == seq' = Append(Without(m[1]), m)
ReplaceKey(m)   == LET hits == {i \in DOMAIN seq : seq[i][1] = m[1]}
                   IN  seq' = IF hits = {} THEN seq
                              ELSE [seq EXCEPT ![CHOOSE i \in hits : \A j \in hits : i <= j] = m]

=============================================================================
