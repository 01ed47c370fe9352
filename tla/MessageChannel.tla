--------------------------- MODULE MessageChannel ---------------------------
(***************************************************************************)
(* What one direction of the native-messaging connection promises to the   *)
(* code above BecoRead and BecoWrite (beco.c:252-331): frames come out     *)
(* whole, in the order they were accepted and unchanged, up to the first   *)
(* frame that an I/O error tore apart.  From that frame on the stream has  *)
(* lost its framing and the reader can be handed anything.                 *)
(***************************************************************************)
EXTENDS Naturals, Sequences

CONSTANTS Msgs,     \* the payloads
          Garbled   \* what a reader makes of bytes that are no payload

VARIABLES accepted,   \* payloads a writer began to send, oldest first
          delivered,  \* payloads handed to the reader, oldest first
          broken      \* 0, or the index of the first torn frame

vars == <<accepted, delivered, broken>>

TypeOK == /\ accepted \in Seq(Msgs)
          /\ delivered \in Seq(Msgs \cup {Garbled})
          /\ broken \in 0..Len(accepted)

Whole(i) == broken = 0 \/ i < broken

Init == accepted = <<>> /\ delivered = <<>> /\ broken = 0

Accept(m) == accepted' = Append(accepted, m) /\ UNCHANGED <<delivered, broken>>

Deliver == /\ Len(delivered) < Len(accepted)
           /\ Whole(Len(delivered) + 1)
           /\ delivered' = Append(delivered, accepted[Len(delivered) + 1])
           /\ UNCHANGED <<accepted, broken>>

\* Past a torn frame the reader takes its frame boundaries from the wrong bytes.
DeliverAny == /\ ~ Whole(Len(delivered) + 1)
              /\ \E m \in Msgs \cup {Garbled} : delivered' = Append(delivered, m)
              /\ UNCHANGED <<accepted, broken>>

\* A tear may hit any frame that has not been delivered yet.
Tear == /\ \E k \in Len(delivered) + 1 .. Len(accepted) : Whole(k) /\ broken' = k
        /\ UNCHANGED <<accepted, delivered>>

Next == (\E m \in Msgs : Accept(m)) \/ Deliver \/ DeliverAny \/ Tear

Spec == Init /\ [][Next]_vars

=============================================================================
