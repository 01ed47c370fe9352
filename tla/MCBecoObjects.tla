--------------------------- MODULE MCBecoObjects ----------------------------
EXTENDS BecoObjects

AllRules == {"give", "fill", "once", "dup"}

\* Bounds of the instance: a program that has had all the blocks but one goes on
\* building, and frees one structure; what it does after that is left to smaller
\* heaps.  So is what it does with two messages behind it.
Room == /\ calls # <<>> \/ Len(heap) < Blocks - 1 \/ OfKind("dead") = {}
        /\ Cardinality(OfKind("frame")) < 2

\* Programs that duplicate what they like.
DupRules == {"give", "fill", "once"}

=============================================================================
