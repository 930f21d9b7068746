--------------------------- MODULE MCAggregation ---------------------------
(* TLC instances of Aggregation. *)
EXTENDS Aggregation

\* The watermark as the migration leaves it, and as a test or an operator may
\* set it by hand.
MCStartMarks == {Null, 0}
MCNullMark == {Null}
=============================================================================
