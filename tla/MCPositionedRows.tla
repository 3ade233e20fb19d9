-------------------------- MODULE MCPositionedRows --------------------------
(* Instances of PositionedRows for TLC. *)
EXTENDS PositionedRows

CONSTANTS scroller, writer,  \* the statements
          v1, v2             \* the rows, v2 twice

AnyWay == {"next", "prior", "first", "last", "absolute", "relative", "bookmark"}

\* One statement scrolls and inserts, the other writes at the rows it passes.
SplitMoves == [s \in Statements |-> IF s = scroller THEN AnyWay ELSE {"next"}]
SplitWrites == [s \in Statements |->
                  IF s = scroller THEN {"add"} ELSE {"delete", "update", "currentOf"}]

\* A statement that scrolls and writes: the README has what it shows.
BothMoves == [s \in Statements |-> AnyWay]
BothWrites == [s \in Statements |-> {"delete"}]

OneTwin == [v \in Values |-> IF v = v2 THEN 2 ELSE 1]
NearOffsets == -2 .. 3
=============================================================================
