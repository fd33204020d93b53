--------------------------- MODULE MCAdapterSession ---------------------------
(* Small values for the constants of AdapterSession. *)
EXTENDS AdapterSession

SomeLines == {Answer(1)} \cup [kind : {"blank", "bad"}, step : {0}]

AllExpire == {"exchange", "shutdown", "stop", "join"}

(* A descendant inherits every stream, only stderr, or none. *)
SomeEnds == {Ends, {"err"}, {}}
AllOrNone == {Ends, {}}
=============================================================================
