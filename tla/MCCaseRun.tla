------------------------------ MODULE MCCaseRun ------------------------------
(* Small values for the constants of CaseRun. *)
EXTENDS CaseRun

AllExpire == {"exchange", "shutdown", "stop", "join"}
NoneExpire == {}

(* The answers of two steps, a blank line, and one that is refused. *)
CaseLines == {Answer(1), Answer(2)} \cup [kind : {"blank", "bad"}, step : {0}]
SomeLines == {Answer(1)} \cup [kind : {"bad"}, step : {0}]
GoodLines == {Answer(i) : i \in 1..Steps}

(* A descendant inherits every stream, only stderr, or none. *)
SomeEnds == {Ends, {"err"}, {}}
AllOrNone == {Ends, {}}
NoChild == {}
=============================================================================
