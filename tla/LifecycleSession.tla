--------------------------- MODULE LifecycleSession ---------------------------
(***************************************************************************)
(* What the installed-host attachment of conformance/hub_control.py        *)
(* promises its caller: operations are asked for one at a time, the host   *)
(* performs each at most once and in order, and a caller that may ask for  *)
(* the next one knows exactly which operations the host has performed.  A  *)
(* session whose caller lost that knowledge is over.  One in which an      *)
(* operation was asked for all the same, behind one whose result nobody    *)
(* has, is void: the host still performs what was asked in order and at    *)
(* most once, and what its callers are told no longer says what it did.    *)
(***************************************************************************)
EXTENDS Integers, Sequences

CONSTANTS Operations   \* the closed set of lifecycle operations

VARIABLES
  mode,    \* "ready" to ask, "busy" with one operation, "over" or "void"
  asked,   \* operations sent to the host
  done,    \* operations the host performed
  known    \* operations whose result the caller has

vars == <<mode, asked, done, known>>

Init == mode = "ready" /\ asked = <<>> /\ done = <<>> /\ known = <<>>

Begin == mode = "ready" /\ mode' = "busy" /\ UNCHANGED <<asked, done, known>>

Ask(op) ==
  /\ mode \in {"busy", "over"} /\ Len(asked) = Len(known)
  /\ asked' = Append(asked, op)
  /\ UNCHANGED <<mode, done, known>>

Stray(op) ==
  /\ mode \in {"over", "void"} /\ mode' = "void"
  /\ asked' = Append(asked, op)
  /\ UNCHANGED <<done, known>>

Perform ==
  /\ \E i \in Len(done) + 1..Len(asked) :
       /\ mode # "void" => i = Len(done) + 1
       /\ done' = Append(done, asked[i])
  /\ UNCHANGED <<mode, asked, known>>

Learn ==
  /\ mode \in {"busy", "over"} /\ Len(known) < Len(done)
  /\ known' = Append(known, done[Len(known) + 1])
  /\ mode' = IF mode = "over" THEN "over" ELSE "ready"
  /\ UNCHANGED <<asked, done>>

BeTold ==
  /\ mode = "void" /\ Len(known) < Len(asked)
  /\ known' = Append(known, asked[Len(asked)])
  /\ UNCHANGED <<mode, asked, done>>

GiveUp == mode \in {"ready", "busy"} /\ mode' = "over" /\ UNCHANGED <<asked, done, known>>

Next ==
  \/ Begin
  \/ \E op \in Operations : Ask(op) \/ Stray(op)
  \/ Perform \/ Learn \/ BeTold \/ GiveUp

Spec == Init /\ [][Next]_vars
=============================================================================
