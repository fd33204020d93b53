-------------------------- MODULE CurrentHubProbe ---------------------------
(***************************************************************************)
(* tools/check-current-hub: a probe that makes one request after another   *)
(* with curl, under one deadline, and follows the pages of a vehicle's     *)
(* drives until there is no cursor, a cursor comes again, or max_pages are *)
(* read.  The hub lists its drives truthfully, or sends any page and any   *)
(* cursor; curl may take its time.                                         *)
(***************************************************************************)
EXTENDS Naturals, Sequences, FiniteSets

CONSTANTS
  MaxDrives, Limit,    \* the drives a hub may have between the bounds, and those of a page
  MaxPages,         \* max_pages
  Timeout             \* timeout_seconds, in ticks

ASSUME ProbeAssumption ==
  /\ MaxDrives \in Nat /\ {Limit, MaxPages, Timeout} \subseteq Nat \ {0}

VARIABLES
  drives,               \* the drives the hub has between the bounds
  truthful, capable,    \* whether its pages list them, and whether it has query.drives
  probe_clock,
  probe_pc,               \* "next", "curl" or "done"
  operation,        \* the request in hand
  max_time,         \* when the curl that runs gives up
  probe_cursor, seen_cursors, page_number,
  listed,           \* the drives that the pages listed, in order
  requested,        \* the cursors of the pages that were asked for, in order
  status

hub_ == <<drives, truthful, capable>>
pages_ == <<probe_cursor, seen_cursors, page_number, listed, requested>>
probe_vars == <<hub_, probe_clock, probe_pc, operation, max_time, pages_, status>>

Nowhere == 0          \* the cursor of the first page, and the cursor null
Cursors == 1..MaxDrives

ProbeInit ==
  /\ drives \in 0..MaxDrives /\ truthful \in BOOLEAN /\ capable \in BOOLEAN
  /\ probe_clock = 0 /\ probe_pc = "next" /\ operation = "discovery" /\ max_time = 0
  /\ probe_cursor = Nowhere /\ seen_cursors = {} /\ page_number = 0
  /\ listed = <<>> /\ requested = <<>>
  /\ status = "none"

ProbeTick ==
  /\ probe_pc # "done" /\ probe_clock < Timeout + 1
  /\ probe_pc = "curl" => probe_clock < max_time
  /\ probe_clock' = probe_clock + 1
  /\ UNCHANGED <<hub_, probe_pc, operation, max_time, pages_, status>>

Finish(as) ==
  /\ probe_pc' = "done" /\ status' = as
  /\ UNCHANGED <<hub_, probe_clock, operation, max_time, pages_>>

-----------------------------------------------------------------------------
(* _curl: what remains is its --max-time and the time it is waited for.    *)

MaxTime == probe_clock + (Timeout - probe_clock)

Curl ==
  /\ probe_pc = "next"
  /\ IF probe_clock >= Timeout THEN Finish("failed")
     ELSE /\ probe_pc' = "curl" /\ max_time' = MaxTime
          /\ requested' = IF operation = "page" THEN Append(requested, probe_cursor) ELSE requested
          /\ UNCHANGED <<hub_, probe_clock, operation, probe_cursor, seen_cursors, page_number,
                         listed, status>>

(* The deadline, a status or a body that the profile does not have, or a   *)
(* vehicle that is not the one asked for.                                  *)
FailProbe == probe_pc = "curl" /\ Finish("failed")

Expire == probe_clock >= max_time /\ FailProbe

-----------------------------------------------------------------------------
(* run.                                                                    *)
AfterCurl(next) ==
  /\ probe_pc = "curl" /\ probe_pc' = "next" /\ operation' = next
  /\ UNCHANGED <<hub_, probe_clock, max_time, status>>

Discovery == operation = "discovery" /\ AfterCurl("vehicles") /\ UNCHANGED pages_
TakeVehicles == operation = "vehicles" /\ AfterCurl("current") /\ UNCHANGED pages_
Current ==
  /\ probe_pc = "curl" /\ operation = "current"
  /\ \/ capable /\ AfterCurl("page") /\ UNCHANGED pages_
     \/ ~capable /\ Finish("passed")

(* A page of the hub: its drives and its cursor.                           *)
Upto(c) == IF c + Limit < drives THEN c + Limit ELSE drives
Truth(c) == [items |-> [i \in 1..(Upto(c) - c) |-> c + i],
             next |-> IF Upto(c) = drives THEN Nowhere ELSE Upto(c)]
PageAnswers(c) ==
  IF truthful THEN {Truth(c)}
  ELSE [items : {<<>>, <<1>>}, next : Cursors \cup {Nowhere}]

Repeated(next) == next \in seen_cursors

(* Mutant: the page limit is the end of the drives. *)
AtLimitPassed == "passed"

AtLimit == "partial"

(* What follows a page, when its conditional request is answered.          *)
Follow(next, items) ==
  /\ listed' = listed \o items /\ probe_cursor' = next
  /\ UNCHANGED <<hub_, probe_clock, max_time, requested>>
  /\ \/ /\ next = Nowhere /\ probe_pc' = "done" /\ status' = "passed"
        /\ UNCHANGED <<operation, seen_cursors, page_number>>
     \/ /\ next # Nowhere /\ Repeated(next) /\ probe_pc' = "done" /\ status' = "failed"
        /\ UNCHANGED <<operation, seen_cursors, page_number>>
     \/ /\ next # Nowhere /\ ~Repeated(next)
        /\ seen_cursors' = seen_cursors \cup {next} /\ page_number' = page_number + 1
        /\ operation' = "page"
        /\ IF page_number + 1 = MaxPages THEN probe_pc' = "done" /\ status' = AtLimit
           ELSE probe_pc' = "next" /\ UNCHANGED status

(* The first page is asked for twice: the second time with its ETag, which *)
(* must be answered 304.  Its contents wait in the page that follows.      *)
FirstPage ==
  /\ operation = "page" /\ page_number = 0
  /\ AfterCurl("conditional") /\ UNCHANGED pages_

TakePage ==
  /\ probe_pc = "curl"
  /\ \/ operation = "conditional"
     \/ operation = "page" /\ page_number > 0
  /\ \E a \in PageAnswers(probe_cursor) : Follow(a.next, a.items)

HubAnswers == Discovery \/ TakeVehicles \/ Current \/ FirstPage \/ TakePage
ProbeNext == ProbeTick \/ Curl \/ Expire \/ FailProbe \/ HubAnswers

(* Time passes and the probe runs; the hub need not answer.                *)
ProbeFairness == WF_probe_vars(ProbeTick) /\ WF_probe_vars(Curl) /\ WF_probe_vars(Expire)
ProbeSpec == ProbeInit /\ [][ProbeNext]_probe_vars /\ ProbeFairness

-----------------------------------------------------------------------------
(* A probe that passed a hub that lists its drives truthfully has read     *)
(* every drive once, in order: one that stopped at its page limit does not *)
(* pass (docs/guides/docker.md:57-58, check-current-hub:300-329).          *)
PassedComplete ==
  status = "passed" /\ truthful /\ capable => listed = [d \in 1..drives |-> d]

(* No page is asked for twice, whatever cursors the hub sends, and there   *)
(* are at most max_pages of them (check-current-hub:304, 326-329).         *)
PagesOnce ==
  /\ Len(requested) <= MaxPages
  /\ \A i, j \in DOMAIN requested : requested[i] = requested[j] => i = j

(* All requests together keep the one deadline (check-current-hub:184-188, *)
(* 199, 217-218, 240).                                                     *)
OneTimeout == probe_pc = "curl" => probe_clock <= Timeout

(* The probe ends, whatever the hub does not answer.                       *)
ProbeEnds == <>(probe_pc = "done")

(* The pages of a probe, together (check-current-hub:184-329).             *)
ProbeExact == PassedComplete /\ PagesOnce /\ OneTimeout
=============================================================================
