------------------------------- MODULE Checks -------------------------------
(***************************************************************************)
(* The validators return the label of the first check that fails:          *)
(* conformance/hub_sync.py, conformance/hub_sync_14.py and                 *)
(* tools/developer_bundle.py.  A check is its label with the condition     *)
(* under which it fails.                                                   *)
(***************************************************************************)
EXTENDS FiniteSetsExt, Sequences

First(checks) ==
  LET failing == {i \in DOMAIN checks : checks[i][2]}
  IN  IF failing = {} THEN "ok" ELSE checks[Min(failing)][1]
=============================================================================
