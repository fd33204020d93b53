----------------------------- MODULE MCHubRuns ------------------------------
(***************************************************************************)
(* Whatever runs against a hub in a process of its own, for TLC: the bound *)
(* of the acceptance command, the native run and its single exchanges, and *)
(* the current-hub probe.  A behaviour is one of one of them; the other    *)
(* three are over before it begins.                                        *)
(***************************************************************************)
EXTENDS ActualHubBound, NativeRun, HttpExchange, CurrentHubProbe

BoundOver ==
  /\ running = {} /\ grouped = {"command"} /\ started = Procs /\ killed = {}
  /\ bound_pc = "done" /\ ended = "returned" /\ interrupts = MaxInterrupts
NativeOver ==
  /\ hub = [life |-> 0, defect |-> "none", secret |-> TRUE, current |-> Null, grace |-> Null,
            issued |-> 0, updated |-> FALSE]
  /\ launcher = 1 /\ files = [staged |-> FALSE, config |-> TRUE, stopped |-> TRUE]
  /\ marker = FALSE /\ receipt = "none" /\ events = MaxEvents
  /\ pc = Failed /\ failure = 1 /\ check = NotChecking
  /\ token = [held |-> Null, first |-> Null, retried |-> Null]
  /\ cursor = Null /\ clock = 0 /\ answered = {}
OnePeer == [address |-> [a \in 1..Addresses |-> "refuses"], leaf |-> "other", status |-> "other",
            request_id |-> FALSE, body |-> "none", expects |-> "none"]
ExchangeOver ==
  /\ stage = "done" /\ elapsed = 0 /\ waitEnd = 0 /\ peer = OnePeer
  /\ at = Addresses /\ holders = [a \in 1..Addresses |-> {}]
  /\ done = NothingDone /\ response_started = FALSE /\ outcome = "unavailable"
  /\ request_count = 0 /\ transcript = {} /\ exchanges = MaxExchanges
ProbeOver ==
  /\ drives = 0 /\ truthful = TRUE /\ capable = FALSE
  /\ probe_clock = 0 /\ probe_pc = "done" /\ operation = "discovery" /\ max_time = 0
  /\ probe_cursor = Nowhere /\ seen_cursors = {} /\ page_number = 0
  /\ listed = <<>> /\ requested = <<>> /\ status = "failed"

Init ==
  \/ BoundInit /\ NativeOver /\ ExchangeOver /\ ProbeOver
  \/ NativeInit /\ BoundOver /\ ExchangeOver /\ ProbeOver
  \/ ExchangeInit /\ BoundOver /\ NativeOver /\ ProbeOver
  \/ ProbeInit /\ BoundOver /\ NativeOver /\ ExchangeOver

Next ==
  \/ BoundNext /\ UNCHANGED <<native_vars, exchange_vars, probe_vars>>
  \/ NativeNext /\ UNCHANGED <<bound_vars, exchange_vars, probe_vars>>
  \/ ExchangeNext /\ UNCHANGED <<bound_vars, native_vars, probe_vars>>
  \/ ProbeNext /\ UNCHANGED <<bound_vars, native_vars, exchange_vars>>

Spec ==
  /\ Init /\ [][Next]_<<bound_vars, native_vars, exchange_vars, probe_vars>>
  /\ BoundFairness /\ NativeFairness /\ ExchangeFairness /\ ProbeFairness

-----------------------------------------------------------------------------
(* None of them waits for ever, whatever the other side does not do: the   *)
(* acceptance command's group is empty (runner.py:907, 913-933), the run   *)
(* is over although the update never comes (hub_http.py:450-453), every    *)
(* exchange of a client is over (hub_http.py:170-174), and so is the probe *)
(* (check-current-hub:184-188).                                            *)
RunsEnd == GroupGone /\ RunEnds /\ ExchangeEnds /\ ProbeEnds
=============================================================================
