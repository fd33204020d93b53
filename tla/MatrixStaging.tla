--------------------------- MODULE MatrixStaging ----------------------------
(***************************************************************************)
(* How the installed matrix adapter takes its session: hub_matrix.py reads *)
(* SessionInput and the files it stages, each several times, compares      *)
(* digests and contents, and only then connects to the broker and runs.    *)
(* Every file may be replaced between two reads, by contents it never had  *)
(* before: a version stands for contents and for their digest.             *)
(***************************************************************************)
EXTENDS Naturals, Sequences, FiniteSets

CONSTANTS
  Sessions,         \* what SessionInput may say, in the order it is replaced:
                    \* [host, header, contract, manifest, certificate]
  Headers,          \* and the evidence header: [provenance, manifest]
  Versions,         \* how many versions each other file has
  MaxReplacements          \* bound: files that are replaced

Staged == {"header", "contract", "manifest", "certificate"}
Files == Staged \cup {"session"}

ASSUME StagingAssumption ==
  /\ Versions \in Nat \ {0} /\ MaxReplacements \in Nat
  /\ Len(Sessions) > 0 /\ Len(Headers) = Versions
  /\ \A v \in DOMAIN Sessions : \A f \in Staged : Sessions[v][f] \in 1..Versions

VARIABLES
  current,      \* the version of each file
  output,       \* whether anything lies at an output path
  edits,
  pc,           \* an index in Reads, or a later step
  seen,         \* the version that each read found
  client,       \* the broker client: "none", "open" or "closed"
  outcome

staging_vars == <<current, output, edits, pc, seen, client, outcome>>

(* main, _config_from_session_input, _validate_v2_matrix_config,           *)
(* _validate_session_input and _validate_profile_staging: what is read, in *)
(* this order.  A staged read is that of a root and of a local copy, each  *)
(* against its digest; the members of a profile are read with its          *)
(* manifest, which lists them.                                             *)
Reads ==
  <<[read |-> "private", file |-> "session"], [read |-> "raw", file |-> "session"],
    [read |-> "config_header", file |-> "header"], [read |-> "binding", file |-> "session"],
    [read |-> "session", file |-> "session"], [read |-> "stage_header", file |-> "header"],
    [read |-> "stage_contract", file |-> "contract"], [read |-> "header", file |-> "header"],
    [read |-> "contract", file |-> "contract"],
    [read |-> "stage_manifest", file |-> "manifest"],
    [read |-> "manifest", file |-> "manifest"],
    [read |-> "stage_certificate", file |-> "certificate"],
    [read |-> "certificate", file |-> "certificate"]>>

AllRead == Len(Reads) + 1
ReadNames == {Reads[i].read : i \in DOMAIN Reads}
Unread == 0

StagingInit ==
  /\ current \in [Files -> {1}]
  /\ output \in BOOLEAN
  /\ edits = 0
  /\ pc = 1 /\ seen = [r \in ReadNames |-> Unread]
  /\ client = "none" /\ outcome = "none"

LastVersion(file) == IF file = "session" THEN Len(Sessions) ELSE Versions

ReplaceFile(file) ==
  /\ edits < MaxReplacements /\ current[file] < LastVersion(file)
  /\ current' = [current EXCEPT ![file] = @ + 1] /\ edits' = edits + 1
  /\ UNCHANGED <<output, pc, seen, client, outcome>>

(* Another run of the session leaves something at an output path.          *)
Occupy ==
  /\ ~output /\ edits < MaxReplacements
  /\ output' = TRUE /\ edits' = edits + 1
  /\ UNCHANGED <<current, pc, seen, client, outcome>>

-----------------------------------------------------------------------------
(* The session that is validated, and the configuration made of the one    *)
(* that main read and of the header.                                       *)
Session == Sessions[seen["session"]]
Config == [host |-> Sessions[seen["private"]].host,
           provenance |-> Headers[seen["config_header"]].provenance,
           manifest |-> Headers[seen["config_header"]].manifest]

Binds(file, v) == Session[file] = v

HeaderFits(v) ==
  /\ Headers[v].provenance = Config.provenance
  /\ Headers[v].manifest = Config.manifest

HostFits(v) == Sessions[v].host = Config.host

(* Mutant: the staged digest of the case contract is trusted. *)
ContractFitsAny(v) == TRUE

ContractFits(v) == Binds("contract", v)

(* A manifest that is read again must list the digests of the members that *)
(* were staged; the profile is the header's.                               *)
ManifestFits(v) ==
  /\ v = seen["stage_manifest"]
  /\ Headers[seen["header"]].manifest = seen["stage_manifest"]

CertificateFits(v) == Binds("certificate", v)

Fits(read, v) ==
  CASE read \in {"private", "raw", "config_header"} -> TRUE
    [] read = "binding" -> v = seen["raw"]
    [] read = "session" -> HostFits(v)
    [] read = "stage_header" -> Binds("header", v)
    [] read = "stage_contract" -> Binds("contract", v)
    [] read = "header" -> HeaderFits(v)
    [] read = "contract" -> ContractFits(v)
    [] read = "stage_manifest" -> Binds("manifest", v)
    [] read = "manifest" -> ManifestFits(v)
    [] read = "stage_certificate" -> Binds("certificate", v)
    [] read = "certificate" -> CertificateFits(v)

-----------------------------------------------------------------------------
Go(to) == pc' = to /\ UNCHANGED <<current, output, edits>>

(* run_matrix closes the client that it opened, whatever was raised.       *)
Stop(as) ==
  /\ Go(0) /\ outcome' = as /\ UNCHANGED seen
  /\ client' = IF client = "open" THEN "closed" ELSE client

Read ==
  /\ pc \in DOMAIN Reads
  /\ LET r == Reads[pc]  v == current[r.file] IN
     IF Fits(r.read, v)
     THEN /\ Go(pc + 1) /\ seen' = [seen EXCEPT ![r.read] = v]
          /\ UNCHANGED <<client, outcome>>
     ELSE Stop("refused")

(* The output paths must be free, and disjoint.                            *)
Outputs ==
  /\ pc = AllRead
  /\ IF output THEN Stop("refused")
     ELSE Go(AllRead + 1) /\ UNCHANGED <<seen, client, outcome>>

(* run_matrix: the client, the cases, which MatrixRun models, and then     *)
(* _complete_v2, which reads SessionInput once more, looks at the cases    *)
(* and their anchors and refuses to publish.                               *)
ConnectBroker ==
  /\ pc = AllRead + 1
  /\ \/ Go(AllRead + 2) /\ client' = "open" /\ UNCHANGED <<seen, outcome>>
     \/ Stop("refused")

RunCases ==
  /\ pc = AllRead + 2
  /\ \/ Go(AllRead + 3) /\ UNCHANGED <<seen, client, outcome>>
     \/ Stop("refused")

CompleteV2 == pc = AllRead + 3 /\ Stop("refused")

Adapter == Read \/ Outputs \/ ConnectBroker \/ RunCases \/ CompleteV2
StagingNext == Adapter \/ Occupy \/ \E file \in Files : ReplaceFile(file)

StagingSpec == StagingInit /\ [][StagingNext]_staging_vars

-----------------------------------------------------------------------------
Admitted == pc > AllRead

(* What the run goes on to use is what the session it validated binds,     *)
(* though the files were read again after their digests were compared:     *)
(* each later read is compared with something that the digest fixed        *)
(* (hub_matrix.py:275-288, 297-303, 341-366).                              *)
UsedIsBound ==
  Admitted => /\ seen["config_header"] = Session.header /\ seen["header"] = Session.header
              /\ seen["contract"] = Session.contract
              /\ seen["manifest"] = Session.manifest
              /\ seen["certificate"] = Session.certificate

(* The host session that the broker client connects with is the one of the *)
(* session that was validated, and the profile the one of its header       *)
(* (hub_matrix.py:336-337, 293-294).                                       *)
OneConfiguration ==
  Admitted => /\ Config.host = Session.host
              /\ Config.manifest = Session.manifest

(* A run that failed, before or after it connected, or while it ran its    *)
(* cases, holds no client (hub_matrix.py:1258-1289).                       *)
NothingOpen == outcome # "none" => client # "open"

(* A session whose files change under the run binds what it uses, its host *)
(* and its profile, and leaves no client (hub_matrix.py:1258-1332).        *)
StagingBound == UsedIsBound /\ OneConfiguration /\ NothingOpen
=============================================================================
