----------------------------- MODULE MCHubFiles -----------------------------
(***************************************************************************)
(* The files that the matrix and the bundle tools take on trust or leave   *)
(* behind, for TLC: the close acknowledgement, the staged session, the     *)
(* admission of a case, the bundle's archives and their contents.  A       *)
(* behaviour is one of one of them; the others are over before it begins.  *)
(***************************************************************************)
EXTENDS CloseAck, MatrixStaging, MatrixAdmission, DeveloperBundle, BundleImage, SequencesExt

(* Sessions that keep, and that change, their host and their bindings.     *)
TheSessions ==
  <<[host |-> "A", header |-> 1, contract |-> 1, manifest |-> 1, certificate |-> 1],
    [host |-> "A", header |-> 1, contract |-> 1, manifest |-> 1, certificate |-> 2],
    [host |-> "B", header |-> 2, contract |-> 2, manifest |-> 2, certificate |-> 2]>>
TheHeaders == <<[provenance |-> 1, manifest |-> 1], [provenance |-> 2, manifest |-> 2]>>

(* The restart, the case that stays pending, and two cases that only their *)
(* operation tells apart; every set of exported rows, or every row with    *)
(* one document, of a window from the first operation on, altered or taken *)
(* from another case, session or window.                                   *)
SomeCases == {"restart", "service", "bad", "replayed"}
Operations == [restart |-> "endpoint_restart", service |-> "observe_identity",
               bad |-> "bad_invitation", replayed |-> "replayed_invitation"]
Kinds == [restart |-> "http", service |-> "identity", bad |-> "http", replayed |-> "http"]
SomeFacts == [restart |-> "restarted", service |-> "mode", bad |-> "401", replayed |-> "401"]
Exchanges == [restart |-> <<"discovery", "vehicles">>, service |-> <<>>,
              bad |-> <<"claim">>, replayed |-> <<"claim">>]

OtherEvidence(d) ==
  {[Evidence(s, id, w[1], w[2]) EXCEPT !.id = d.raw.id] :
     s \in AllSessions, id \in Cases, w \in {<<d.raw.before, d.raw.after>>, <<1, 1>>}}
Alter(d) == IF d.raw.before # 1 THEN {} ELSE
  {[d EXCEPT !.raw = raw] : raw \in OtherEvidence(d)}
  \cup {[d EXCEPT !.raw = raw, !.case.transcript = raw.requests, !.invocation.ids = raw.ids] :
          raw \in OtherEvidence(d)}
  \cup {[d EXCEPT !.valid = @ \ {part}] : part \in AllValid}
  \cup {[d EXCEPT !.case.id = "other"], [d EXCEPT !.case.status = "failed"], [d EXCEPT !.case.kind = "none"],
        [d EXCEPT !.case.actual = "none"], [d EXCEPT !.case.transcript = <<>>],
        [d EXCEPT !.invocation.case = "other"], [d EXCEPT !.invocation.actor = "other"],
        [d EXCEPT !.invocation.operation = "other"], [d EXCEPT !.invocation.ids = <<<<"other">>>>],
        [d EXCEPT !.raw.id = <<"none", 0>>], [d EXCEPT !.raw.facts = "none"],
        [d EXCEPT !.raw.cleanup.process = FALSE], [d EXCEPT !.raw.ids = <<<<"other">>>>]}

(* The builds of two payloads, with one alteration, of the first with up   *)
(* to two, and the sums, or the manifest and the sums, computed again      *)
(* behind them or not.                                                     *)
Paths ==
  <<"", "../doc", "./doc", "/doc", "BUNDLE-MANIFEST.json", "BUNDLE-SHA256SUMS", "SHA256SUMS",
    "VERSION", "cand", "cand/../doc", "doc", "doc/x", "uv.lock">>
TheParts == [p \in Range(Paths) |->
  CASE p = "" -> <<>> [] p = "../doc" -> <<"..", "doc">> [] p = "./doc" -> <<"doc">>
    [] p = "/doc" -> <<"/", "doc">> [] p = "cand/../doc" -> <<"cand", "..", "doc">>
    [] p = "doc/x" -> <<"doc", "x">> [] OTHER -> <<p>>]
Printed == Range(Paths) \ {"", "./doc"}
Needed == {"VERSION", "uv.lock", "cand"}
Profile == {"cand"}

Plain(d) == <<"plain", d>>
Lists(lines) == <<"closure", lines>>
Payload1 == [p \in {"SHA256SUMS", "VERSION", "cand", "doc", "uv.lock"} |->
               IF p = "SHA256SUMS" THEN Lists(<<<<"cand", Plain(0)>>>>) ELSE Plain(0)]
Payload2 == [p \in {"SHA256SUMS", "VERSION", "cand", "uv.lock"} |-> Payload1[p]]
Built1 == BuildOf(Payload1, {"cand", "doc"})
Built2 == BuildOf(Payload2, {})

Where(a, path) == {i \in DOMAIN a.members : a.members[i].path = path}
WithManifestOf(a, field, value) ==
  [a EXCEPT !.members = [i \in DOMAIN a.members |->
     IF a.members[i].data[1] = "manifest"
       THEN [a.members[i] EXCEPT !.data = <<"manifest", [@[2] EXCEPT ![field] = value]>>]
       ELSE a.members[i]]]
ManifestOf(a) ==
  LET at == {i \in DOMAIN a.members : a.members[i].data[1] = "manifest"}
  IN  IF at = {} THEN Manifest(Payload1, {}) ELSE a.members[Min(at)].data[2]
Member(a, path) == [root |-> a.root, path |-> path, data |-> Plain(0), mode |-> 644, plain |-> TRUE]
Alterations(a) ==
  {a, [a EXCEPT !.gzip = "two"], [a EXCEPT !.tail = TRUE], [a EXCEPT !.root = <<"root", Plain(1)>>]}
  \cup {[a EXCEPT !.root = r, !.members = [i \in DOMAIN @ |-> [@[i] EXCEPT !.root = r]]] :
          r \in {<<"..">>, <<"root", Plain(1)>>}}
  \cup {[a EXCEPT !.members = RemoveAt(@, i)] : i \in DOMAIN a.members}
  \cup {[a EXCEPT !.members = InsertAt(@, i, @[i])] : i \in DOMAIN a.members}
  \cup {[a EXCEPT !.members[i].mode = m] : i \in DOMAIN a.members, m \in {644, 755, 600}}
  \cup {[a EXCEPT !.members[i].data = Plain(d)] : i \in DOMAIN a.members, d \in {0, 1}}
  \cup {[a EXCEPT !.members = InsertAt(@, i, Member(a, p))] :
          i \in 5..Len(a.members), p \in {"doc", "doc/x"}}
  \cup {[a EXCEPT !.members = InsertAt(@, 1, Member(a, p))] : p \in {"", "../doc", "./doc"}}
  \cup {[a EXCEPT !.members = InsertAt(@, Min({6, Len(a.members)}), Member(a, "cand/../doc"))]}
  \cup {[a EXCEPT !.members = [@ EXCEPT ![i] = a.members[i + 1], ![i + 1] = a.members[i]]] :
          i \in 1..Len(a.members) - 1}
  \cup {WithManifestOf(a, "executable", e) : e \in {<<>>, <<"cand">>, <<"doc">>, <<"doc", "cand">>}}
  \cup {WithManifestOf(a, "files", RemoveAt(ManifestOf(a).files, i)) : i \in DOMAIN ManifestOf(a).files}
  \cup {WithManifestOf(a, "files", InsertAt(ManifestOf(a).files, 4, <<"doc", Plain(0)>>)),
        WithManifestOf(a, "files", InsertAt(ManifestOf(a).files, 1, <<"/doc", Plain(0)>>)),
        WithManifestOf(a, "lock", Plain(1)), WithManifestOf(a, "version", Plain(1)),
        WithManifestOf(a, "formed", FALSE)}
Summed(a) ==
  [a EXCEPT !.members = [i \in DOMAIN a.members |->
     IF a.members[i].path = "BUNDLE-SHA256SUMS" THEN [a.members[i] EXCEPT !.data = <<"sums", Sums(FileOf(a))>>]
     ELSE a.members[i]]]
Resigned(a) ==
  LET files == FileOf(a)
      payload == Payload(files)
      manifest == Manifest(Restrict(files, payload), {p \in payload : ModeOf(a)[p] = 755})
  IN  IF ~({"VERSION", "uv.lock"} \subseteq payload) THEN a
      ELSE Summed([a EXCEPT !.members = [i \in DOMAIN a.members |->
             IF a.members[i].path = "BUNDLE-MANIFEST.json"
               THEN [a.members[i] EXCEPT !.data = <<"manifest", manifest>>] ELSE a.members[i]]])
Altered == UNION {Alterations(a) : a \in Alterations(Built1) \cup {Built2}}
(* What cannot be read is refused before its contents are looked at.       *)
Readable == {a \in Altered : ReadCheck(a) = "ok"}
Some == Altered \cup {Summed(a) : a \in Readable} \cup {Resigned(a) : a \in Readable}

-----------------------------------------------------------------------------
AckOver ==
  /\ clock = Late /\ ack = NoFile /\ publisher = "failed" /\ record = "rejected"
  /\ evidence = "absent" /\ wait_pc = "done" /\ before = NoFile /\ chunks = 0
  /\ ack_outcome = "timed out"
StagingOver ==
  /\ current = [file \in Files |-> 1] /\ output = TRUE /\ edits = MaxReplacements
  /\ pc = 0 /\ seen = [r \in ReadNames |-> Unread] /\ client = "none" /\ outcome = "refused"
AdmissionOver ==
  /\ log = <<>> /\ generation = 0 /\ latest = 0 /\ store = 0
  /\ documents = <<>> /\ exported = {} /\ code = "unknown_case"
BundleOver ==
  /\ repository = [first |-> MaxEdits, second |-> MaxEdits]
  /\ archive = None /\ checksum = None /\ temporary = None
  /\ builder = Idle /\ builds = MaxBuilds /\ succeeded = FALSE /\ kills = MaxKills
  /\ extractor = [x \in Extractors |-> Waiting] /\ target = None
ImageOver ==
  received = [gzip |-> "none", root |-> <<>>, members |-> <<>>, tail |-> FALSE] /\ label = "gzip"

Init ==
  \/ AckInit /\ StagingOver /\ AdmissionOver /\ BundleOver /\ ImageOver
  \/ StagingInit /\ AckOver /\ AdmissionOver /\ BundleOver /\ ImageOver
  \/ AdmissionInit /\ AckOver /\ StagingOver /\ BundleOver /\ ImageOver
  \/ BundleInit /\ AckOver /\ StagingOver /\ AdmissionOver /\ ImageOver
  \/ ImageInit /\ AckOver /\ StagingOver /\ AdmissionOver /\ BundleOver

Next ==
  \/ AckNext /\ UNCHANGED <<staging_vars, admission_vars, bundle_vars, image_vars>>
  \/ StagingNext /\ UNCHANGED <<ack_vars, admission_vars, bundle_vars, image_vars>>
  \/ AdmissionNext /\ UNCHANGED <<ack_vars, staging_vars, bundle_vars, image_vars>>
  \/ BundleNext /\ UNCHANGED <<ack_vars, staging_vars, admission_vars, image_vars>>
  \/ VerifyArchive /\ UNCHANGED <<ack_vars, staging_vars, admission_vars, bundle_vars>>

Spec ==
  /\ Init /\ [][Next]_<<ack_vars, staging_vars, admission_vars, bundle_vars, image_vars>>
  /\ AckFairness /\ BundleFairness

-----------------------------------------------------------------------------
(* The wait for an acknowledgement ends, with none or with one that never  *)
(* reads (hub_matrix.py:1183-1184, 1188-1191), and so does every           *)
(* extraction once there is an archive (developer_bundle.py:483-515).      *)
FilesEnd == WaitEnds /\ ExtractionsEnd
=============================================================================
