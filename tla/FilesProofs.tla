----------------------------- MODULE FilesProofs ----------------------------
(***************************************************************************)
(* The files that a matrix session trusts and a build leaves.  The wait    *)
(* for a close acknowledgement: what it accepts and what it refuses, for   *)
(* records of any number of writes, any deadline, and both ways to         *)
(* publish.  The staged session: that what is used is what the session     *)
(* binds, for any sessions, headers, versions and replacements.  The       *)
(* bundle: what a successful build leaves, and what an extraction may      *)
(* never undo, for any numbers of edits, builds, kills and extractors.     *)
(* The admission of a case: what it concludes from the rows that were      *)
(* exported, for sessions of any length, any export and any truthful       *)
(* evidence.  The inside of a bundle: that verification accepts exactly    *)
(* what is built, and that what is extracted stays in the directory made   *)
(* for it, for any archives over any paths.                                *)
(***************************************************************************)
EXTENDS CloseAck, MatrixStaging, DeveloperBundle, BundleImage, MatrixAdmission,
  FiniteSetTheorems, WellFoundedInduction, TLAPS

-----------------------------------------------------------------------------
Reading == {"open", "read", "final", "judge", "evidence", "digest"}

(* An acknowledgement of an earlier run keeps its name, so the wait does   *)
(* not get past its first step with one; what is read had one link when    *)
(* the reading began; and what is compared with the evidence is whole and  *)
(* of this session.                                                        *)
CInv ==
  /\ publisher = "earlier" => ack.links > 0
  /\ wait_pc \in {"loop", "sleep", "lstat"} \cup Reading => publisher # "earlier"
  /\ wait_pc \in Reading => before.links = 1
  /\ wait_pc \in {"evidence", "digest"} => record = "ours" /\ chunks = RecordSize
  /\ ack_outcome = "accepted" => wait_pc = "done"
  /\ AcceptedBound

(* A file that is linked under its name is whole from the first look on,   *)
(* so that what is read of it is whole; and before there is a file nothing *)
(* is read.                                                                *)
LInv ==
  /\ publisher = "idle" => ack = NoFile /\ wait_pc \notin {"lstat"} \cup Reading
  /\ publisher \in {"linked", "unlinked"} =>
       /\ ack.links > 0 /\ ack.size = RecordSize
       /\ wait_pc \in Reading => before.size = RecordSize
       /\ wait_pc \in {"final", "judge"} => chunks = RecordSize
  /\ publisher \in {"idle", "linked", "unlinked"} /\ record = "ours" /\ evidence = "bound" =>
       ack_outcome # "invalid"

LEMMA InitC == AckInit => CInv
<1> SUFFICES ASSUME AckInit PROVE CInv
  OBVIOUS
<1>1. publisher = "earlier" => ack.links > 0
  BY DEF AckInit, NoFile
<1> QED BY <1>1 DEF AckInit, CInv, Reading, AcceptedBound

LEMMA PublishC == ASSUME CInv, Publisher PROVE CInv'
<1>1. publisher # "earlier" /\ publisher' # "earlier"
      /\ UNCHANGED <<clock, record, evidence, waiter_>>
  BY DEF Publisher, Create, Write, Sync, FailAckWrite, Link, Unlink, PublishAck
<1> QED BY <1>1 DEF CInv, AcceptedBound, waiter_

(* One step per step of the adapter.                                       *)
LEMMA WaiterC == ASSUME CInv, Waiter PROVE CInv'
<1> USE DEF CInv, AcceptedBound, Reading, GoTo, StopWait, UnreadAck, publisher_
<1>1. CASE StartWait
  BY <1>1 DEF StartWait, Exists
<1>2. CASE Loop \/ Sleep
  BY <1>2 DEF Loop, Sleep
<1>3. CASE Lstat
  BY <1>3 DEF Lstat
<1>4. CASE OpenAck
  BY <1>4 DEF OpenAck
<1>5. CASE ReadAck
  BY <1>5 DEF ReadAck
<1>6. CASE Final
  BY <1>6 DEF Final
<1>7. CASE Judge
  BY <1>7 DEF Judge, Ours
<1>8. CASE ReadEvidence
  BY <1>8 DEF ReadEvidence
<1>9. CASE Digest
  BY <1>9 DEF Digest
<1> QED BY <1>1, <1>2, <1>3, <1>4, <1>5, <1>6, <1>7, <1>8, <1>9 DEF Waiter

LEMMA NextC == CInv /\ [AckNext]_ack_vars => CInv'
<1> SUFFICES ASSUME CInv, [AckNext]_ack_vars PROVE CInv'
  OBVIOUS
<1>1. CASE Tick \/ Disturb \/ UNCHANGED ack_vars
  BY <1>1 DEF Tick, Disturb, ack_vars, CInv, AcceptedBound, publisher_, waiter_
<1> QED BY <1>1, PublishC, WaiterC DEF AckNext

(* What is accepted is a whole acknowledgement of this session, published  *)
(* after the wait began, though it was read while it was written.          *)
THEOREM AcceptedIsBound == AckSpec => []AcceptedBound
<1>1. CInv => AcceptedBound
  BY DEF CInv
<1> QED BY <1>1, InitC, NextC, PTL DEF AckSpec

LEMMA InitL == AckInit => LInv
<1> SUFFICES ASSUME AckInit PROVE LInv
  OBVIOUS
<1>1. publisher = "idle" => ack = NoFile
  BY DEF AckInit
<1> QED BY <1>1 DEF AckInit, LInv, Reading

(* Only a name that is free is linked, and while it is free nothing of it  *)
(* can have been read.                                                     *)
LEMMA PublishL == ASSUME LInv, Publisher PROVE LInv'
<1> USE DEF LInv, PublishAck, waiter_, Reading
<1>1. CASE Create \/ Write \/ Sync \/ FailAckWrite
  BY <1>1 DEF Create, Write, Sync, FailAckWrite
<1>2. CASE Link
  <2>1. ack' = [links |-> 2, size |-> RecordSize] /\ publisher = "idle" /\ publisher' = "linked"
        /\ UNCHANGED <<record, evidence, waiter_>>
    BY <1>2 DEF Link
  <2>2. ack'.links > 0 /\ ack'.size = RecordSize
    BY <2>1
  <2> QED BY <2>1, <2>2
<1>3. CASE Unlink
  <2>1. publisher = "linked" /\ publisher' = "unlinked" /\ ack' = [ack EXCEPT !.links = 1]
        /\ UNCHANGED <<record, evidence, waiter_>>
    BY <1>3 DEF Unlink
  <2> QED BY <2>1
<1> QED BY <1>1, <1>2, <1>3 DEF Publisher

(* One step per step of the adapter.                                       *)
LEMMA WaiterL == ASSUME LInv, Waiter PROVE LInv'
<1> USE DEF LInv, Reading, GoTo, StopWait, UnreadAck, publisher_
<1>1. CASE StartWait
  BY <1>1 DEF StartWait, Exists
<1>2. CASE Loop
  <2>1. publisher = "idle" => ~Exists
    BY DEF Exists, NoFile
  <2>2. UNCHANGED <<ack, publisher, record, evidence, before, chunks>>
    BY <1>2 DEF Loop
  <2>3. wait_pc' \in {"done", "lstat", "sleep"} /\ (publisher = "idle" => wait_pc' # "lstat")
    BY <1>2, <2>1 DEF Loop
  <2>4. ack_outcome' = ack_outcome \/ ack_outcome' = "timed out"
    BY <1>2 DEF Loop
  <2> QED BY <2>2, <2>3, <2>4
<1>10. CASE Sleep
  BY <1>10 DEF Sleep
<1>3. CASE Lstat
  BY <1>3 DEF Lstat
<1>4. CASE OpenAck
  BY <1>4 DEF OpenAck
<1>5. CASE ReadAck
  BY <1>5 DEF ReadAck, Exists
<1>6. CASE Final
  BY <1>6 DEF Final
<1>7. CASE Judge
  BY <1>7 DEF Judge, Ours
<1>8. CASE ReadEvidence
  BY <1>8 DEF ReadEvidence
<1>9. CASE Digest
  BY <1>9 DEF Digest
<1> QED BY <1>1, <1>2, <1>3, <1>4, <1>5, <1>6, <1>7, <1>8, <1>9, <1>10 DEF Waiter

LEMMA NextL == LInv /\ [AckNext]_ack_vars => LInv'
<1> SUFFICES ASSUME LInv, [AckNext]_ack_vars PROVE LInv'
  OBVIOUS
<1>1. CASE Tick \/ Disturb \/ UNCHANGED ack_vars
  BY <1>1 DEF Tick, Disturb, ack_vars, LInv, publisher_, waiter_
<1> QED BY <1>1, PublishL, WaiterL DEF AckNext

(* What is accepted is bound, and an acknowledgement that is published     *)
(* whole by a second link is never refused, when the reads meet it with    *)
(* one name, with two or with none.                                        *)
THEOREM AckAlwaysExact == AckSpec => []AckExact
<1>1. CInv /\ LInv => AckExact
  BY DEF CInv, LInv, AckExact, LinkedAckTaken
<1> QED BY <1>1, InitC, NextC, InitL, NextL, PTL DEF AckSpec

-----------------------------------------------------------------------------
(* The staged session.  A later reading is never of an earlier version, a  *)
(* header is read as it was for the configuration, and what was compared   *)
(* stays so: no name is read twice.                                        *)
Ordered ==
  /\ pc > 3 => seen["config_header"] \in 1..current["header"]
  /\ pc > 6 => /\ seen["stage_header"] \in 1..current["header"]
               /\ seen["config_header"] <= seen["stage_header"]
  /\ pc > 8 => /\ seen["header"] \in 1..current["header"]
               /\ seen["stage_header"] <= seen["header"]
Compared ==
  /\ pc > 5 => HostFits(seen["session"])
  /\ pc > 6 => Binds("header", seen["stage_header"])
  /\ pc > 8 => HeaderFits(seen["header"])
  /\ pc > 9 => ContractFits(seen["contract"])
  /\ pc > 10 => Binds("manifest", seen["stage_manifest"])
  /\ pc > 11 => ManifestFits(seen["manifest"])
  /\ pc > 13 => CertificateFits(seen["certificate"])
Client == IF pc = 0 THEN client # "open" ELSE outcome = "none"
SInv ==
  /\ current \in [Files -> Nat] /\ current["header"] \in 1..Versions
  /\ seen \in [ReadNames -> Nat] /\ pc \in 0..17
  /\ Ordered /\ Compared /\ Client

NameAt(i) == Reads[i].read
FileAt(i) == Reads[i].file
Indices == {1, 2, 3, 4, 5, 6, 7, 8, 9, 10, 11, 12, 13}

LEMMA LastIs == AllRead = 14
<1>1. Len(Reads) = 13
  BY DEF Reads
<1> QED BY <1>1 DEF AllRead

LEMMA IndicesAre == DOMAIN Reads = Indices
<1>1. DOMAIN Reads = 1..13
  BY DEF Reads
<1>2. 1..13 = Indices
  BY DEF Indices
<1> QED BY <1>1, <1>2

LEMMA NamesAt ==
  /\ NameAt(1) = "private" /\ NameAt(2) = "raw" /\ NameAt(3) = "config_header"
  /\ NameAt(4) = "binding" /\ NameAt(5) = "session" /\ NameAt(6) = "stage_header"
  /\ NameAt(7) = "stage_contract" /\ NameAt(8) = "header" /\ NameAt(9) = "contract"
  /\ NameAt(10) = "stage_manifest" /\ NameAt(11) = "manifest"
  /\ NameAt(12) = "stage_certificate" /\ NameAt(13) = "certificate"
<1>1. /\ NameAt(1) = "private" /\ NameAt(2) = "raw" /\ NameAt(3) = "config_header"
      /\ NameAt(4) = "binding" /\ NameAt(5) = "session" /\ NameAt(6) = "stage_header"
      /\ NameAt(7) = "stage_contract"
  BY DEF Reads, NameAt
<1>2. /\ NameAt(8) = "header" /\ NameAt(9) = "contract"
      /\ NameAt(10) = "stage_manifest" /\ NameAt(11) = "manifest"
      /\ NameAt(12) = "stage_certificate" /\ NameAt(13) = "certificate"
  BY DEF Reads, NameAt
<1> QED BY <1>1, <1>2

LEMMA FilesAt ==
  /\ FileAt(3) = "header" /\ FileAt(6) = "header" /\ FileAt(8) = "header"
  /\ \A i \in Indices : FileAt(i) \in Files
<1>1. FileAt(3) = "header" /\ FileAt(6) = "header" /\ FileAt(8) = "header"
  BY DEF Reads, FileAt
<1>2. /\ FileAt(1) \in Files /\ FileAt(2) \in Files /\ FileAt(3) \in Files
      /\ FileAt(4) \in Files /\ FileAt(5) \in Files /\ FileAt(6) \in Files
      /\ FileAt(7) \in Files
  BY DEF Reads, FileAt, Files, Staged
<1>3. /\ FileAt(8) \in Files /\ FileAt(9) \in Files /\ FileAt(10) \in Files
      /\ FileAt(11) \in Files /\ FileAt(12) \in Files /\ FileAt(13) \in Files
  BY DEF Reads, FileAt, Files, Staged
<1> QED BY <1>1, <1>2, <1>3 DEF Indices

LEMMA NamesRead == \A i \in Indices : NameAt(i) \in ReadNames
  BY IndicesAre DEF ReadNames, NameAt

LEMMA PathsDistinct == \A i, j \in Indices : i < j => NameAt(i) # NameAt(j)
<1> SUFFICES ASSUME NEW i \in Indices, NEW j \in Indices, i < j PROVE NameAt(i) # NameAt(j)
  OBVIOUS
<1>1. CASE i \in {1, 2, 3, 4}
  BY <1>1, NamesAt DEF Indices
<1>2. CASE i \in {5, 6, 7, 8}
  BY <1>2, NamesAt DEF Indices
<1>3. CASE i \in {9, 10, 11, 12, 13}
  BY <1>3, NamesAt DEF Indices
<1> QED BY <1>1, <1>2, <1>3 DEF Indices

LEMMA InitS == StagingInit => SInv
<1> SUFFICES ASSUME StagingInit PROVE SInv
  OBVIOUS
<1>1. current \in [Files -> Nat] /\ current["header"] \in 1..Versions
  BY StagingAssumption DEF StagingInit, Files, Staged
<1>2. seen \in [ReadNames -> Nat] /\ pc = 1 /\ outcome = "none"
  BY DEF StagingInit, Unread
<1>3. Ordered /\ Client
  BY <1>2 DEF Ordered, Client
<1>4. Compared
  BY <1>2 DEF Compared
<1> QED BY <1>1, <1>2, <1>3, <1>4 DEF SInv

(* A file is only ever replaced by a later version.                        *)
LEMMA ReplaceS == ASSUME SInv, NEW file \in Files, ReplaceFile(file) PROVE SInv'
<1>1. current' = [current EXCEPT ![file] = @ + 1] /\ current[file] < LastVersion(file)
      /\ UNCHANGED <<pc, seen, client, outcome>>
  BY DEF ReplaceFile
<1>2. current' \in [Files -> Nat]
  BY <1>1 DEF SInv
<1>3. current'["header"] \in 1..Versions /\ current["header"] <= current'["header"]
  BY <1>1, StagingAssumption DEF SInv, LastVersion, Files, Staged
<1>4. Compared'
  BY <1>1 DEF SInv, Compared, HostFits, Binds, HeaderFits, ContractFits, ManifestFits,
              CertificateFits, Session, Config
<1>5. Ordered'
  BY <1>1, <1>3, StagingAssumption DEF SInv, Ordered
<1> QED BY <1>1, <1>2, <1>3, <1>4, <1>5 DEF SInv, Client

LEMMA StopS ==
  ASSUME SInv, UNCHANGED <<current, seen>>, pc' = 0, client' # "open"
  PROVE  SInv'
<1>1. Ordered' /\ Client'
  BY DEF Ordered, Client
<1>2. Compared'
  BY DEF Compared
<1> QED BY <1>1, <1>2 DEF SInv

LEMMA StopIs == ASSUME NEW as, Stop(as) PROVE UNCHANGED <<current, seen>> /\ pc' = 0 /\ client' # "open"
  BY DEF Stop, Go

(* A reading that fits.  The names read before keep what they had.         *)
LEMMA FitsS ==
  ASSUME SInv, pc \in Indices, UNCHANGED <<current, client, outcome>>, pc' = pc + 1,
         Fits(NameAt(pc), current[FileAt(pc)]),
         current[FileAt(pc)] \in Nat,
         seen' = [seen EXCEPT ![NameAt(pc)] = current[FileAt(pc)]]
  PROVE  SInv'
<1> DEFINE v == current[FileAt(pc)]
           name == NameAt(pc)
<1>1. \A n \in ReadNames : seen'[n] = IF n = name THEN v ELSE seen[n]
  BY DEF SInv
<1>2. \A i \in Indices : i < pc => seen'[NameAt(i)] = seen[NameAt(i)]
  BY <1>1, PathsDistinct, NamesRead
<1>3. /\ pc > 1 => seen'["private"] = seen["private"]
      /\ pc > 2 => seen'["raw"] = seen["raw"]
      /\ pc > 3 => seen'["config_header"] = seen["config_header"]
      /\ pc > 5 => seen'["session"] = seen["session"]
      /\ pc > 6 => seen'["stage_header"] = seen["stage_header"]
      /\ pc > 8 => seen'["header"] = seen["header"]
      /\ pc > 9 => seen'["contract"] = seen["contract"]
      /\ pc > 10 => seen'["stage_manifest"] = seen["stage_manifest"]
      /\ pc > 11 => seen'["manifest"] = seen["manifest"]
  BY <1>2, NamesAt DEF Indices
<1>4. /\ pc = 3 => seen'["config_header"] = current["header"]
      /\ pc = 6 => seen'["stage_header"] = current["header"]
      /\ pc = 8 => seen'["header"] = current["header"]
      /\ pc = 5 => seen'["session"] = v
      /\ pc = 9 => seen'["contract"] = v
      /\ pc = 10 => seen'["stage_manifest"] = v
      /\ pc = 11 => seen'["manifest"] = v
      /\ pc = 13 => seen'["certificate"] = v
  <2>1. seen'[name] = v
    BY <1>1, NamesRead
  <2> QED BY <2>1, NamesAt, FilesAt
<1> HIDE DEF v, name
<1>5. Ordered'
  BY <1>3, <1>4, StagingAssumption DEF SInv, Ordered, Indices
<1>6. /\ pc = 5 => HostFits(v)
      /\ pc = 6 => Binds("header", v)
      /\ pc = 8 => HeaderFits(v)
      /\ pc = 9 => ContractFits(v)
      /\ pc = 10 => Binds("manifest", v)
      /\ pc = 11 => ManifestFits(v)
      /\ pc = 13 => CertificateFits(v)
  BY NamesAt DEF Fits, v
<1>7. pc = 6 => v = current["header"]
  BY FilesAt DEF v
<1>8. /\ pc > 5 => Session' = Session
      /\ pc > 3 => Config' = Config
  BY <1>3 DEF Session, Config, Indices
<1>9. /\ pc' > 5 => HostFits(seen["session"])'
      /\ pc' > 6 => Binds("header", seen["stage_header"])'
      /\ pc' > 8 => HeaderFits(seen["header"])'
  <2>1. pc' > 5 => HostFits(seen["session"])'
    BY <1>3, <1>4, <1>6, <1>8 DEF SInv, Compared, Indices, HostFits
  <2>2. pc' > 6 => Binds("header", seen["stage_header"])'
    BY <1>3, <1>4, <1>6, <1>7, <1>8 DEF SInv, Compared, Indices, Binds
  <2>3. pc' > 8 => HeaderFits(seen["header"])'
    <3>1. pc = 8 => v = current["header"]
      BY FilesAt DEF v
    <3> QED BY <1>3, <1>4, <1>6, <1>8, <3>1 DEF SInv, Compared, Indices, HeaderFits
  <2> QED BY <2>1, <2>2, <2>3
<1>10. /\ pc' > 9 => ContractFits(seen["contract"])'
       /\ pc' > 10 => Binds("manifest", seen["stage_manifest"])'
       /\ pc' > 11 => ManifestFits(seen["manifest"])'
       /\ pc' > 13 => CertificateFits(seen["certificate"])'
  BY <1>3, <1>4, <1>6, <1>8 DEF SInv, Compared, Indices, ContractFits, Binds, ManifestFits, CertificateFits
<1>11. seen' \in [ReadNames -> Nat] /\ pc' \in 0..17
  <2>1. seen' \in [ReadNames -> Nat]
    BY DEF SInv
  <2>2. pc' \in 0..17
    BY DEF Indices
  <2> QED BY <2>1, <2>2
<1>12. Client'
  BY DEF SInv, Client, Indices
<1> QED BY <1>5, <1>9, <1>10, <1>11, <1>12 DEF SInv, Compared

LEMMA AdapterS == ASSUME SInv, Adapter PROVE SInv'
<1>1. CASE Read
  <2>1. pc \in Indices /\ FileAt(pc) \in Files
    BY <1>1, IndicesAre, FilesAt DEF Read
  <2>2. CASE Fits(NameAt(pc), current[FileAt(pc)])
    <3>1. /\ UNCHANGED <<current, client, outcome>> /\ pc' = pc + 1
          /\ seen' = [seen EXCEPT ![NameAt(pc)] = current[FileAt(pc)]]
      BY <1>1, <2>2 DEF Read, Go, NameAt, FileAt
    <3>2. current[FileAt(pc)] \in Nat
      BY <2>1 DEF SInv
    <3> QED BY <2>1, <2>2, <3>1, <3>2, FitsS
  <2>3. CASE ~Fits(NameAt(pc), current[FileAt(pc)])
    <3>1. Stop("refused")
      BY <1>1, <2>3 DEF Read, NameAt, FileAt
    <3> QED BY <3>1, StopIs, StopS
  <2> QED BY <2>2, <2>3
<1>2. CASE Outputs \/ ConnectBroker \/ RunCases \/ CompleteV2
  <2>1. CASE Stop("refused")
    BY <2>1, StopIs, StopS
  <2>2. CASE ~Stop("refused")
    <3>1. /\ UNCHANGED <<current, seen, outcome>> /\ pc >= AllRead
          /\ pc' \in {AllRead + 1, AllRead + 2, AllRead + 3}
      BY <1>2, <2>2, LastIs DEF Outputs, ConnectBroker, RunCases, CompleteV2, Go
    <3>2. Compared'
      BY <3>1, LastIs DEF SInv, Compared, HostFits, Binds, HeaderFits, ContractFits, ManifestFits,
                  CertificateFits, Session, Config
    <3> QED BY <3>1, <3>2, LastIs DEF SInv, Ordered, Client
  <2> QED BY <2>1, <2>2
<1> QED BY <1>1, <1>2 DEF Adapter

LEMMA NextS == SInv /\ [StagingNext]_staging_vars => SInv'
<1> SUFFICES ASSUME SInv, [StagingNext]_staging_vars PROVE SInv'
  OBVIOUS
<1>1. CASE Occupy \/ UNCHANGED staging_vars
  BY <1>1 DEF Occupy, staging_vars, SInv, Ordered, Compared, Client, HostFits, Binds, HeaderFits,
              ContractFits, ManifestFits, CertificateFits, Session, Config
<1> QED BY <1>1, AdapterS, ReplaceS DEF StagingNext

(* What is used is what the session binds, whatever is replaced between    *)
(* two readings, if no two versions of the header are alike: then the      *)
(* header that the configuration was made of, an early reading, is the one *)
(* whose digest the session gives, because a later one differs from it.    *)
HeadersDiffer ==
  \A v, w \in 1..Versions :
    Headers[v].provenance = Headers[w].provenance /\ Headers[v].manifest = Headers[w].manifest => v = w

LEMMA OneHeader ==
  ASSUME SInv, HeadersDiffer, Admitted
  PROVE  seen["config_header"] = Session.header /\ seen["header"] = Session.header
<1>1. pc > 8
  BY LastIs DEF Admitted, SInv
<1>2. seen["config_header"] \in 1..Versions /\ seen["stage_header"] \in 1..Versions
      /\ seen["header"] \in 1..Versions
  BY <1>1, StagingAssumption DEF SInv, Ordered
<1>3. seen["header"] = seen["config_header"]
  BY <1>1, <1>2 DEF SInv, Compared, HeaderFits, Config, HeadersDiffer
<1>4. seen["stage_header"] = seen["header"]
  BY <1>1, <1>2, <1>3 DEF SInv, Ordered
<1> QED BY <1>1, <1>3, <1>4 DEF SInv, Compared, Binds

THEOREM StagingAlwaysBound == ASSUME HeadersDiffer PROVE StagingSpec => []StagingBound
<1>1. SInv => StagingBound
  <2> SUFFICES ASSUME SInv PROVE StagingBound
    OBVIOUS
  <2>1. Admitted => pc > 13
    BY LastIs DEF Admitted, SInv
  <2>2. UsedIsBound
    BY <2>1, OneHeader DEF UsedIsBound, SInv, Compared, ContractFits, ManifestFits, CertificateFits, Binds
  <2>3. OneConfiguration
    <3> SUFFICES ASSUME Admitted
                 PROVE  Config.host = Session.host /\ Config.manifest = Session.manifest
      BY DEF OneConfiguration
    <3>1. HostFits(seen["session"]) /\ ManifestFits(seen["manifest"])
          /\ Binds("manifest", seen["stage_manifest"])
      BY <2>1 DEF SInv, Compared
    <3>2. seen["config_header"] = seen["header"]
      BY OneHeader
    <3>3. Config.host = Session.host
      BY <3>1 DEF HostFits, Session
    <3>4. Config.manifest = Headers[seen["header"]].manifest
      BY <3>2 DEF Config
    <3> QED BY <3>1, <3>3, <3>4 DEF ManifestFits, Binds
  <2>4. NothingOpen
    BY DEF NothingOpen, SInv, Client
  <2> QED BY <2>2, <2>3, <2>4 DEF StagingBound
<1> QED BY <1>1, InitS, NextS, PTL DEF StagingSpec

-----------------------------------------------------------------------------
(* The developer bundle                                                    *)
USE BundleAssumption

BuilderType ==
  /\ repository \in Images
  /\ builder \in [pc : {"idle", "read", "write", "writing", "replace", "sum", "summing",
                        "verify", "done"},
                  payload : Images, bytes : Images \cup {None, Torn}]
  /\ temporary \in Images \cup {None, Torn}
  /\ checksum \in Images \cup {None, Torn}

(* The way of a payload to the archive and its checksum: what is renamed   *)
(* is the whole payload, its digest is that of the archive from then on,   *)
(* and only a build that has ended is one that succeeded.                  *)
Way ==
  /\ archive \in Images \cup {None}
  /\ builder.pc = "replace" => temporary = builder.payload
  /\ builder.pc \in {"sum", "summing"} => archive \in Images /\ builder.bytes = archive
  /\ builder.pc = "verify" => archive \in Images /\ checksum = archive
  /\ succeeded \in BOOLEAN
  /\ succeeded => builder.pc = "done" /\ archive \in Images /\ checksum = archive

DInv == BuilderType /\ Way

LEMMA EmptyD == [first |-> 0, second |-> 0] \in Images
  BY DEF Images

LEMMA InitD == BundleInit => DInv
<1> SUFFICES ASSUME BundleInit PROVE DInv
  OBVIOUS
<1>1. /\ builder = [pc |-> "idle", payload |-> [first |-> 0, second |-> 0], bytes |-> None]
      /\ repository = [first |-> 0, second |-> 0]
      /\ archive = None /\ checksum = None /\ temporary = None /\ succeeded = FALSE
  BY DEF BundleInit, Idle
<1>2. BuilderType
  BY <1>1, EmptyD DEF BuilderType
<1>3. Way
  BY <1>1 DEF Way
<1> QED BY <1>2, <1>3 DEF DInv

(* An edit keeps the repository's two files within the bound; no edit and  *)
(* no extraction touches what a build has written.                         *)
LEMMA EditD == ASSUME DInv, Edit PROVE DInv'
<1>1. repository' \in Images
  BY DEF DInv, BuilderType, Edit, Images
<1> QED BY <1>1 DEF DInv, BuilderType, Way, Edit, outputs, builds_

(* One step per step of a build.                                           *)
LEMMA BuildD == ASSUME DInv, Build PROVE DInv'
<1> USE DEF DInv, BuilderType, Way, Elsewhere, Step, outputs
<1>1. CASE StartBuild
  <2>1. /\ builder' = [pc |-> "read", bytes |-> None,
                       payload |-> [first |-> repository.first, second |-> 0]]
        /\ UNCHANGED <<repository, archive, checksum, temporary>>
        /\ succeeded' = FALSE
    BY <1>1 DEF StartBuild, Idle
  <2>2. [first |-> repository.first, second |-> 0] \in Images
    BY DEF Images
  <2> QED BY <2>1, <2>2
<1>2. CASE ReadRest
  BY <1>2 DEF ReadRest, Images
<1>3. CASE BeginWrite \/ EndWrite \/ FailWrite
  BY <1>3 DEF BeginWrite, EndWrite, FailWrite
<1>4. CASE Replace
  BY <1>4 DEF Replace, BytesRead
<1>5. CASE BeginSum \/ EndSum
  BY <1>5 DEF BeginSum, EndSum
<1>6. CASE EndBuild
  BY <1>6 DEF EndBuild, Whole
<1> QED BY <1>1, <1>2, <1>3, <1>4, <1>5, <1>6 DEF Build

LEMMA KillD == ASSUME DInv, KillBuild PROVE DInv'
  BY DEF DInv, BuilderType, Way, KillBuild, Idle, Images, outputs

LEMMA ExtractorD ==
  ASSUME DInv, NEW x \in Extractors, Extract(x) \/ KillExtractor(x) PROVE DInv'
<1>1. UNCHANGED <<repository, outputs, builds_>>
  BY DEF Extract, KillExtractor, Open, CheckTarget, WriteMember, FailMember, Publish, Move, Alone
<1> QED BY <1>1 DEF DInv, BuilderType, Way, outputs, builds_

LEMMA NextD == DInv /\ [BundleNext]_bundle_vars => DInv'
<1> SUFFICES ASSUME DInv, [BundleNext]_bundle_vars PROVE DInv'
  OBVIOUS
<1>1. CASE UNCHANGED bundle_vars
  BY <1>1 DEF DInv, BuilderType, Way, bundle_vars, outputs, builds_
<1> QED BY <1>1, EditD, BuildD, KillD, ExtractorD DEF BundleNext

(* The archive of a successful build is whole and the adjacent checksum is *)
(* its own, and a torn file never has the archive's name: whatever was     *)
(* edited, killed or extracted before and since.                           *)
THEOREM SuccessAlwaysBinds == BundleSpec => []SuccessBinds
<1>1. DInv => SuccessBinds
  BY DEF DInv, Way, SuccessBinds, Whole
<1> QED BY <1>1, InitD, NextD, PTL DEF BundleSpec

-----------------------------------------------------------------------------
(* The directories.  An extractor works on one whole image, owns a         *)
(* directory only between its test of the target and its end, and gives    *)
(* the target every member that it wrote.                                  *)
Extraction ==
  /\ target = None \/ target \in Images
  /\ extractor \in [Extractors ->
       [pc : {"idle", "check", "extract", "done", "failed", "killed"},
        image : Images \cup {None, Torn}, written : SUBSET {"first", "second"},
        directory : BOOLEAN]]
  /\ \A x \in Extractors :
       /\ extractor[x].pc \in {"check", "extract"} => extractor[x].image \in Images
       /\ extractor[x].pc \in {"idle", "check", "done", "failed"} => ~extractor[x].directory

LEMMA InitE == BundleInit => Extraction
  BY DEF BundleInit, Extraction, Waiting

(* All members of an image make that image.                                *)
LEMMA WholeImage ==
  ASSUME NEW image \in Images
  PROVE  [m \in {"first", "second"} |-> image[m]] = image
  BY DEF Images

(* One step per step of an extractor; the others keep what they have.      *)
LEMMA ExtractE ==
  ASSUME DInv, Extraction, NEW x \in Extractors, Extract(x) \/ KillExtractor(x)
  PROVE  Extraction'
<1> USE DEF Extraction
<1>0. archive \in Images \cup {None}
  BY DEF DInv, Way
<1>1. CASE Open(x)
  BY <1>0, <1>1 DEF Open, Whole
<1>2. CASE CheckTarget(x)
  <2> DEFINE free == target = None
  <2>1. PICK to \in {"extract", "failed"} :
          /\ to = "failed" => ~free
          /\ extractor' = [extractor EXCEPT ![x].pc = to, ![x].directory = free]
    BY <1>2 DEF CheckTarget
  <2>2. free \in BOOLEAN /\ extractor[x].pc = "check" /\ UNCHANGED target
    BY <1>2 DEF CheckTarget
  <2> HIDE DEF free
  <2>3. extractor' \in [Extractors ->
          [pc : {"idle", "check", "extract", "done", "failed", "killed"},
           image : Images \cup {None, Torn}, written : SUBSET {"first", "second"}, directory : BOOLEAN]]
    <3> DEFINE T == [pc : {"idle", "check", "extract", "done", "failed", "killed"},
                     image : Images \cup {None, Torn}, written : SUBSET {"first", "second"},
                     directory : BOOLEAN]
    <3>1. extractor \in [Extractors -> T] /\ extractor[x] \in T
      OBVIOUS
    <3>2. to \in {"idle", "check", "extract", "done", "failed", "killed"}
      BY ONLY <2>1
    <3>3. [extractor[x] EXCEPT !.pc = to, !.directory = free] \in T
      BY ONLY <2>2, <3>1, <3>2
    <3> HIDE DEF T
    <3>4. extractor' \in [Extractors -> T]
      BY ONLY <2>1, <3>1, <3>3
    <3> QED BY ONLY <3>4 DEF T
  <2>4. ASSUME NEW y \in Extractors
        PROVE  /\ extractor'[y].pc \in {"check", "extract"} => extractor'[y].image \in Images
               /\ extractor'[y].pc \in {"idle", "check", "done", "failed"} => ~extractor'[y].directory
    <3>1. CASE y = x
      <4>1. extractor'[y].pc = to /\ extractor'[y].image = extractor[x].image /\ extractor'[y].directory = free
        BY <2>1, <3>1
      <4>2. to \in {"extract", "failed"}
        BY ONLY <2>1
      <4>3. to = "failed" => ~free
        BY ONLY <2>1, Zenon
      <4> QED
        BY <2>2, <4>1, <4>2, <4>3
    <3>2. CASE y # x
      BY <2>1, <3>2
    <3> QED BY <3>1, <3>2
  <2> QED BY <2>2, <2>3, <2>4
<1>3. CASE WriteMember(x) \/ FailMember(x)
  BY <1>3 DEF WriteMember, FailMember
<1>4. CASE Publish(x)
  <2>1. extractor[x].image \in Images /\ extractor[x].written = {"first", "second"}
    BY <1>4 DEF Publish, Verified
  <2>2. target' = None \/ target' \in Images
    BY <1>4, <2>1, WholeImage DEF Publish, TargetFree
  <2>3. \/ extractor' = [extractor EXCEPT ![x].pc = "done", ![x].directory = FALSE]
        \/ extractor' = [extractor EXCEPT ![x].pc = "failed", ![x].directory = FALSE]
    BY <1>4 DEF Publish
  <2> QED BY <2>2, <2>3
<1>5. CASE KillExtractor(x)
  BY <1>5 DEF KillExtractor
<1> QED BY <1>1, <1>2, <1>3, <1>4, <1>5 DEF Extract

LEMMA NextE == DInv /\ Extraction /\ [BundleNext]_bundle_vars => Extraction'
<1> SUFFICES ASSUME DInv, Extraction, [BundleNext]_bundle_vars PROVE Extraction'
  OBVIOUS
<1>1. CASE UNCHANGED bundle_vars
  BY <1>1 DEF Extraction, bundle_vars
<1>2. CASE Edit \/ Build \/ KillBuild
  <2>1. UNCHANGED <<extractor, target>>
    BY <1>2 DEF Edit, Build, KillBuild, Elsewhere, StartBuild, ReadRest, BeginWrite, EndWrite,
                FailWrite, Replace, BeginSum, EndSum, EndBuild
  <2> QED BY <2>1 DEF Extraction
<1> QED BY <1>1, <1>2, ExtractE DEF BundleNext

(* What an extraction returned is there for good: no later one takes the   *)
(* target's place, and no image changes once it is read.                   *)
Kept ==
  \A x \in Extractors : extractor[x].pc = "done" => target # None /\ target = extractor[x].image

LEMMA InitKept == BundleInit => Kept
  BY DEF BundleInit, Kept, Waiting

LEMMA PublishKept ==
  ASSUME Extraction, Kept, NEW x \in Extractors, Publish(x) PROVE Kept'
<1>1. extractor[x].image \in Images /\ extractor[x].written = {"first", "second"}
  BY DEF Publish, Verified, Extraction
<1>2. CASE target = None
  <2>1. /\ target' = extractor[x].image
        /\ extractor' = [extractor EXCEPT ![x].pc = "done", ![x].directory = FALSE]
    BY <1>1, <1>2, WholeImage DEF Publish, TargetFree
  <2>2. \A y \in Extractors : extractor[y].pc # "done"
    BY <1>2 DEF Kept
  <2>3. \A y \in Extractors : y # x => extractor'[y] = extractor[y]
    BY <2>1 DEF Extraction
  <2>4. extractor'[x].image = extractor[x].image
    BY <2>1 DEF Extraction
  <2> QED BY <1>1, <2>1, <2>2, <2>3, <2>4 DEF Kept
<1>3. CASE target # None
  BY <1>3 DEF Publish, TargetFree, Kept, Extraction
<1> QED BY <1>2, <1>3

LEMMA NextKept == Extraction /\ Kept /\ [BundleNext]_bundle_vars => Kept'
<1> SUFFICES ASSUME Extraction, Kept, [BundleNext]_bundle_vars PROVE Kept'
  OBVIOUS
<1>1. CASE UNCHANGED bundle_vars
  BY <1>1 DEF Kept, bundle_vars
<1>2. CASE Edit \/ Build \/ KillBuild
  <2>1. UNCHANGED <<extractor, target>>
    BY <1>2 DEF Edit, Build, KillBuild, Elsewhere, StartBuild, ReadRest, BeginWrite, EndWrite,
                FailWrite, Replace, BeginSum, EndSum, EndBuild
  <2> QED BY <2>1 DEF Kept
<1>3. ASSUME NEW x \in Extractors, Extract(x) \/ KillExtractor(x) PROVE Kept'
  <2>1. CASE Publish(x)
    BY <2>1, PublishKept
  <2>2. CASE Open(x) \/ CheckTarget(x) \/ WriteMember(x) \/ FailMember(x) \/ KillExtractor(x)
    <3>1. /\ target' = target
          /\ \A y \in Extractors : extractor'[y].pc = "done" =>
               extractor[y].pc = "done" /\ extractor'[y].image = extractor[y].image
      BY <2>2 DEF Open, CheckTarget, WriteMember, FailMember, KillExtractor, Extraction
    <3> QED BY <3>1 DEF Kept
  <2> QED BY <1>3, <2>1, <2>2 DEF Extract
<1> QED BY <1>1, <1>2, <1>3 DEF BundleNext

(* Whatever is built, edited, killed and extracted at once: the pair of a  *)
(* successful build is bound, the extracted directory is one whole         *)
(* archive, the one that every extraction which returned it was given, and *)
(* an extractor that was not killed has left nothing else.                 *)
THEOREM FilesAlwaysWhole == BundleSpec => []BundleFiles
<1>1. DInv /\ Extraction /\ Kept => BundleFiles
  BY DEF DInv, Way, Extraction, Kept, BundleFiles, SuccessBinds, TargetWhole, NothingLeft, Whole
<1> QED BY <1>1, InitD, NextD, InitE, NextE, InitKept, NextKept, PTL DEF BundleSpec

-----------------------------------------------------------------------------
(* A nonempty set of positions has a first, and a bounded one a last.      *)
LEMMA MinOf ==
  ASSUME NEW S \in SUBSET Nat, S # {}
  PROVE  Min(S) \in S /\ \A i \in S : Min(S) <= i
<1>1. \E x \in S : \A y \in S : ~(<<y, x>> \in OpToRel(<, Nat))
  BY NatLessThanWellFounded, WFMin
<1>2. \A x, y \in Nat : <<y, x>> \in OpToRel(<, Nat) <=> y < x
  BY DEF OpToRel
<1>3. \E x \in S : \A y \in S : ~(y < x)
  <2>1. \A x \in S : x \in Nat
    OBVIOUS
  <2> QED BY <1>1, <1>2, <2>1, Zenon
<1>4. \E x \in S : \A y \in S : x <= y
  BY ONLY <1>3, S \in SUBSET Nat
<1> QED
  BY ONLY <1>4 DEF Min

LEMMA MaxIs ==
  ASSUME NEW S \in SUBSET Nat, NEW x \in S, \A y \in S : y <= x
  PROVE  Max(S) = x
<1>1. \E z \in S : \A y \in S : z >= y
  OBVIOUS
<1>2. Max(S) \in S /\ \A y \in S : Max(S) >= y
  BY ONLY <1>1 DEF Max
<1> DEFINE m == Max(S)
<1>3. m \in S /\ m >= x
  BY <1>2
<1> HIDE DEF m
<1>4. m \in Nat /\ x \in Nat /\ m <= x
  BY <1>3
<1>5. m = x
  BY <1>3, <1>4
<1> QED
  BY <1>5 DEF m

LEMMA MaxOf ==
  ASSUME NEW S \in SUBSET Nat, S # {}, NEW n \in Nat, \A i \in S : i <= n
  PROVE  Max(S) \in S /\ \A i \in S : i <= Max(S)
<1> DEFINE T == {k \in Nat : n - k \in S}
<1>1. T \in SUBSET Nat /\ T # {}
  <2>1. PICK i \in S : i <= n
    OBVIOUS
  <2>2. n - i \in Nat /\ n - (n - i) = i
    BY <2>1
  <2>3. n - i \in T
    BY <2>2
  <2> QED
    BY <2>3
<1>2. Min(T) \in T /\ \A k \in T : Min(T) <= k
  BY <1>1, MinOf
<1>3. \A i \in S : n - i \in T
  OBVIOUS
<1>4. n - Min(T) \in S /\ \A i \in S : i <= n - Min(T)
  <2>1. Min(T) \in Nat
    BY <1>2
  <2>2. n - Min(T) \in S
    BY <1>2
  <2>3. \A i \in S : Min(T) <= n - i
    BY <1>2, <1>3
  <2> QED
    BY <2>1, <2>2, <2>3
<1>5. Max(S) = n - Min(T)
  <2> HIDE DEF T
  <2> QED
    BY <1>4, MaxIs
<1> QED
  BY <1>4, <1>5

(* The checks of an admission: accepted when all hold, otherwise the label *)
(* of the first that fails.                                                *)
LEMMA ErrorFails ==
  ASSUME NEW checks, NEW n \in Nat, DOMAIN checks = 1..n
  PROVE  \/ FirstError(checks) = "accepted" /\ \A i \in 1..n : ~checks[i][2]
         \/ \E i \in 1..n :
              /\ checks[i][2] /\ checks[i][1] = FirstError(checks)
              /\ \A j \in 1..i - 1 : ~checks[j][2]
<1> DEFINE failing == {i \in DOMAIN checks : checks[i][2]}
           first == Min(failing)
<1>1. CASE failing = {}
  BY <1>1 DEF FirstError
<1>2. CASE failing # {}
  <2>1. failing \in SUBSET Nat
    OBVIOUS
  <2>2. first \in failing /\ \A i \in failing : first <= i
    BY <1>2, <2>1, MinOf
  <2>3. first \in 1..n /\ checks[first][2] /\ \A j \in 1..n : checks[j][2] => first <= j
    BY <2>2
  <2>4. FirstError(checks) = checks[first][1]
    BY <1>2 DEF FirstError
  <2> HIDE DEF failing, first
  <2>5. \A j \in 1..first - 1 : ~checks[j][2]
    BY <2>3
  <2> QED
    BY <2>3, <2>4, <2>5
<1> QED
  BY <1>1, <1>2

-----------------------------------------------------------------------------
(* What the controller's log is like: the Hub runs or is stopped, it is    *)
(* started behind a stop alone, and a start names the row before it and    *)
(* the stop between; generations and stores never go back.                 *)
Rows == [operation : {"start", "verify", "stop"}, running : BOOLEAN, generation : Nat, store : Nat,
         origin : Nat, stopped : Nat]
LogTyped ==
  /\ log \in Seq(Rows) /\ Len(log) \in 1..MaxSequence
  /\ generation \in Nat /\ latest \in Nat \ {0} /\ store \in Nat
LogFollows ==
  /\ \A n \in 1..Len(log) : log[n].running <=> log[n].operation # "stop"
  /\ log[1].operation = "start" /\ log[1].stopped = 0
  /\ \A n \in 2..Len(log) :
       IF log[n].operation = "start"
       THEN log[n - 1].operation = "stop" /\ log[n].origin = n - 2 /\ log[n].stopped = n - 1
       ELSE log[n - 1].operation # "stop"
LogAscends ==
  /\ \A m, n \in 1..Len(log) : m < n =>
       /\ log[m].generation <= log[n].generation /\ log[m].store <= log[n].store
       /\ log[n].operation = "start" => log[m].generation < log[n].generation
LogEnds ==
  /\ \A n \in 1..Len(log) : log[n].generation <= latest /\ log[n].store <= store
  /\ generation \in {0, latest}
  /\ generation = 0 <=> log[Len(log)].operation = "stop"
LogInv == LogTyped /\ LogFollows /\ LogAscends /\ LogEnds

LEMMA LogStart == AdmissionInit => LogInv
<1> SUFFICES ASSUME AdmissionInit PROVE LogInv
  OBVIOUS
<1> DEFINE r == [operation |-> "start", running |-> TRUE, generation |-> 1, store |-> 1,
                 origin |-> 0, stopped |-> 0]
<1>1. r \in Rows /\ r.operation = "start" /\ r.running /\ r.generation = 1 /\ r.store = 1 /\ r.stopped = 0
  BY DEF Rows
<1>2. log = <<r>> /\ generation = 1 /\ latest = 1 /\ store = 1
  BY DEF AdmissionInit
<1> HIDE DEF r
<1>3. log \in Seq(Rows) /\ Len(log) = 1 /\ log[1] = r
  BY <1>1, <1>2
<1> QED
  BY <1>1, <1>2, <1>3, CaseAssumption DEF LogInv, LogTyped, LogFollows, LogAscends, LogEnds

(* One row more.                                                           *)
LEMMA LogGrows ==
  ASSUME LogInv, NEW r \in Rows, log' = Append(log, r), Len(log) < MaxSequence,
         r.running <=> r.operation # "stop",
         IF r.operation = "start"
         THEN /\ log[Len(log)].operation = "stop"
              /\ r.origin = Len(log) - 1 /\ r.stopped = Len(log)
         ELSE log[Len(log)].operation # "stop",
         r.generation = IF r.operation = "start" THEN latest + 1 ELSE latest,
         latest' = r.generation, r.store >= store, store' = r.store,
         generation' = IF r.operation = "stop" THEN 0 ELSE latest'
  PROVE  LogInv'
<1> DEFINE n == Len(log)
<1>0. /\ log \in Seq(Rows) /\ n \in Nat /\ n >= 1 /\ latest \in Nat \ {0} /\ store \in Nat
      /\ MaxSequence \in Nat /\ r.generation \in Nat /\ r.store \in Nat
  BY CaseAssumption DEF LogInv, LogTyped, Rows
<1>1. /\ log' \in Seq(Rows) /\ Len(log') = n + 1 /\ log'[n + 1] = r
      /\ \A k \in 1..n : log'[k] = log[k]
  BY <1>0
<1> HIDE DEF n
<1>2. LogTyped'
  BY <1>0, <1>1 DEF n, LogTyped
<1>3. \A k \in 1..n + 1 : k \in 1..n \/ k = n + 1
  BY <1>0
<1>4. LogFollows'
  <2>1. \A k \in 1..n + 1 : log'[k].running <=> log'[k].operation # "stop"
    BY <1>1, <1>3 DEF LogInv, LogFollows, n
  <2>2. log'[1].operation = "start" /\ log'[1].stopped = 0
    BY <1>0, <1>1 DEF LogInv, LogFollows
  <2>3. ASSUME NEW k \in 2..n + 1
        PROVE  IF log'[k].operation = "start"
               THEN log'[k - 1].operation = "stop" /\ log'[k].origin = k - 2 /\ log'[k].stopped = k - 1
               ELSE log'[k - 1].operation # "stop"
    <3>1. CASE k \in 2..n
      <4>1. log'[k] = log[k] /\ log'[k - 1] = log[k - 1]
        BY <1>0, <1>1, <3>1
      <4> QED
        BY <3>1, <4>1 DEF LogInv, LogFollows, n
    <3>2. CASE k = n + 1
      <4>1. log'[k] = r /\ log'[k - 1] = log[n]
        BY <1>0, <1>1, <3>2
      <4>2. k - 1 = n /\ k - 2 = n - 1
        BY <1>0, <3>2
      <4> QED
        BY <4>1, <4>2 DEF n
    <3>3. k \in 2..n \/ k = n + 1
      BY <1>0
    <3> QED
      BY <3>1, <3>2, <3>3
  <2> QED
    BY <1>1, <2>1, <2>2, <2>3 DEF LogFollows
<1>5. \A k \in 1..n : /\ log[k].generation \in Nat /\ log[k].store \in Nat
                      /\ log[k].generation <= latest /\ log[k].store <= store
  <2>1. \A k \in 1..n : log[k] \in Rows
    BY <1>0 DEF n
  <2>2. \A k \in 1..n : log[k].generation <= latest /\ log[k].store <= store
    BY DEF LogInv, LogEnds, n
  <2> QED
    BY <2>1, <2>2 DEF Rows
<1>6. LogAscends'
  <2> SUFFICES ASSUME NEW i \in 1..n + 1, NEW k \in 1..n + 1, i < k
               PROVE  /\ log'[i].generation <= log'[k].generation /\ log'[i].store <= log'[k].store
                      /\ log'[k].operation = "start" => log'[i].generation < log'[k].generation
    BY <1>1 DEF LogAscends
  <2>1. i \in 1..n /\ log'[i] = log[i]
    BY <1>0, <1>1
  <2>2. CASE k \in 1..n
    BY <1>1, <2>1, <2>2 DEF LogInv, LogAscends, n
  <2>3. CASE k = n + 1
    BY <1>0, <1>1, <1>5, <2>1, <2>3
  <2> QED
    BY <1>3, <2>2, <2>3
<1>7. LogEnds'
  <2>1. \A k \in 1..n + 1 : log'[k].generation <= latest' /\ log'[k].store <= store'
    BY <1>0, <1>1, <1>3, <1>5
  <2>2. generation' \in {0, latest'} /\ latest' # 0
    BY <1>0
  <2>3. generation' = 0 <=> log'[n + 1].operation = "stop"
    BY <1>1, <2>2
  <2> QED
    BY <1>1, <2>1, <2>2, <2>3 DEF LogEnds
<1> QED
  BY <1>2, <1>4, <1>6, <1>7 DEF LogInv

(* Of a stopped Hub the last row is its stop and the one before it is of   *)
(* the Hub that ran.                                                       *)
LEMMA LastRows ==
  ASSUME LogInv, generation = 0
  PROVE  /\ Len(log) >= 2 /\ log[Len(log)].operation = "stop"
         /\ Max(Running) = Len(log) - 1 /\ Max(Stopped) = Len(log)
<1> DEFINE n == Len(log)
<1>1. n \in Nat /\ n >= 1 /\ DOMAIN log = 1..n /\ log[n].operation = "stop" /\ log[1].operation = "start"
  BY CaseAssumption DEF LogInv, LogTyped, LogFollows, LogEnds
<1>2. n # 1
  BY <1>1
<1>3. n \in 2..n /\ n - 1 \in 1..n
  BY <1>1, <1>2
<1>4. log[n - 1].operation # "stop"
  BY <1>1, <1>3 DEF LogInv, LogFollows
<1>5. \A k \in 1..n : log[k].running <=> log[k].operation # "stop"
  BY DEF LogInv, LogFollows
<1> HIDE DEF n
<1>6. /\ Running \in SUBSET Nat /\ n - 1 \in Running /\ \A k \in Running : k <= n - 1
  <2>1. \A k \in Running : k \in 1..n /\ k # n
    BY <1>1, <1>5 DEF Running
  <2> QED
    BY <1>1, <1>3, <1>4, <1>5, <2>1 DEF Running
<1>7. /\ Stopped \in SUBSET Nat /\ n \in Stopped /\ \A k \in Stopped : k <= n
  BY <1>1, <1>3 DEF Stopped
<1> QED
  BY <1>1, <1>3, <1>6, <1>7, MaxIs DEF n

LEMMA LogNext ==
  ASSUME LogInv, [AdmissionNext]_admission_vars
  PROVE  LogInv'
<1>0. /\ log \in Seq(Rows) /\ Len(log) \in Nat /\ generation \in Nat /\ latest \in Nat \ {0} /\ store \in Nat
      /\ generation \in {0, latest} /\ (generation = 0 <=> log[Len(log)].operation = "stop")
  BY CaseAssumption DEF LogInv, LogTyped, LogEnds
<1>1. CASE UNCHANGED <<log, generation, latest, store>>
  BY <1>1 DEF LogInv, LogTyped, LogFollows, LogAscends, LogEnds
<1>2. CASE VerifyRows
  <2> DEFINE r == [operation |-> "verify", running |-> TRUE, generation |-> generation, store |-> store,
                   origin |-> 0, stopped |-> 0]
  <2>1. r \in Rows /\ r.operation = "verify" /\ r.running /\ r.generation = generation /\ r.store = store
    BY <1>0 DEF Rows
  <2>2. /\ log' = Append(log, r) /\ Len(log) < MaxSequence /\ generation # 0
        /\ generation' = generation /\ latest' = latest /\ store' = store
    BY <1>2 DEF VerifyRows, OpenWindow, Record
  <2> HIDE DEF r
  <2> QED
    BY <1>0, <2>1, <2>2, LogGrows
<1>3. CASE StopHub
  <2> DEFINE r == [operation |-> "stop", running |-> FALSE, generation |-> generation, store |-> store,
                   origin |-> 0, stopped |-> 0]
  <2>1. r \in Rows /\ r.operation = "stop" /\ ~r.running /\ r.generation = generation /\ r.store = store
    BY <1>0 DEF Rows
  <2>2. /\ log' = Append(log, r) /\ Len(log) < MaxSequence /\ generation # 0
        /\ generation' = 0 /\ latest' = latest /\ store' = store
    BY <1>3 DEF StopHub, OpenWindow, Record
  <2> HIDE DEF r
  <2> QED
    BY <1>0, <2>1, <2>2, LogGrows
<1>4. CASE StartHub
  <2>1. PICK s \in {store, store + 1} :
          /\ Record("start", TRUE, latest + 1, s, Max(Running), Max(Stopped)) /\ store' = s
    BY <1>4 DEF StartHub
  <2> DEFINE r == [operation |-> "start", running |-> TRUE, generation |-> latest + 1, store |-> s,
                   origin |-> Max(Running), stopped |-> Max(Stopped)]
  <2>2. /\ Len(log) >= 2 /\ log[Len(log)].operation = "stop" /\ generation = 0
        /\ Max(Running) = Len(log) - 1 /\ Max(Stopped) = Len(log)
    BY <1>4, LastRows DEF StartHub
  <2>3. /\ r \in Rows /\ r.operation = "start" /\ r.running /\ r.generation = latest + 1 /\ r.store = s
        /\ r.origin = Len(log) - 1 /\ r.stopped = Len(log)
    <3> DEFINE origin == Max(Running)
               stopped == Max(Stopped)
    <3>1. /\ origin = Len(log) - 1 /\ stopped = Len(log) /\ origin \in Nat /\ stopped \in Nat
          /\ latest + 1 \in Nat /\ s \in Nat
      BY <1>0, <2>2
    <3> HIDE DEF origin, stopped
    <3>2. [operation |-> "start", running |-> TRUE, generation |-> latest + 1, store |-> s,
           origin |-> origin, stopped |-> stopped] \in Rows
      BY <3>1 DEF Rows
    <3> QED
      BY <3>1, <3>2 DEF origin, stopped
  <2>4. /\ log' = Append(log, r) /\ Len(log) < MaxSequence
        /\ generation' = latest + 1 /\ latest' = latest + 1
    BY <1>4, <2>1 DEF StartHub, OpenWindow, Record
  <2>5. s >= store
    BY <1>0
  <2> HIDE DEF r
  <2> QED
    BY <1>0, <2>1, <2>2, <2>3, <2>4, <2>5, LogGrows
<1>5. CASE Return
  <2>1. /\ log' = log /\ store' = store /\ generation # 0 /\ Len(log) < MaxSequence
        /\ generation' = latest + 1 /\ latest' = latest + 1
    BY <1>5 DEF Return, OpenWindow
  <2>2. generation' \in Nat /\ latest' \in Nat \ {0} /\ generation' = latest' /\ generation' # 0
    BY <1>0, <2>1
  <2>3. \A k \in 1..Len(log) : log[k].generation <= latest'
    <3>1. \A k \in 1..Len(log) : log[k] \in Rows /\ log[k].generation <= latest
      BY <1>0 DEF LogInv, LogEnds
    <3>2. \A k \in 1..Len(log) : log[k].generation \in Nat
      BY <3>1 DEF Rows
    <3> QED
      BY <1>0, <2>1, <3>1, <3>2
  <2>4. LogEnds'
    BY <1>0, <2>1, <2>2, <2>3 DEF LogInv, LogEnds
  <2>5. LogTyped' /\ LogFollows' /\ LogAscends'
    BY <2>1, <2>2 DEF LogInv, LogTyped, LogFollows, LogAscends
  <2> QED
    BY <2>4, <2>5 DEF LogInv
<1>6. CASE AdmitCase
  BY <1>1, <1>6 DEF AdmitCase
<1>7. CASE UNCHANGED admission_vars
  BY <1>1, <1>7 DEF admission_vars
<1> QED
  BY <1>2, <1>3, <1>4, <1>5, <1>6, <1>7 DEF AdmissionNext

-----------------------------------------------------------------------------
(* What the rows say of each other.                                        *)
LEMMA RowFacts ==
  ASSUME LogInv
  PROVE  /\ Len(log) \in Nat /\ DOMAIN log = 1..Len(log)
         /\ \A n \in 1..Len(log) : log[n].generation \in Nat /\ log[n].store \in Nat
         /\ Running \subseteq 1..Len(log) /\ Stopped \subseteq 1..Len(log)
         /\ \A n \in 1..Len(log) : n \in Running <=> n \notin Stopped
         /\ \A n \in 1..Len(log) : log[n].operation = "start" => n \in Running
<1>1. log \in Seq(Rows) /\ Len(log) \in Nat /\ DOMAIN log = 1..Len(log)
  BY CaseAssumption DEF LogInv, LogTyped
<1>2. \A n \in 1..Len(log) : log[n] \in Rows
  BY <1>1
<1>3. \A n \in 1..Len(log) : log[n].generation \in Nat /\ log[n].store \in Nat
  BY <1>2 DEF Rows
<1>4. \A n \in 1..Len(log) : log[n].running <=> log[n].operation # "stop"
  BY DEF LogInv, LogFollows
<1> QED
  BY <1>1, <1>3, <1>4 DEF Running, Stopped

LEMMA Ascends ==
  ASSUME LogInv, NEW m \in 1..Len(log), NEW n \in 1..Len(log), m <= n
  PROVE  log[m].generation <= log[n].generation /\ log[m].store <= log[n].store
<1>1. m = n \/ m < n
  BY RowFacts
<1>2. CASE m = n
  BY <1>2, RowFacts
<1>3. CASE m < n
  BY <1>3 DEF LogInv, LogAscends
<1> QED
  BY <1>1, <1>2, <1>3

(* A start names the two rows before it: the stop and the last row of the  *)
(* Hub that ran.                                                           *)
LEMMA StartFollows ==
  ASSUME LogInv, NEW n \in 2..Len(log), log[n].operation = "start"
  PROVE  /\ n - 2 \in Running /\ n - 1 \in Stopped /\ n - 1 \notin Running
         /\ log[n].origin = n - 2 /\ log[n].stopped = n - 1
         /\ \A m \in 1..n - 1 : log[m].generation < log[n].generation
<1>1. log[n - 1].operation = "stop" /\ log[n].origin = n - 2 /\ log[n].stopped = n - 1
  BY DEF LogInv, LogFollows
<1>2. Len(log) \in Nat /\ n \in Nat /\ n - 1 \in 1..Len(log)
  BY RowFacts
<1>3. n - 1 # 1
  BY <1>1 DEF LogInv, LogFollows
<1>4. n - 1 \in 2..Len(log) /\ (n - 1) - 1 = n - 2 /\ n - 2 \in 1..Len(log)
  BY <1>2, <1>3
<1>5. log[n - 2].operation # "stop"
  BY <1>1, <1>4 DEF LogInv, LogFollows
<1>6. n - 2 \in Running /\ n - 1 \in Stopped /\ n - 1 \notin Running
  BY <1>1, <1>2, <1>4, <1>5, RowFacts DEF Stopped
<1>7. \A m \in 1..n - 1 : m \in 1..Len(log) /\ m < n /\ n \in 1..Len(log)
  BY <1>2
<1>8. \A m \in 1..n - 1 : log[m].generation < log[n].generation
  BY <1>7 DEF LogInv, LogAscends
<1> QED
  BY <1>1, <1>6, <1>8

(* A row that is no start stands directly behind a row of the running Hub. *)
LEMMA OthersFollow ==
  ASSUME LogInv, NEW n \in 2..Len(log), log[n].operation # "start"
  PROVE  n - 1 \in Running
<1>1. log[n - 1].operation # "stop"
  BY DEF LogInv, LogFollows
<1>2. n - 1 \in 1..Len(log)
  BY RowFacts
<1> QED
  BY <1>1, <1>2, RowFacts DEF Stopped

LEMMA PreviousOf ==
  ASSUME NEW rows \in SUBSET Nat, NEW lower \in rows, NEW n \in Nat, lower < n
  PROVE  /\ Previous(rows, lower, n) \in rows
         /\ lower <= Previous(rows, lower, n) /\ Previous(rows, lower, n) < n
         /\ \A m \in rows : lower <= m /\ m < n => m <= Previous(rows, lower, n)
<1> DEFINE S == {m \in rows : lower <= m /\ m < n}
<1>1. S \in SUBSET Nat /\ S # {} /\ \A i \in S : i <= n
  <2>1. lower \in Nat /\ lower <= lower
    OBVIOUS
  <2>2. lower \in S
    BY <2>1
  <2>3. S \in SUBSET Nat
    OBVIOUS
  <2>4. ASSUME NEW i \in S PROVE i <= n
    <3>1. i \in Nat /\ i < n
      OBVIOUS
    <3> QED
      BY ONLY <3>1, n \in Nat
  <2> QED
    BY <2>2, <2>3, <2>4
<1>2. Max(S) \in S /\ \A i \in S : i <= Max(S)
  BY <1>1, MaxOf
<1>3. Max(S) = Previous(rows, lower, n)
  BY DEF Previous
<1> QED
  BY <1>2, <1>3

-----------------------------------------------------------------------------
(* What a joined window says of the log, whatever rows were exported.      *)
LEMMA JoinStarts ==
  ASSUME NEW rows, NEW lower, NEW upper, RestartJoin(rows, lower, upper)
  PROVE  /\ lower < upper
         /\ \A n \in rows \cap lower..upper : log[n].store = log[lower].store
         /\ \A n \in (rows \cap lower..upper) \ {lower} :
              IF log[n].operation = "start" THEN StartJoined(rows, lower, upper, n)
              ELSE log[n].generation = log[Previous(rows, lower, n)].generation
         /\ \E n \in (rows \cap lower..upper) \ {lower} : log[n].operation = "start"
<1>1. /\ lower < upper
      /\ \A n \in Window(rows, lower, upper) : log[n].store = log[lower].store
      /\ \A n \in {n \in Window(rows, lower, upper) \ {lower} : log[n].operation = "start"} :
           StartJoined(rows, lower, upper, n)
      /\ \A n \in (Window(rows, lower, upper) \ {lower})
                    \ {n \in Window(rows, lower, upper) \ {lower} : log[n].operation = "start"} :
           log[n].generation = log[Previous(rows, lower, n)].generation
      /\ {n \in Window(rows, lower, upper) \ {lower} : log[n].operation = "start"} # {}
  BY Zenon DEF RestartJoin
<1>2. Window(rows, lower, upper) = rows \cap lower..upper
  BY DEF Window
<1> DEFINE later == (rows \cap lower..upper) \ {lower}
<1>3. /\ \A n \in {n \in later : log[n].operation = "start"} : StartJoined(rows, lower, upper, n)
      /\ \A n \in later \ {n \in later : log[n].operation = "start"} :
           log[n].generation = log[Previous(rows, lower, n)].generation
      /\ {n \in later : log[n].operation = "start"} # {}
  BY <1>1, <1>2
<1>4. \A n \in rows \cap lower..upper : log[n].store = log[lower].store
  BY <1>1, <1>2
<1>5. ASSUME NEW n \in later
      PROVE  IF log[n].operation = "start" THEN StartJoined(rows, lower, upper, n)
             ELSE log[n].generation = log[Previous(rows, lower, n)].generation
  <2> HIDE DEF later
  <2> QED
    BY <1>3, <1>5
<1>6. \E n \in later : log[n].operation = "start"
  BY <1>3
<1> QED
  BY <1>1, <1>4, <1>5, <1>6

LEMMA JoinSees ==
  ASSUME LogInv, NEW rows \in SUBSET Running, NEW lower \in rows, NEW upper \in rows,
         RestartJoin(rows, lower, upper)
  PROVE  RestartSeen(lower, upper)
<1> DEFINE up == Running \cap lower..upper
           later == (rows \cap lower..upper) \ {lower}
<1>0. /\ rows \in SUBSET Nat /\ rows \subseteq 1..Len(log) /\ Running \subseteq 1..Len(log)
      /\ Len(log) \in Nat /\ lower \in 1..Len(log) /\ upper \in 1..Len(log)
  BY RowFacts
<1>1. lower < upper /\ upper \in later /\ \A n \in later : n \in rows /\ n \in 2..Len(log) /\ lower < n /\ n <= upper
  BY <1>0, JoinStarts
<1>2. \E n \in Stopped : lower < n /\ n < upper
  <2>1. PICK n \in later : log[n].operation = "start"
    BY JoinStarts
  <2>2. StartJoined(rows, lower, upper, n)
    BY <2>1, JoinStarts
  <2>3. n - 1 \in Stopped /\ log[n].stopped = n - 1
    BY <1>1, <2>1, StartFollows
  <2>4. lower < log[n].stopped /\ log[n].stopped < n /\ n <= upper
    <3>1. /\ lower <= log[n].origin /\ log[n].origin < log[n].stopped
          /\ log[n].stopped < n /\ n <= upper
      BY <2>2 DEF StartJoined
    <3>2. log[n].origin = n - 2 /\ log[n].stopped = n - 1 /\ n \in Nat
      BY <1>0, <1>1, <2>1, StartFollows
    <3> QED
      BY <1>0, <3>1, <3>2
  <2>5. lower < n - 1 /\ n - 1 < upper
    BY <1>0, <1>1, <2>3, <2>4
  <2> QED
    BY <2>3, <2>5
<1>3. ASSUME NEW n \in up PROVE log[n].store = log[lower].store
  <2>1. n \in 1..Len(log) /\ lower <= n /\ n <= upper
    BY <1>0
  <2>2. log[lower].store <= log[n].store /\ log[n].store <= log[upper].store
    BY <1>0, <2>1, Ascends
  <2>3. log[upper].store = log[lower].store
    BY <1>0, <1>1, JoinStarts
  <2>4. log[lower].store \in Nat /\ log[n].store \in Nat
    BY <1>0, <2>1, RowFacts
  <2> QED
    BY <2>2, <2>3, <2>4
<1>4. ASSUME NEW n \in up \ {lower}, log[n].operation # "start",
             log[n].generation # log[Max({m \in up : m < n})].generation
      PROVE  FALSE
  <2>1. n \in 2..Len(log) /\ lower < n /\ n <= upper
    BY <1>0
  <2>2. n - 1 \in Running /\ n - 1 \in 1..Len(log) /\ n - 1 \in up
    BY <1>0, <1>4, <2>1, OthersFollow
  <2>3. Max({m \in up : m < n}) = n - 1
    <3>1. {m \in up : m < n} \in SUBSET Nat /\ n - 1 \in {m \in up : m < n}
      BY <1>0, <2>1, <2>2
    <3>2. \A m \in {m \in up : m < n} : m <= n - 1
      BY <1>0, <2>1
    <3> QED
      BY <3>1, <3>2, MaxIs
  <2> DEFINE ahead == {k \in later : n <= k}
             next == Min(ahead)
             prior == Previous(rows, lower, next)
  <2>4. next \in later /\ n <= next /\ \A k \in later : n <= k => next <= k
    <3>1. ahead \in SUBSET Nat /\ ahead # {}
      BY <1>0, <1>1, <2>1
    <3>2. Min(ahead) \in ahead /\ \A k \in ahead : Min(ahead) <= k
      BY <3>1, MinOf
    <3> QED
      BY <3>2
  <2> HIDE DEF next, ahead
  <2>5. next \in rows /\ next \in 2..Len(log) /\ lower < next /\ next <= upper
    BY <1>1, <2>4
  <2>6. prior \in rows /\ lower <= prior /\ prior < next
    BY <1>0, <2>5, PreviousOf
  <2> HIDE DEF prior
  <2>7. prior < n
    <3> SUFFICES ASSUME n <= prior PROVE FALSE
      BY <1>0, <2>1, <2>6
    <3>1. prior \in later
      BY <1>0, <2>1, <2>5, <2>6
    <3> QED
      BY <1>0, <2>4, <2>5, <2>6, <3>1
  <2>8. prior \in 1..Len(log) /\ prior <= n - 1
    BY <1>0, <2>1, <2>6, <2>7
  <2>9. log[prior].generation < log[next].generation
    <3>1. log[prior].generation <= log[n - 1].generation
      BY <2>2, <2>8, Ascends
    <3>2. log[n - 1].generation <= log[n].generation /\ log[n].generation # log[n - 1].generation
      BY <1>4, <2>1, <2>2, <2>3, Ascends
    <3>3. log[n].generation <= log[next].generation
      BY <2>1, <2>4, <2>5, Ascends
    <3>4. /\ log[prior].generation \in Nat /\ log[n - 1].generation \in Nat
          /\ log[n].generation \in Nat /\ log[next].generation \in Nat
      BY <2>1, <2>2, <2>5, <2>8, RowFacts
    <3> QED
      BY <3>1, <3>2, <3>3, <3>4
  <2>10. CASE log[next].operation = "start"
    <3>1. StartJoined(rows, lower, upper, next)
      BY <2>4, <2>10, JoinStarts
    <3>2. log[next].origin = prior
      BY <3>1 DEF StartJoined, prior
    <3>3. log[next].origin = next - 2 /\ next - 1 \notin Running
      BY <2>5, <2>10, StartFollows
    <3>4. n # next /\ n # next - 1
      BY <1>4, <2>10, <3>3
    <3> QED
      BY <2>1, <2>4, <2>5, <2>7, <3>2, <3>3, <3>4
  <2>11. CASE log[next].operation # "start"
    <3>1. log[next].generation = log[prior].generation
      BY <2>4, <2>11, JoinStarts DEF prior
    <3>2. log[prior].generation \in Nat
      BY <2>8, RowFacts
    <3> QED
      BY <2>9, <3>1, <3>2
  <2> QED
    BY <2>10, <2>11
<1> QED
  BY <1>2, <1>3, <1>4 DEF RestartSeen

-----------------------------------------------------------------------------
(* When the ordinary producer exported every row, a window that does not   *)
(* join had no restart in it or a change that no start explains.           *)
LEMMA StartsJoin ==
  ASSUME NEW rows, NEW lower, NEW upper, lower < upper,
         \A n \in rows \cap lower..upper : log[n].store = log[lower].store,
         \A n \in (rows \cap lower..upper) \ {lower} :
           log[n].operation = "start" => StartJoined(rows, lower, upper, n),
         \A n \in (rows \cap lower..upper) \ {lower} :
           log[n].operation # "start" => log[n].generation = log[Previous(rows, lower, n)].generation,
         \E n \in (rows \cap lower..upper) \ {lower} : log[n].operation = "start",
         log[Max(rows \cap lower..upper)].generation # log[lower].generation
  PROVE  RestartJoin(rows, lower, upper)
<1> DEFINE window == rows \cap lower..upper
           later == window \ {lower}
           starts == {n \in later : log[n].operation = "start"}
<1>1. Window(rows, lower, upper) = window
  BY DEF Window
<1>2. \A n \in starts : StartJoined(rows, lower, upper, n)
  OBVIOUS
<1>3. \A n \in later \ starts : log[n].generation = log[Previous(rows, lower, n)].generation
  OBVIOUS
<1>4. starts # {}
  OBVIOUS
<1>5. \A n \in window : log[n].store = log[lower].store
  OBVIOUS
<1>6. log[Max(window)].generation # log[lower].generation
  OBVIOUS
<1> HIDE DEF window
<1> QED
  BY <1>1, <1>2, <1>3, <1>4, <1>5, <1>6, Zenon DEF RestartJoin

LEMMA UnseenRefused ==
  ASSUME LogInv, NEW lower \in Running, NEW upper \in Running, lower <= upper,
         ~RestartJoin(Running, lower, upper)
  PROVE  RestartUnseen(lower, upper)
<1> DEFINE up == Running \cap lower..upper
           later == up \ {lower}
<1>0. /\ Running \in SUBSET Nat /\ Running \subseteq 1..Len(log) /\ Stopped \subseteq 1..Len(log)
      /\ Len(log) \in Nat /\ lower \in 1..Len(log) /\ upper \in 1..Len(log)
  BY RowFacts
<1> SUFFICES ASSUME \A n \in up : log[n].store = log[lower].store,
                    NEW stop \in Stopped, lower < stop, stop < upper,
                    \A n \in later :
                      log[n].generation # log[Max({m \in up : m < n})].generation => log[n].operation = "start"
             PROVE  FALSE
  BY Zenon DEF RestartUnseen
<1>1. lower < upper
  BY <1>0
<1>2. \A n \in later : n \in Running /\ n \in 2..Len(log) /\ lower < n /\ n <= upper
  BY <1>0
<1>3. ASSUME NEW n \in later, log[n].operation = "start" PROVE StartJoined(Running, lower, upper, n)
  <2>1. /\ n - 2 \in Running /\ n - 1 \in Stopped /\ n - 1 \notin Running
        /\ log[n].origin = n - 2 /\ log[n].stopped = n - 1
        /\ \A m \in 1..n - 1 : log[m].generation < log[n].generation
    BY <1>2, <1>3, StartFollows
  <2>2. n \in Nat /\ n - 2 \in 1..n - 1 /\ lower <= n - 2
    <3>1. lower # n - 1
      BY <2>1
    <3> QED
      BY <1>0, <1>2, <2>1, <3>1
  <2>3. Previous(Running, lower, n) = n - 2
    <3> DEFINE S == {m \in Running : lower <= m /\ m < n}
    <3>1. S \in SUBSET Nat
      BY <1>0
    <3>2. n - 2 \in S
      BY <2>1, <2>2
    <3>3. \A m \in S : m <= n - 2
      <4> SUFFICES ASSUME NEW m \in S PROVE m <= n - 2
        OBVIOUS
      <4>1. m \in Nat /\ m < n /\ m # n - 1
        BY <1>0, <2>1
      <4> QED
        BY <2>2, <4>1
    <3>4. Max(S) = n - 2
      BY <3>1, <3>2, <3>3, MaxIs
    <3> QED
      BY <3>4 DEF Previous
  <2>4. log[n].generation # log[n - 2].generation
    <3>1. log[n - 2].generation < log[n].generation
      BY <2>1, <2>2
    <3>2. log[n].generation \in Nat
      BY <1>2, RowFacts
    <3> QED
      BY <3>1, <3>2
  <2>5. lower <= n - 2 /\ n - 2 < n - 1 /\ n - 1 < n /\ n <= upper
    BY <1>2, <2>2
  <2> QED
    BY <2>1, <2>3, <2>4, <2>5 DEF StartJoined
<1>4. ASSUME NEW n \in later, log[n].operation # "start"
      PROVE  log[n].generation = log[Previous(Running, lower, n)].generation
  <2>1. {m \in Running : lower <= m /\ m < n} = {m \in up : m < n}
    <3>1. ASSUME NEW m \in Running, m < n PROVE lower <= m <=> m \in lower..upper
      BY <1>0, <1>2, <3>1
    <3> QED
      BY <3>1
  <2>2. Previous(Running, lower, n) = Max({m \in up : m < n})
    BY <2>1 DEF Previous
  <2> QED
    BY <1>4, <2>2
<1>5. stop + 1 \in later /\ log[stop + 1].operation = "start"
  <2>1. stop \in 1..Len(log) /\ stop + 1 \in 2..Len(log) /\ (stop + 1) - 1 = stop
    BY <1>0
  <2>2. stop \notin Running
    BY <2>1, RowFacts
  <2>3. log[stop + 1].operation = "start"
    BY <2>1, <2>2, OthersFollow
  <2>4. stop + 1 \in 1..Len(log)
    BY <2>1
  <2>5. stop + 1 \in Running
    BY <2>3, <2>4, RowFacts
  <2> QED
    BY <1>0, <2>3, <2>5
<1>6. log[Max(up)].generation # log[lower].generation
  <2>1. Max(up) = upper
    <3>1. up \in SUBSET Nat /\ upper \in up /\ \A n \in up : n <= upper
      BY <1>0
    <3> QED
      BY <3>1, MaxIs
  <2>2. log[lower].generation < log[stop + 1].generation
    <3>1. lower \in 1..(stop + 1) - 1
      BY <1>0
    <3> QED
      BY <1>2, <1>5, <3>1, StartFollows
  <2>3. log[stop + 1].generation <= log[upper].generation
    <3>1. stop + 1 \in 1..Len(log) /\ stop + 1 <= upper
      BY <1>0
    <3> QED
      BY <1>0, <3>1, Ascends
  <2>4. /\ log[lower].generation \in Nat /\ log[stop + 1].generation \in Nat
        /\ log[upper].generation \in Nat
    <3>1. stop + 1 \in 1..Len(log)
      BY <1>0
    <3> QED
      BY <1>0, <3>1, RowFacts
  <2> QED
    BY <2>1, <2>2, <2>3, <2>4
<1>7. RestartJoin(Running, lower, upper)
  <2>1. \E n \in later : log[n].operation = "start"
    BY <1>5
  <2> QED
    BY <1>1, <1>3, <1>4, <1>6, <2>1, StartsJoin
<1> QED
  BY <1>7

-----------------------------------------------------------------------------
(* The checks of _admit: a passing code says that all of them hold, and    *)
(* controller_mismatch that the controller's rows do not join.             *)
LEMMA PartsLabel ==
  ASSUME NEW valid
  PROVE  FirstError([i \in DOMAIN Parts |-> <<Parts[i][2], Parts[i][1] \notin valid>>])
           \in {"accepted", "wrong_context", "wrong_actor", "installed_manifest_mismatch", "wrong_source_role"}
<1> DEFINE checks == [i \in DOMAIN Parts |-> <<Parts[i][2], Parts[i][1] \notin valid>>]
<1>1. DOMAIN checks = 1..4
  BY DEF Parts
<1>2. \A i \in 1..4 : checks[i][1] = Parts[i][2]
  BY <1>1
<1>3. \A i \in 1..4 :
        Parts[i][2] \in {"wrong_context", "wrong_actor", "installed_manifest_mismatch", "wrong_source_role"}
  BY DEF Parts
<1> HIDE DEF checks
<1>4. \/ FirstError(checks) = "accepted"
      \/ \E i \in 1..4 : checks[i][1] = FirstError(checks)
  BY <1>1, ErrorFails
<1>5. FirstError(checks)
        \in {"accepted", "wrong_context", "wrong_actor", "installed_manifest_mismatch", "wrong_source_role"}
  BY <1>2, <1>3, <1>4
<1> QED
  BY <1>5 DEF checks

LEMMA ChecksPass ==
  ASSUME NEW parts, NEW b2, NEW b3, NEW b4, NEW b5, NEW b6, NEW b7, NEW b8, NEW b9, NEW b10, NEW b11,
         NEW b12, NEW b13, NEW b14, NEW b15, NEW b16, NEW b17, NEW b18, NEW answer,
         parts \in {"accepted", "wrong_context", "wrong_actor", "installed_manifest_mismatch", "wrong_source_role"},
         answer = FirstError(<<
           <<parts, parts # "accepted">>, <<"case_shape", b2>>, <<"literal_mismatch", b3>>,
           <<"invocation_missing", b4>>, <<"wrong_actor", b5>>, <<"operation_mismatch", b6>>,
           <<"sequence_mismatch", b7>>, <<"controller_mismatch", b8>>, <<"raw_missing", b9>>,
           <<"raw_identity_mismatch", b10>>, <<"sequence_mismatch", b11>>, <<"raw_fact_mismatch", b12>>,
           <<"raw_identity_mismatch", b13>>, <<"cleanup_failure", b14>>, <<"request_mismatch", b15>>,
           <<"request_mismatch", b16>>, <<"request_mismatch", b17>>,
           <<"runner_owned_service_runtime", b18>> >>)
  PROVE  /\ answer \in {"accepted", "runner_owned_service_runtime"} =>
              ~b7 /\ ~b8 /\ ~b10 /\ ~b11 /\ ~b12 /\ ~b15
         /\ answer = "controller_mismatch" => b8
<1> DEFINE checks == <<
      <<parts, parts # "accepted">>, <<"case_shape", b2>>, <<"literal_mismatch", b3>>,
      <<"invocation_missing", b4>>, <<"wrong_actor", b5>>, <<"operation_mismatch", b6>>,
      <<"sequence_mismatch", b7>>, <<"controller_mismatch", b8>>, <<"raw_missing", b9>>,
      <<"raw_identity_mismatch", b10>>, <<"sequence_mismatch", b11>>, <<"raw_fact_mismatch", b12>>,
      <<"raw_identity_mismatch", b13>>, <<"cleanup_failure", b14>>, <<"request_mismatch", b15>>,
      <<"request_mismatch", b16>>, <<"request_mismatch", b17>>,
      <<"runner_owned_service_runtime", b18>> >>
<1>1. DOMAIN checks = 1..18
  OBVIOUS
<1>2. /\ checks[1][1] = parts /\ (checks[1][2] <=> parts # "accepted")
      /\ checks[7] = <<"sequence_mismatch", b7>> /\ checks[8] = <<"controller_mismatch", b8>>
      /\ checks[10] = <<"raw_identity_mismatch", b10>> /\ checks[11] = <<"sequence_mismatch", b11>>
      /\ checks[12] = <<"raw_fact_mismatch", b12>> /\ checks[15] = <<"request_mismatch", b15>>
      /\ checks[18] = <<"runner_owned_service_runtime", b18>>
  OBVIOUS
<1>3. \A i \in 2..17 : checks[i][1] \in {"case_shape", "literal_mismatch", "invocation_missing", "wrong_actor",
        "operation_mismatch", "sequence_mismatch", "controller_mismatch", "raw_missing",
        "raw_identity_mismatch", "raw_fact_mismatch", "cleanup_failure", "request_mismatch"}
  OBVIOUS
<1>4. \A i \in 2..17 : checks[i][1] = "controller_mismatch" => i = 8
  OBVIOUS
<1>5. answer = FirstError(checks)
  OBVIOUS
<1> HIDE DEF checks
<1>6. \/ answer = "accepted" /\ \A i \in 1..18 : ~checks[i][2]
      \/ \E i \in 1..18 :
           /\ checks[i][2] /\ checks[i][1] = answer
           /\ \A j \in 1..i - 1 : ~checks[j][2]
  <2>1. 18 \in Nat
    OBVIOUS
  <2>2. \/ FirstError(checks) = "accepted" /\ \A i \in 1..18 : ~checks[i][2]
        \/ \E i \in 1..18 :
             /\ checks[i][2] /\ checks[i][1] = FirstError(checks)
             /\ \A j \in 1..i - 1 : ~checks[j][2]
    BY ONLY <1>1, <2>1, ErrorFails, Zenon
  <2> QED
    BY ONLY <1>5, <2>2, Zenon
<1>7. ASSUME NEW i \in 1..18, checks[i][2], checks[i][1] = answer
      PROVE  /\ answer # "accepted"
             /\ answer = "runner_owned_service_runtime" => i = 18
             /\ answer = "controller_mismatch" => i = 8
  <2>1. i = 1 \/ i \in 2..17 \/ i = 18
    OBVIOUS
  <2>2. CASE i = 1
    BY <1>2, <1>7, <2>2
  <2>3. CASE i \in 2..17
    BY <1>3, <1>4, <1>7, <2>3
  <2>4. CASE i = 18
    BY <1>2, <1>7, <2>4
  <2> QED
    BY <2>1, <2>2, <2>3, <2>4
<1>8. ASSUME answer \in {"accepted", "runner_owned_service_runtime"}
      PROVE  \A j \in 1..17 : ~checks[j][2]
  BY <1>6, <1>7, <1>8
<1>9. answer = "controller_mismatch" => checks[8][2]
  BY <1>6, <1>7
<1> QED
  BY <1>2, <1>8, <1>9

Anchored(d, rows) ==
  /\ 0 < d.invocation.before /\ d.invocation.before <= d.invocation.after
  /\ {d.invocation.before, d.invocation.after} \subseteq rows

LEMMA AdmitPasses ==
  ASSUME NEW d, NEW rows
  PROVE  /\ Admit(d, rows) \in {"accepted", "runner_owned_service_runtime"} =>
              /\ d.case.id \in Cases /\ Anchored(d, rows)
              /\ d.case.id = Restart => RestartJoin(rows, d.invocation.before, d.invocation.after)
              /\ Identity(d.case, d.raw)
              /\ d.raw.before = d.invocation.before /\ d.raw.after = d.invocation.after
              /\ d.raw.facts = Expected(d.case.id)
              /\ Distinct(IdsOf(d.raw.requests))
         /\ Admit(d, rows) = "controller_mismatch" =>
              /\ d.case.id = Restart /\ Anchored(d, rows)
              /\ ~RestartJoin(rows, d.invocation.before, d.invocation.after)
<1> DEFINE c == d.case
           inv == d.invocation
           raw == d.raw
           ids == IdsOf(raw.requests)
           part(i) == Parts[i][1] \notin d.valid
           parts == FirstError([i \in DOMAIN Parts |-> <<Parts[i][2], part(i)>>])
           anchored == 0 < inv.before /\ inv.before <= inv.after /\ {inv.before, inv.after} \subseteq rows
           b2 == c.status # (IF c.id = Service THEN "pending" ELSE "passed") \/ c.kind # Kind[c.id]
           b3 == c.expected # c.actual \/ c.actual # Expected(c.id)
           b4 == inv.case # c.id
           b5 == inv.actor # "own"
           b6 == inv.operation # Operation[c.id]
           b7 == ~anchored
           b8 == c.id = Restart /\ anchored /\ ~RestartJoin(rows, inv.before, inv.after)
           b9 == raw.id # inv.evidence
           b10 == ~Identity(c, raw)
           b11 == raw.before # inv.before \/ raw.after # inv.after
           b12 == raw.facts # Expected(c.id)
           b13 == "credential" \notin d.valid
           b14 == raw.cleanup # ClosedDown
           b15 == "requests" \notin d.valid \/ raw.ids # ids \/ ~Distinct(ids) \/ ids # inv.ids
           b16 == c.transcript # raw.requests
           b17 == ~RequestsMatch(c.id, raw.requests)
           b18 == c.id = Service
           answer == FirstError(<<
             <<parts, parts # "accepted">>, <<"case_shape", b2>>, <<"literal_mismatch", b3>>,
             <<"invocation_missing", b4>>, <<"wrong_actor", b5>>, <<"operation_mismatch", b6>>,
             <<"sequence_mismatch", b7>>, <<"controller_mismatch", b8>>, <<"raw_missing", b9>>,
             <<"raw_identity_mismatch", b10>>, <<"sequence_mismatch", b11>>, <<"raw_fact_mismatch", b12>>,
             <<"raw_identity_mismatch", b13>>, <<"cleanup_failure", b14>>, <<"request_mismatch", b15>>,
             <<"request_mismatch", b16>>, <<"request_mismatch", b17>>,
             <<"runner_owned_service_runtime", b18>> >>)
<1>1. Admit(d, rows) = IF c.id \notin Cases THEN "unknown_case" ELSE answer
  BY Zenon DEF Admit
<1>2. parts \in {"accepted", "wrong_context", "wrong_actor", "installed_manifest_mismatch", "wrong_source_role"}
  BY PartsLabel
<1>3. ~b7 => Anchored(d, rows)
  BY DEF Anchored
<1>4. b8 => c.id = Restart /\ Anchored(d, rows) /\ ~RestartJoin(rows, inv.before, inv.after)
  BY <1>3
<1>5. ~b7 /\ ~b8 => (c.id = Restart => RestartJoin(rows, inv.before, inv.after))
  OBVIOUS
<1>6. ~b10 => Identity(c, raw)
  OBVIOUS
<1>7. ~b11 => raw.before = inv.before /\ raw.after = inv.after
  OBVIOUS
<1>8. ~b12 => raw.facts = Expected(c.id)
  OBVIOUS
<1>9. ~b15 => Distinct(ids)
  OBVIOUS
<1> HIDE DEF parts, b2, b3, b4, b5, b6, b7, b8, b9, b10, b11, b12, b13, b14, b15, b16, b17, b18
<1>10. /\ answer \in {"accepted", "runner_owned_service_runtime"} =>
            ~b7 /\ ~b8 /\ ~b10 /\ ~b11 /\ ~b12 /\ ~b15
       /\ answer = "controller_mismatch" => b8
  BY <1>2, ChecksPass
<1> HIDE DEF answer
<1> QED
  BY <1>1, <1>3, <1>4, <1>5, <1>6, <1>7, <1>8, <1>9, <1>10

-----------------------------------------------------------------------------
(* The ids of the requests are taken one by one: when no id is listed      *)
(* twice, no two requests that have one share it.                          *)
LEMMA RanksDiffer ==
  ASSUME NEW S, IsFiniteSet(S), S \in SUBSET Nat, NEW i \in S, NEW j \in S, i < j
  PROVE  /\ Cardinality({k \in S : k <= i}) < Cardinality({k \in S : k <= j})
         /\ Cardinality({k \in S : k <= i}) \in 1..Cardinality(S)
         /\ Cardinality({k \in S : k <= j}) \in 1..Cardinality(S)
<1> DEFINE A == {k \in S : k <= i}
           B == {k \in S : k <= j}
<1>1. i \in Nat /\ j \in Nat /\ \A k \in S : k \in Nat
  OBVIOUS
<1>2. A \subseteq B
  <2>1. ASSUME NEW k \in S, k <= i PROVE k <= j
    BY <1>1, <2>1
  <2> QED
    BY <2>1
<1>3. i \in A /\ j \in B /\ j \notin A /\ B \subseteq S
  BY <1>1
<1> HIDE DEF A, B
<1>4. IsFiniteSet(B) /\ IsFiniteSet(A)
  BY <1>2, <1>3, FS_Subset
<1>5. Cardinality(A) \in Nat /\ Cardinality(B) \in Nat /\ Cardinality(S) \in Nat
  BY <1>4, FS_CardinalityType
<1>6. Cardinality(A) < Cardinality(B)
  <2>1. A # B
    BY <1>3
  <2>2. Cardinality(A) <= Cardinality(B) /\ Cardinality(A) # Cardinality(B)
    BY <1>2, <1>4, <2>1, FS_Subset
  <2> QED
    BY <1>5, <2>2
<1>7. Cardinality(B) <= Cardinality(S)
  BY <1>3, FS_Subset
<1>8. Cardinality(A) # 0
  BY <1>3, <1>4, FS_EmptySet
<1>9. /\ Cardinality(A) < Cardinality(B) /\ Cardinality(A) \in 1..Cardinality(S)
      /\ Cardinality(B) \in 1..Cardinality(S)
  BY <1>5, <1>6, <1>7, <1>8
<1> QED
  BY <1>9 DEF A, B

LEMMA IdsDiffer ==
  ASSUME NEW requests, NEW n \in Nat, DOMAIN requests = 1..n, Distinct(IdsOf(requests)),
         NEW i \in 1..n, NEW j \in 1..n, i < j, requests[i].id # <<>>, requests[j].id # <<>>
  PROVE  requests[i].id # requests[j].id
<1> DEFINE withId == {k \in DOMAIN requests : requests[k].id # <<>>}
           rank(k) == Cardinality({l \in withId : l <= k})
           at(r) == CHOOSE k \in withId : rank(k) = r
           ids == IdsOf(requests)
<1>1. withId \subseteq 1..n /\ i \in withId /\ j \in withId
  OBVIOUS
<1>2. IsFiniteSet(withId)
  <2> HIDE DEF withId
  <2>1. IsFiniteSet(1..n)
    BY FS_Interval
  <2> QED
    BY <1>1, <2>1, FS_Subset
<1>3. ids = [r \in 1..Cardinality(withId) |-> requests[at(r)].id]
  BY DEF IdsOf
<1> HIDE DEF withId, ids
<1>4. withId \in SUBSET Nat
  BY <1>1
<1>5. rank(i) < rank(j) /\ rank(i) \in 1..Cardinality(withId) /\ rank(j) \in 1..Cardinality(withId)
  BY <1>1, <1>2, <1>4, RanksDiffer
<1>6. \A k, l \in withId : k < l => rank(k) < rank(l) /\ rank(k) \in 1..Cardinality(withId)
                                      /\ rank(l) \in 1..Cardinality(withId)
  BY <1>2, <1>4, RanksDiffer
<1>7. Cardinality(withId) \in Nat
  BY <1>2, FS_CardinalityType
<1> HIDE DEF rank
<1>8. ASSUME NEW k \in withId, NEW l \in withId, rank(k) = rank(l) PROVE k = l
  <2>1. k \in Nat /\ l \in Nat
    BY <1>4
  <2>2. k < l \/ l < k \/ k = l
    BY <2>1
  <2>3. ~(rank(k) < rank(l)) \/ ~(rank(k) \in 1..Cardinality(withId))
    BY <1>7, <1>8
  <2>4. ~(rank(l) < rank(k)) \/ ~(rank(k) \in 1..Cardinality(withId))
    BY <1>7, <1>8
  <2> QED
    BY <1>6, <2>2, <2>3, <2>4
<1>9. at(rank(i)) = i /\ at(rank(j)) = j
  <2>1. at(rank(i)) \in withId /\ rank(at(rank(i))) = rank(i)
    BY <1>1
  <2>2. at(rank(j)) \in withId /\ rank(at(rank(j))) = rank(j)
    BY <1>1
  <2> HIDE DEF at
  <2> QED
    BY <1>1, <1>8, <2>1, <2>2
<1> HIDE DEF at
<1>10. ids[rank(i)] = requests[i].id /\ ids[rank(j)] = requests[j].id
  BY <1>3, <1>5, <1>9
<1>11. DOMAIN ids = 1..Cardinality(withId)
  BY <1>3
<1>12. rank(i) # rank(j)
  BY <1>5, <1>7
<1>13. ids[rank(i)] # ids[rank(j)]
  BY <1>5, <1>11, <1>12 DEF Distinct, ids
<1> QED
  BY <1>10, <1>13

(* Evidence says truly where it was taken, whoever hands it over.          *)
LEMMA HonestTruthful ==
  ASSUME NEW id \in Cases, NEW lower, NEW upper
  PROVE  Truthful(Honest(id, lower, upper))
<1> DEFINE raw == Evidence(OwnSession, id, lower, upper)
           n == Len(RequiredExchanges[id])
<1>1. RequiredExchanges[id] \in Seq(STRING)
  BY CaseAssumption
<1>2. n \in Nat /\ DOMAIN RequiredExchanges[id] = 1..n
  BY <1>1
<1>3. /\ raw.of = <<OwnSession, id, lower, upper>> /\ raw.session = OwnSession
      /\ raw.before = lower /\ raw.after = upper
      /\ raw.operation = Operation[id] /\ raw.facts = Facts[id]
      /\ raw.requests = [i \in DOMAIN RequiredExchanges[id] |->
                           [exchange |-> RequiredExchanges[id][i], id |-> <<OwnSession, id, lower, upper, i>>]]
  BY DEF Evidence
<1>4. Len(raw.requests) = n /\ DOMAIN raw.requests = 1..n
  <2> HIDE DEF raw, n
  <2>1. DOMAIN raw.requests = 1..n
    BY <1>2, <1>3
  <2> QED
    BY <1>2, <1>3, <2>1
<1>5. Honest(id, lower, upper).raw = raw
  BY DEF Honest
<1> HIDE DEF raw, n
<1> QED
  BY <1>2, <1>3, <1>4, <1>5 DEF Truthful

LEMMA EvidenceOwn ==
  ASSUME NEW d, NEW rows, Truthful(d), Admit(d, rows) \in {"accepted", "runner_owned_service_runtime"}
  PROVE  /\ d.raw.of = <<OwnSession, d.case.id, d.invocation.before, d.invocation.after>>
         /\ \A i, j \in DOMAIN d.raw.requests :
              i # j => d.raw.requests[i].id # d.raw.requests[j].id \/ d.raw.requests[i].id = <<>>
<1> DEFINE requests == d.raw.requests
<1>1. /\ d.case.id \in Cases /\ Identity(d.case, d.raw)
      /\ d.raw.before = d.invocation.before /\ d.raw.after = d.invocation.after
      /\ d.raw.facts = Facts[d.case.id] /\ Distinct(IdsOf(requests))
  BY AdmitPasses DEF Expected
<1>2. d.raw.session = OwnSession /\ d.raw.operation = Operation[d.case.id]
  BY <1>1 DEF Identity, Identified
<1>3. d.raw.of = <<OwnSession, d.case.id, d.invocation.before, d.invocation.after>>
  <2>1. PICK c \in Cases :
          /\ d.raw.of = <<d.raw.session, c, d.raw.before, d.raw.after>>
          /\ d.raw.operation = Operation[c]
          /\ d.raw.facts \in {Facts[other] : other \in Cases} => d.raw.facts = Facts[c]
    BY DEF Truthful
  <2>2. d.raw.facts = Facts[c]
    BY <1>1, <2>1
  <2>3. c = d.case.id
    BY <1>1, <1>2, <2>1, <2>2, CaseAssumption
  <2> QED
    BY <1>1, <1>2, <2>1, <2>3
<1>4. Len(requests) \in Nat /\ DOMAIN requests = 1..Len(requests)
  BY DEF Truthful
<1> DEFINE n == Len(requests)
<1> HIDE DEF n, requests
<1>5. ASSUME NEW i \in 1..n, NEW j \in 1..n, i # j, requests[i].id # <<>>, requests[j].id # <<>>
      PROVE  requests[i].id # requests[j].id
  <2>1. n \in Nat /\ DOMAIN requests = 1..n
    BY <1>4 DEF n
  <2>2. i < j \/ j < i
    BY <1>5
  <2>3. CASE i < j
    BY <1>1, <1>5, <2>1, <2>3, IdsDiffer
  <2>4. CASE j < i
    BY <1>1, <1>5, <2>1, <2>4, IdsDiffer
  <2> QED
    BY <2>2, <2>3, <2>4
<1>6. \A i, j \in DOMAIN requests : i # j => requests[i].id # requests[j].id \/ requests[i].id = <<>>
  BY <1>4, <1>5 DEF n
<1> QED
  BY <1>3, <1>6 DEF requests

-----------------------------------------------------------------------------
AdmissionInv == LogInv /\ AdmissionExact

(* A case is decided from rows of a Hub that ran, and from truthful        *)
(* evidence.                                                               *)
LEMMA AdmitDecides ==
  ASSUME LogInv, AdmitCase
  PROVE  /\ exported' \subseteq Running /\ Truthful(documents')
         /\ code' = Admit(documents', exported')
         /\ log' = log
<1>1. PICK id \in Cases, lower \in DOMAIN log, upper \in DOMAIN log :
        \/ /\ documents' = Honest(id, lower, upper)
           /\ exported' \in SUBSET Running
        \/ /\ documents' \in Variants(Honest(id, lower, upper))
           /\ exported' = Running
  BY DEF AdmitCase
<1>2. lower \in 1..MaxSequence /\ upper \in 1..MaxSequence
  BY RowFacts, CaseAssumption DEF LogInv, LogTyped
<1>3. CASE documents' = Honest(id, lower, upper) /\ exported' \in SUBSET Running
  BY <1>3, HonestTruthful DEF AdmitCase
<1>4. CASE documents' \in Variants(Honest(id, lower, upper)) /\ exported' = Running
  BY <1>2, <1>4, EvidenceAssumption DEF AdmitCase
<1> QED
  BY <1>1, <1>3, <1>4

LEMMA AdmitExact ==
  ASSUME LogInv, AdmitCase
  PROVE  AdmissionExact'
<1>0. /\ exported' \subseteq Running /\ Truthful(documents')
      /\ code' = Admit(documents', exported')
      /\ log' = log
  BY AdmitDecides
<1> DEFINE lower == documents'.invocation.before
           upper == documents'.invocation.after
<1>1. ASSUME code' = "accepted", documents'.case.id = Restart
      PROVE  RestartSeen(lower, upper)
  <2>1. Anchored(documents', exported') /\ RestartJoin(exported', lower, upper)
    BY <1>0, <1>1, AdmitPasses
  <2>2. lower \in exported' /\ upper \in exported'
    BY <2>1 DEF Anchored
  <2> QED
    BY <1>0, <2>1, <2>2, JoinSees
<1>2. ASSUME code' = "controller_mismatch", exported' = Running
      PROVE  RestartUnseen(lower, upper)
  <2>1. Anchored(documents', exported') /\ ~RestartJoin(exported', lower, upper)
    BY <1>0, <1>2, AdmitPasses
  <2>2. lower \in Running /\ upper \in Running /\ lower <= upper
    BY <1>0, <2>1 DEF Anchored
  <2> QED
    BY <1>2, <2>1, <2>2, UnseenRefused
<1>3. Running' = Running /\ Stopped' = Stopped
  BY <1>0 DEF Running, Stopped
<1>4. RestartReal'
  <2>1. RestartSeen(lower, upper) => RestartSeen(documents.invocation.before, documents.invocation.after)'
    BY <1>0, <1>3 DEF RestartSeen
  <2> QED
    BY <1>1, <2>1 DEF RestartReal
<1>5. RestartAdmitted'
  <2>1. RestartUnseen(lower, upper) => RestartUnseen(documents.invocation.before, documents.invocation.after)'
    BY <1>0, <1>3 DEF RestartUnseen
  <2> QED
    BY <1>2, <1>3, <2>1 DEF RestartAdmitted
<1>6. OwnEvidence'
  BY <1>0, EvidenceOwn DEF OwnEvidence
<1> QED
  BY <1>4, <1>5, <1>6 DEF AdmissionExact

(* No decision has been taken while the session goes on.                   *)
LEMMA OpenExact ==
  ASSUME code' = "none"
  PROVE  AdmissionExact'
BY DEF AdmissionExact, RestartReal, RestartAdmitted, OwnEvidence

(* The admission decides exactly: a restart is admitted only when the log  *)
(* has one within the window, refused as a mismatch only when it has none, *)
(* and no evidence counts for another case, session or window              *)
(* (matrix_contract.py:426-600).                                           *)
THEOREM AdmissionAlwaysExact == AdmissionSpec => []AdmissionExact
<1>1. AdmissionInit => AdmissionInv
  <2> SUFFICES ASSUME AdmissionInit PROVE AdmissionInv
    OBVIOUS
  <2>1. AdmissionExact
    BY DEF AdmissionInit, AdmissionExact, RestartReal, RestartAdmitted, OwnEvidence
  <2> QED
    BY <2>1, LogStart DEF AdmissionInv
<1>2. AdmissionInv /\ [AdmissionNext]_admission_vars => AdmissionInv'
  <2> SUFFICES ASSUME AdmissionInv, [AdmissionNext]_admission_vars PROVE AdmissionInv'
    OBVIOUS
  <2>0. LogInv /\ LogInv'
    BY LogNext DEF AdmissionInv
  <2>2. AdmissionExact'
    <3>1. CASE VerifyRows \/ StopHub \/ StartHub \/ Return
      <4>1. code' = "none"
        BY <3>1 DEF VerifyRows, StopHub, StartHub, Return, OpenWindow
      <4> QED
        BY <4>1, OpenExact
    <3>2. CASE AdmitCase
      BY <2>0, <3>2, AdmitExact
    <3>3. CASE UNCHANGED admission_vars
      <4>1. /\ log' = log /\ code' = code /\ documents' = documents /\ exported' = exported
            /\ Running' = Running /\ Stopped' = Stopped
        BY <3>3 DEF admission_vars, Running, Stopped
      <4>2. RestartReal /\ RestartAdmitted /\ OwnEvidence
        BY DEF AdmissionInv, AdmissionExact
      <4>3. RestartReal'
        <5>1. RestartSeen(documents.invocation.before, documents.invocation.after)
                = RestartSeen(documents.invocation.before, documents.invocation.after)'
          BY <4>1 DEF RestartSeen
        <5> QED
          BY <4>1, <4>2, <5>1 DEF RestartReal
      <4>4. RestartAdmitted'
        <5>1. RestartUnseen(documents.invocation.before, documents.invocation.after)
                = RestartUnseen(documents.invocation.before, documents.invocation.after)'
          BY <4>1 DEF RestartUnseen
        <5> QED
          BY <4>1, <4>2, <5>1 DEF RestartAdmitted
      <4>5. OwnEvidence'
        BY <4>1, <4>2, Zenon DEF OwnEvidence
      <4> QED
        BY <4>3, <4>4, <4>5 DEF AdmissionExact
    <3> QED
      BY <3>1, <3>2, <3>3 DEF AdmissionNext
  <2> QED
    BY <2>0, <2>2 DEF AdmissionInv
<1>3. AdmissionInv => AdmissionExact
  BY DEF AdmissionInv
<1> QED
  BY <1>1, <1>2, <1>3, PTL DEF AdmissionSpec


-----------------------------------------------------------------------------
(* Paths in their canonical order.                                         *)
LEMMA PositionOf ==
  ASSUME NEW p \in AllPaths
  PROVE  Position(p) \in Nat /\ Order[Position(p)] = p
<1>1. DOMAIN Order = 1..Len(Order) /\ Len(Order) \in Nat
  BY ImageAssumption
<1>2. \E i \in DOMAIN Order : Order[i] = p
  BY DEF AllPaths, Range
<1>3. Position(p) \in DOMAIN Order /\ Order[Position(p)] = p
  BY <1>2 DEF Position
<1> QED
  BY <1>1, <1>3

LEMMA PositionDiffers ==
  ASSUME NEW p \in AllPaths, NEW q \in AllPaths, Position(p) = Position(q) PROVE p = q
BY PositionOf

LEMMA AllPathsFinite == IsFiniteSet(AllPaths)
<1>1. Order \in [1..Len(Order) -> AllPaths] /\ Len(Order) \in Nat
  BY ImageAssumption
<1>2. Order \in Surjection(1..Len(Order), AllPaths)
  BY <1>1 DEF Surjection, AllPaths, Range
<1>3. IsFiniteSet(1..Len(Order))
  BY <1>1, FS_Interval
<1> QED
  BY <1>2, <1>3, FS_Surjection

Upto(p, S) == {q \in S : Position(q) <= Position(p)}

LEMMA RankOf ==
  ASSUME NEW S \in SUBSET AllPaths
  PROVE  /\ IsFiniteSet(S) /\ Cardinality(S) \in Nat
         /\ \A p \in S : Rank(p, S) \in 1..Cardinality(S)
         /\ \A p, q \in S : Position(p) < Position(q) => Rank(p, S) < Rank(q, S)
<1>1. IsFiniteSet(S) /\ Cardinality(S) \in Nat
  BY AllPathsFinite, FS_Subset, FS_CardinalityType
<1>2. \A p \in S : /\ IsFiniteSet(Upto(p, S)) /\ Cardinality(Upto(p, S)) \in Nat
                   /\ Rank(p, S) = Cardinality(Upto(p, S)) /\ p \in Upto(p, S)
                   /\ Upto(p, S) \subseteq S
  <2> TAKE p \in S
  <2>1. Upto(p, S) \in SUBSET S
    BY DEF Upto
  <2>2. IsFiniteSet(Upto(p, S)) /\ Cardinality(Upto(p, S)) \in Nat
    BY <1>1, <2>1, FS_Subset, FS_CardinalityType
  <2>3. p \in Upto(p, S)
    BY PositionOf DEF Upto
  <2> QED
    BY <2>1, <2>2, <2>3 DEF Rank, Upto
<1>3. ASSUME NEW p \in S PROVE Rank(p, S) \in 1..Cardinality(S)
  <2>1. Cardinality(Upto(p, S)) <= Cardinality(S)
    BY <1>1, <1>2, FS_Subset
  <2>2. Cardinality(Upto(p, S)) # 0
    BY <1>2, FS_EmptySet
  <2> QED
    BY <1>1, <1>2, <2>1, <2>2
<1>4. ASSUME NEW p \in S, NEW q \in S, Position(p) < Position(q) PROVE Rank(p, S) < Rank(q, S)
  <2>1. Position(p) \in Nat /\ Position(q) \in Nat /\ \A r \in S : Position(r) \in Nat
    BY PositionOf
  <2>2. Upto(p, S) \in SUBSET Upto(q, S)
    BY <1>4, <2>1 DEF Upto
  <2>3. q \in Upto(q, S) /\ q \notin Upto(p, S)
    BY <1>4, <2>1 DEF Upto
  <2>4. Cardinality(Upto(p, S)) <= Cardinality(Upto(q, S))
    BY <1>2, <2>2, FS_Subset
  <2>5. Cardinality(Upto(p, S)) # Cardinality(Upto(q, S))
    BY <1>2, <2>2, <2>3, FS_Subset
  <2> QED
    BY <1>2, <2>4, <2>5
<1> QED
  BY <1>1, <1>3, <1>4

LEMMA RankDiffers ==
  ASSUME NEW S \in SUBSET AllPaths, NEW p \in S, NEW q \in S, Rank(p, S) = Rank(q, S)
  PROVE  p = q
<1>1. Position(p) \in Nat /\ Position(q) \in Nat /\ Rank(p, S) \in Nat /\ Rank(q, S) \in Nat
  BY PositionOf, RankOf
<1>2. ~(Position(p) < Position(q)) /\ ~(Position(q) < Position(p))
  BY <1>1, RankOf
<1> QED
  BY <1>1, <1>2, PositionDiffers

LEMMA RankReached ==
  ASSUME NEW S \in SUBSET AllPaths, NEW i \in 1..Cardinality(S)
  PROVE  \E p \in S : Rank(p, S) = i
<1> DEFINE n == Cardinality(S)
           f == [p \in S |-> Rank(p, S)]
<1>1. IsFiniteSet(S) /\ n \in Nat /\ IsFiniteSet(1..n) /\ Cardinality(1..n) = n
  <2>1. IsFiniteSet(S) /\ n \in Nat
    BY RankOf
  <2> QED
    BY <2>1, FS_Interval
<1>2. f \in [S -> 1..n]
  BY RankOf
<1>3. \A p, q \in S : f[p] = f[q] => p = q
  BY RankDiffers
<1>4. f \in Injection(S, 1..n)
  BY <1>2, <1>3 DEF Injection, IsInjective
<1>5. f \in Surjection(S, 1..n)
  BY <1>1, <1>4, FS_Injection
<1> QED
  BY <1>5 DEF Surjection

(* A strict listing has all of its paths, in order; and it is the only one. *)
Lists(s, S) ==
  /\ DOMAIN s = 1..Cardinality(S)
  /\ \A i \in 1..Cardinality(S) : s[i] \in S
  /\ \A p \in S : \E i \in 1..Cardinality(S) : s[i] = p
  /\ \A i, j \in 1..Cardinality(S) : i < j => Position(s[i]) < Position(s[j])

LEMMA SortedLists ==
  ASSUME NEW S \in SUBSET AllPaths PROVE Lists(Sorted(S), S)
<1> DEFINE n == Cardinality(S)
           s == Sorted(S)
<1>1. n \in Nat
  BY RankOf
<1>2. DOMAIN s = 1..n /\ \A i \in 1..n : s[i] \in S /\ Rank(s[i], S) = i
  <2>1. \A i \in 1..n : \E p \in S : Rank(p, S) = i
    BY RankReached
  <2>2. \A i \in 1..n : s[i] = CHOOSE p \in S : Rank(p, S) = i
    BY DEF Sorted
  <2>3. DOMAIN s = 1..n
    BY DEF Sorted
  <2> QED
    BY <2>1, <2>2, <2>3
<1>3. \A p \in S : \E i \in 1..n : s[i] = p
  <2> TAKE p \in S
  <2>1. Rank(p, S) \in 1..n
    BY RankOf
  <2>2. s[Rank(p, S)] = p
    BY <1>2, <2>1, RankDiffers
  <2> QED
    BY <2>1, <2>2
<1>4. ASSUME NEW i \in 1..n, NEW j \in 1..n, i < j PROVE Position(s[i]) < Position(s[j])
  <2>1. s[i] \in S /\ s[j] \in S /\ Rank(s[i], S) < Rank(s[j], S)
    BY <1>2, <1>4
  <2> HIDE DEF s
  <2>2. Position(s[i]) \in Nat /\ Position(s[j]) \in Nat /\ Rank(s[i], S) \in Nat /\ Rank(s[j], S) \in Nat
    BY <2>1, PositionOf, RankOf
  <2>3. CASE Position(s[j]) < Position(s[i])
    <3>1. Rank(s[j], S) < Rank(s[i], S)
      BY <2>1, <2>3, RankOf
    <3> QED
      BY <2>1, <2>2, <3>1
  <2>4. CASE Position(s[j]) = Position(s[i])
    <3>1. s[i] = s[j]
      BY <2>1, <2>4, PositionDiffers
    <3> QED
      BY <2>1, <2>2, <3>1
  <2> QED
    BY <2>2, <2>3, <2>4
<1> QED
  BY <1>2, <1>3, <1>4 DEF Lists

Spells(s, m, S) ==
  /\ S \in SUBSET AllPaths /\ m \in Nat /\ DOMAIN s = 1..m
  /\ \A i \in 1..m : s[i] \in S
  /\ \A p \in S : \E i \in 1..m : s[i] = p
  /\ \A i, j \in 1..m : i < j => Position(s[i]) < Position(s[j])

LEMMA OnlyListing ==
  ASSUME NEW S, NEW m, NEW s, Spells(s, m, S)
  PROVE  m = Cardinality(S) /\ \A i \in 1..m : s[i] = Sorted(S)[i]
<1>0. /\ S \in SUBSET AllPaths /\ m \in Nat /\ DOMAIN s = 1..m
      /\ \A i \in 1..m : s[i] \in S
      /\ \A p \in S : \E i \in 1..m : s[i] = p
      /\ \A i, j \in 1..m : i < j => Position(s[i]) < Position(s[j])
  BY DEF Spells
<1> USE <1>0
<1> DEFINE f(k) == [i \in 1..k |-> s[i]]
<1>1. \A i, j \in 1..m : s[i] = s[j] => i = j
  <2> SUFFICES ASSUME NEW i \in 1..m, NEW j \in 1..m, s[i] = s[j] PROVE i = j
    OBVIOUS
  <2>1. Position(s[i]) \in Nat
    BY PositionOf
  <2>2. ~(i < j) /\ ~(j < i)
    BY <2>1
  <2> QED
    BY <2>2
<1>2. ASSUME NEW k \in 0..m, NEW T, \A i \in 1..k : s[i] \in T, \A p \in T : \E i \in 1..k : s[i] = p
      PROVE  Cardinality(T) = k
  <2>1. f(k) \in [1..k -> T]
    BY <1>2
  <2>2. f(k) \in Bijection(1..k, T)
    <3>1. \A i, j \in 1..k : f(k)[i] = f(k)[j] => i = j
      BY <1>1
    <3>2. \A p \in T : \E i \in 1..k : f(k)[i] = p
      BY <1>2
    <3> QED
      BY <2>1, <3>1, <3>2 DEF Bijection, Injection, Surjection, IsInjective
  <2>3. ExistsBijection(1..k, T)
    BY <2>2 DEF ExistsBijection
  <2>4. IsFiniteSet(1..k) /\ Cardinality(1..k) = k
    BY FS_Interval
  <2> QED
    BY <2>3, <2>4, FS_Bijection
<1>3. m = Cardinality(S)
  BY <1>2
<1>4. ASSUME NEW i \in 1..m PROVE Rank(s[i], S) = i
  <2>1. \A j \in 1..m : Position(s[j]) \in Nat
    BY PositionOf
  <2>2. \A j \in 1..m : Position(s[j]) <= Position(s[i]) <=> j <= i
    <3> TAKE j \in 1..m
    <3>1. j < i => Position(s[j]) < Position(s[i])
      OBVIOUS
    <3>2. i < j => Position(s[i]) < Position(s[j])
      OBVIOUS
    <3> QED
      BY <2>1, <3>1, <3>2
  <2> DEFINE T == Upto(s[i], S)
  <2>3. \A j \in 1..i : s[j] \in T
    BY <2>2 DEF Upto
  <2>4. \A p \in T : \E j \in 1..i : s[j] = p
    <3> SUFFICES ASSUME NEW p \in T PROVE \E j \in 1..i : s[j] = p
      OBVIOUS
    <3>1. PICK j \in 1..m : s[j] = p
      BY DEF Upto
    <3>2. j <= i
      BY <2>2, <3>1 DEF Upto
    <3> QED
      BY <3>1, <3>2
  <2> HIDE DEF T
  <2>5. Cardinality(T) = i
    BY <1>2, <2>3, <2>4
  <2> QED
    BY <2>5 DEF T, Rank, Upto
<1>5. ASSUME NEW i \in 1..m PROVE s[i] = Sorted(S)[i]
  <2>1. Sorted(S)[i] = CHOOSE p \in S : Rank(p, S) = i
    BY <1>3 DEF Sorted
  <2>2. Sorted(S)[i] \in S /\ Rank(Sorted(S)[i], S) = i
    BY <1>4, <2>1
  <2> QED
    BY <1>4, <2>2, RankDiffers
<1> QED
  BY <1>3, <1>5


(* Listings: what they list, and that nothing else lists it.               *)
LEMMA ListingIs ==
  ASSUME NEW S \in SUBSET AllPaths, NEW files
  PROVE  /\ Cardinality(S) \in Nat
         /\ DOMAIN Listing(files, S) = 1..Cardinality(S)
         /\ \A i \in 1..Cardinality(S) :
              Listing(files, S)[i] = <<Sorted(S)[i], files[Sorted(S)[i]]>>
<1>1. DOMAIN Sorted(S) = 1..Cardinality(S)
  BY DEF Sorted
<1> QED
  BY <1>1, RankOf DEF Listing

LEMMA ListingsAgree ==
  ASSUME NEW S \in SUBSET AllPaths, NEW f, NEW g, \A p \in S : f[p] = g[p]
  PROVE  Listing(f, S) = Listing(g, S)
<1>1. \A i \in DOMAIN Sorted(S) : Sorted(S)[i] \in S
  <2>1. DOMAIN Sorted(S) = 1..Cardinality(S)
    BY DEF Sorted
  <2> QED
    BY <2>1, SortedLists DEF Lists
<1> DEFINE s == Sorted(S)
<1>2. \A i \in DOMAIN s : <<s[i], f[s[i]]>> = <<s[i], g[s[i]]>>
  BY <1>1
<1>3. Listing(f, S) = [i \in DOMAIN s |-> <<s[i], f[s[i]]>>]
  BY DEF Listing
<1>4. Listing(g, S) = [i \in DOMAIN s |-> <<s[i], g[s[i]]>>]
  BY DEF Listing
<1> HIDE DEF s
<1> QED
  BY <1>2, <1>3, <1>4

LEMMA SortedRange ==
  ASSUME NEW S \in SUBSET AllPaths PROVE Strictly(Sorted(S)) /\ Range(Sorted(S)) = S
<1>1. Lists(Sorted(S), S)
  BY SortedLists
<1> DEFINE s == Sorted(S)
<1> HIDE DEF s
<1>2. DOMAIN s = 1..Cardinality(S)
  BY <1>1 DEF Lists, s
<1>3. Strictly(s)
  BY <1>1, <1>2 DEF Lists, s, Strictly
<1>4. Range(s) = S
  BY <1>1, <1>2 DEF Lists, s, Range
<1> QED
  BY <1>3, <1>4 DEF s

LEMMA OnlyPaths ==
  ASSUME NEW list \in Seq(AllPaths), Strictly(list)
  PROVE  Range(list) \in SUBSET AllPaths /\ list = Sorted(Range(list))
<1> DEFINE S == Range(list)
           m == Len(list)
<1>1. m \in Nat /\ DOMAIN list = 1..m /\ \A i \in 1..m : list[i] \in AllPaths
  OBVIOUS
<1>2. S \in SUBSET AllPaths /\ (\A i \in 1..m : list[i] \in S)
      /\ \A p \in S : \E i \in 1..m : list[i] = p
  BY <1>1 DEF Range
<1>3. \A i, j \in 1..m : i < j => Position(list[i]) < Position(list[j])
  BY <1>1 DEF Strictly
<1> HIDE DEF S, m
<1>4. m = Cardinality(S) /\ \A i \in 1..m : list[i] = Sorted(S)[i]
  <2>1. Spells(list, m, S)
    BY ONLY <1>1, <1>2, <1>3 DEF Spells
  <2> QED
    BY ONLY <2>1, OnlyListing
<1>5. Sorted(S) = [i \in 1..m |-> Sorted(S)[i]]
  BY <1>4 DEF Sorted
<1>6. list = [i \in 1..m |-> list[i]]
  BY DEF m
<1>7. list = Sorted(S)
  BY <1>4, <1>5, <1>6
<1> QED
  BY <1>2, <1>7 DEF S

LEMMA OnlyFiles ==
  ASSUME NEW S \in SUBSET AllPaths, NEW files, NEW list, list \in Seq(Range(list)),
         \A entry \in Range(list) : entry = <<entry[1], entry[2]>>,
         {list[i][1] : i \in DOMAIN list} = S, Ascending(list),
         \A i \in DOMAIN list : list[i][2] = files[list[i][1]]
  PROVE  list = Listing(files, S)
<1> DEFINE m == Len(list)
           s == [i \in 1..m |-> list[i][1]]
<1>1. m \in Nat /\ DOMAIN list = 1..m /\ list = [i \in 1..m |-> list[i]]
  OBVIOUS
<1>2. \A i \in 1..m : list[i] = <<list[i][1], list[i][2]>>
  BY <1>1 DEF Range
<1>3. DOMAIN s = 1..m /\ \A i \in 1..m : s[i] = list[i][1] /\ s[i] \in S
  BY <1>1
<1>4. \A p \in S : \E i \in 1..m : s[i] = p
  BY <1>1
<1>5. \A i, j \in 1..m : i < j => Position(s[i]) < Position(s[j])
  BY <1>1, <1>3 DEF Ascending
<1> HIDE DEF m, s
<1>6. m = Cardinality(S) /\ \A i \in 1..m : s[i] = Sorted(S)[i]
  <2>1. S \in SUBSET AllPaths /\ m \in Nat /\ DOMAIN s = 1..m
    BY ONLY S \in SUBSET AllPaths, <1>1, <1>3
  <2>2. \A i \in 1..m : s[i] \in S
    BY ONLY <1>3
  <2>3. Spells(s, m, S)
    BY ONLY <1>4, <1>5, <2>1, <2>2 DEF Spells
  <2> QED
    BY ONLY <2>3, OnlyListing
<1>7. \A i \in 1..m : list[i] = <<Sorted(S)[i], files[Sorted(S)[i]]>>
  BY <1>1, <1>2, <1>3, <1>6
<1>8. DOMAIN Sorted(S) = 1..m
  BY <1>6 DEF Sorted
<1>9. Listing(files, S) = [i \in 1..m |-> <<Sorted(S)[i], files[Sorted(S)[i]]>>]
  BY <1>8 DEF Listing
<1> QED
  BY <1>1, <1>7, <1>9

-----------------------------------------------------------------------------
(* What is built of a payload, and that its two lists fix it.              *)
Bundles(B, payload, X) ==
  /\ DOMAIN B = DOMAIN payload \cup Generated
  /\ \A p \in DOMAIN payload : B[p] = payload[p]
  /\ B["BUNDLE-MANIFEST.json"] = <<"manifest", Manifest(payload, X)>>
  /\ B["BUNDLE-SHA256SUMS"] = <<"sums", Sums(B)>>

LEMMA BundleIs ==
  ASSUME NEW payload, DOMAIN payload \in SUBSET (AllPaths \ Generated), NEW X
  PROVE  Bundles(Bundle(payload, X), payload, X)
<1> DEFINE P == DOMAIN payload
           B == Bundle(payload, X)
           W == WithManifest(payload, X)
           T == P \cup {"BUNDLE-MANIFEST.json"}
           M == Manifest(payload, X)
           sums == <<"sums", Sums(W)>>
<1>1. /\ "BUNDLE-MANIFEST.json" \notin P /\ "BUNDLE-SHA256SUMS" \notin T
      /\ "BUNDLE-MANIFEST.json" \in T /\ T \in SUBSET AllPaths
      /\ T \cup {"BUNDLE-SHA256SUMS"} = P \cup Generated /\ P \in SUBSET T
  BY ImageAssumption DEF Generated
<1>2. /\ DOMAIN W = T /\ \A p \in P : W[p] = payload[p]
      /\ W["BUNDLE-MANIFEST.json"] = <<"manifest", M>>
  <2> HIDE DEF M
  <2>1. W = [p \in T |-> IF p \in P THEN payload[p] ELSE <<"manifest", M>>]
    BY DEF WithManifest, M
  <2> HIDE DEF W, T
  <2> QED
    BY <1>1, <2>1
<1> HIDE DEF W, M, T
<1>3. B = [p \in T \cup {"BUNDLE-SHA256SUMS"} |-> IF p \in T THEN W[p] ELSE sums]
  BY <1>2 DEF Bundle, W
<1> HIDE DEF B, sums
<1>4. /\ DOMAIN B = P \cup Generated /\ (\A p \in T : B[p] = W[p])
      /\ B["BUNDLE-SHA256SUMS"] = sums
  BY <1>1, <1>3
<1>5. Sums(B) = Sums(W)
  <2>1. DOMAIN B \ {"BUNDLE-SHA256SUMS"} = T /\ DOMAIN W \ {"BUNDLE-SHA256SUMS"} = T
    BY <1>1, <1>2, <1>4
  <2>2. Listing(B, T) = Listing(W, T)
    BY <1>1, <1>4, ListingsAgree
  <2> QED
    BY <2>1, <2>2 DEF Sums
<1> QED
  BY <1>1, <1>2, <1>4, <1>5 DEF B, M, sums, Bundles

LEMMA OnlyBundle ==
  ASSUME NEW payload, DOMAIN payload \in SUBSET (AllPaths \ Generated), NEW X,
         NEW files, files = [p \in DOMAIN files |-> files[p]], Bundles(files, payload, X)
  PROVE  files = Bundle(payload, X)
<1> DEFINE P == DOMAIN payload
           B == Bundle(payload, X)
           T == P \cup {"BUNDLE-MANIFEST.json"}
<1>1. /\ DOMAIN B = P \cup Generated
      /\ \A p \in P : B[p] = payload[p]
      /\ B["BUNDLE-MANIFEST.json"] = <<"manifest", Manifest(payload, X)>>
      /\ B["BUNDLE-SHA256SUMS"] = <<"sums", Sums(B)>>
  BY BundleIs DEF Bundles
<1>2. B = [p \in P \cup Generated |-> B[p]]
  <2>1. B = [p \in DOMAIN B |-> B[p]]
    BY DEF Bundle
  <2> HIDE DEF B
  <2> QED
    BY <1>1, <2>1
<1> HIDE DEF B
<1>3. /\ DOMAIN files = P \cup Generated
      /\ \A p \in P : files[p] = payload[p]
      /\ files["BUNDLE-MANIFEST.json"] = <<"manifest", Manifest(payload, X)>>
      /\ files["BUNDLE-SHA256SUMS"] = <<"sums", Sums(files)>>
  BY DEF Bundles
<1>4. T \in SUBSET AllPaths /\ (P \cup Generated) \ {"BUNDLE-SHA256SUMS"} = T
  BY ImageAssumption DEF Generated
<1>5. \A p \in T : files[p] = B[p]
  BY <1>1, <1>3
<1> HIDE DEF T
<1>6. Listing(files, T) = Listing(B, T)
  BY <1>4, <1>5, ListingsAgree
<1>7. Sums(files) = Sums(B)
  BY <1>1, <1>3, <1>4, <1>6 DEF Sums
<1>8. \A p \in P \cup Generated : files[p] = B[p]
  <2>1. files["BUNDLE-SHA256SUMS"] = B["BUNDLE-SHA256SUMS"]
    BY <1>1, <1>3, <1>7
  <2>2. files["BUNDLE-MANIFEST.json"] = B["BUNDLE-MANIFEST.json"]
    BY <1>1, <1>3
  <2> QED
    BY <1>1, <1>3, <2>1, <2>2 DEF Generated
<1>9. files = B
  BY <1>2, <1>3, <1>8
<1> QED
  BY <1>9 DEF B

-----------------------------------------------------------------------------
(* The members of an archive whose paths differ.                           *)
LEMMA MembersAre ==
  ASSUME NEW a, NEW n \in Nat, DOMAIN a.members = 1..n,
         \A i, j \in 1..n : a.members[i].path = a.members[j].path => i = j
  PROVE  /\ DOMAIN FileOf(a) = Names(a) /\ DOMAIN ModeOf(a) = Names(a)
         /\ \A i \in 1..n :
              /\ a.members[i].path \in Names(a)
              /\ FileOf(a)[a.members[i].path] = a.members[i].data
              /\ ModeOf(a)[a.members[i].path] = a.members[i].mode
<1>1. ASSUME NEW i \in 1..n
      PROVE  /\ a.members[i].path \in Names(a)
             /\ FileOf(a)[a.members[i].path] = a.members[i].data
             /\ ModeOf(a)[a.members[i].path] = a.members[i].mode
  <2> DEFINE p == a.members[i].path
             k == CHOOSE j \in DOMAIN a.members : a.members[j].path = p
  <2>1. p \in Names(a)
    BY DEF Names
  <2>2. k \in DOMAIN a.members /\ a.members[k].path = p
    OBVIOUS
  <2>3. k = i
    BY <2>2
  <2> HIDE DEF p
  <2>4. FileOf(a)[p] = a.members[k].data /\ ModeOf(a)[p] = a.members[k].mode
    BY <2>1 DEF FileOf, ModeOf
  <2> QED
    BY <2>1, <2>3, <2>4 DEF p
<1>2. DOMAIN FileOf(a) = Names(a) /\ DOMAIN ModeOf(a) = Names(a)
  BY DEF FileOf, ModeOf
<1> QED
  BY <1>1, <1>2


-----------------------------------------------------------------------------
(* The checks of a verification.                                           *)
LEMMA FirstPasses ==
  ASSUME NEW checks, NEW n \in Nat, DOMAIN checks = 1..n,
         \A i \in 1..n : checks[i][1] # "ok"
  PROVE  First(checks) = "ok" <=> \A i \in 1..n : ~checks[i][2]
<1> DEFINE failing == {i \in DOMAIN checks : checks[i][2]}
<1>1. CASE failing = {}
  BY <1>1 DEF First
<1>2. CASE failing # {}
  <2>1. failing \in SUBSET Nat
    OBVIOUS
  <2>2. Min(failing) \in failing
    BY <1>2, <2>1, MinOf
  <2> QED
    BY <1>2, <2>2 DEF First
<1> QED
  BY <1>1, <1>2

ReadPassed(a) ==
  /\ a.gzip = "one"
  /\ ~\E i \in DOMAIN a.members : ~a.members[i].plain \/ a.members[i].mode \notin {644, 755}
  /\ InOrder(a)
  /\ Cardinality(Names(a)) = Len(a.members)
  /\ ~\E i \in DOMAIN a.members : a.members[i].root # a.root
  /\ ~Misplaced(a)
  /\ ~\E pair \in Below : {pair[1], pair[2]} \subseteq Names(a)
  /\ ~a.tail /\ Names(a) \subseteq Canonical

LEMMA ReadPasses ==
  ASSUME NEW a PROVE ReadCheck(a) = "ok" <=> ReadPassed(a)
<1> DEFINE metadata == \E i \in DOMAIN a.members :
             ~a.members[i].plain \/ a.members[i].mode \notin {644, 755}
           disorder == ~InOrder(a)
           duplicate == Cardinality(Names(a)) # Len(a.members)
           root == \E i \in DOMAIN a.members : a.members[i].root # a.root
           path == Misplaced(a)
           conflict == \E pair \in Below : {pair[1], pair[2]} \subseteq Names(a)
           tar == a.tail \/ ~(Names(a) \subseteq Canonical)
           checks == << <<"gzip", a.gzip # "one">>, <<"metadata", metadata>>, <<"order", disorder>>,
             <<"duplicate", duplicate>>, <<"root", root>>, <<"path", path>>,
             <<"conflict", conflict>>, <<"tar", tar>> >>
<1>1. ReadCheck(a) = First(checks)
  BY DEF ReadCheck
<1> HIDE DEF metadata, disorder, duplicate, root, path, conflict, tar
<1>2. DOMAIN checks = 1..8 /\ \A i \in 1..8 : checks[i][1] # "ok"
  OBVIOUS
<1>3. /\ checks[1][2] <=> a.gzip # "one"
      /\ checks[2][2] <=> metadata
      /\ checks[3][2] <=> disorder
      /\ checks[4][2] <=> duplicate
      /\ checks[5][2] <=> root
      /\ checks[6][2] <=> path
      /\ checks[7][2] <=> conflict
      /\ checks[8][2] <=> tar
  OBVIOUS
<1> HIDE DEF checks
<1>4. First(checks) = "ok" <=> \A i \in 1..8 : ~checks[i][2]
  BY <1>2, FirstPasses
<1>5. First(checks) = "ok" <=>
        ~checks[1][2] /\ ~checks[2][2] /\ ~checks[3][2] /\ ~checks[4][2] /\ ~checks[5][2]
          /\ ~checks[6][2] /\ ~checks[7][2] /\ ~checks[8][2]
  BY <1>4
<1> QED
  <2>1. ReadCheck(a) = "ok" <=>
          a.gzip = "one" /\ ~metadata /\ ~disorder /\ ~duplicate /\ ~root /\ ~path /\ ~conflict /\ ~tar
    BY ONLY <1>1, <1>3, <1>5, Zenon
  <2>2. (~disorder <=> InOrder(a)) /\ (~duplicate <=> Cardinality(Names(a)) = Len(a.members))
    BY Zenon DEF disorder, duplicate
  <2>3. (~path <=> ~Misplaced(a)) /\ (~tar <=> ~a.tail /\ Names(a) \subseteq Canonical)
    BY Zenon DEF path, tar
  <2>4. ReadPassed(a) <=>
          /\ a.gzip = "one" /\ ~metadata /\ InOrder(a) /\ Cardinality(Names(a)) = Len(a.members)
          /\ ~root /\ ~Misplaced(a) /\ ~conflict /\ ~a.tail /\ Names(a) \subseteq Canonical
    BY ONLY Zenon DEF ReadPassed, metadata, root, conflict
  <2> QED
    BY ONLY <2>1, <2>2, <2>3, <2>4, Zenon

(* What is refused by its form has a label of its own.                     *)
LEMMA ReadLabels ==
  ASSUME NEW a, ReadCheck(a) # "ok" PROVE ReadCheck(a) \notin {"ok", "mode"}
<1> DEFINE conflict == \E pair \in Below : {pair[1], pair[2]} \subseteq Names(a)
           checks == << <<"gzip", a.gzip # "one">>,
             <<"metadata", \E i \in DOMAIN a.members :
                 ~a.members[i].plain \/ a.members[i].mode \notin {644, 755}>>,
             <<"order", ~InOrder(a)>>, <<"duplicate", Cardinality(Names(a)) # Len(a.members)>>,
             <<"root", \E i \in DOMAIN a.members : a.members[i].root # a.root>>,
             <<"path", Misplaced(a)>>, <<"conflict", conflict>>,
             <<"tar", a.tail \/ ~(Names(a) \subseteq Canonical)>> >>
           failing == {i \in DOMAIN checks : checks[i][2]}
<1>1. ReadCheck(a) = First(checks)
  BY DEF ReadCheck
<1>2. DOMAIN checks = 1..8 /\ \A i \in 1..8 : checks[i][1] # "mode"
  OBVIOUS
<1> HIDE DEF checks
<1>3. failing # {}
  BY <1>1 DEF First
<1>4. Min(failing) \in 1..8
  <2>1. failing \in SUBSET Nat
    BY <1>2
  <2> HIDE DEF failing
  <2>2. Min(failing) \in failing
    BY <1>3, <2>1, MinOf
  <2> QED
    BY <1>2, <2>2 DEF failing
<1>5. First(checks) = checks[Min(failing)][1]
  BY <1>3 DEF First
<1> QED
  BY <1>1, <1>2, <1>4, <1>5

PayloadPassed(files, m) ==
  LET listed == {m.files[i][1] : i \in DOMAIN m.files}
  IN  /\ Generated \subseteq DOMAIN files
      /\ files["BUNDLE-MANIFEST.json"][1] = "manifest"
      /\ m.formed
      /\ VersionFile \in Payload(files) /\ files[VersionFile] = m.version
      /\ Ascending(m.files) /\ ~\E p \in listed : Leaves(p) \/ p \in Generated
      /\ Membership(listed, Payload(files)) /\ RequiredPaths \subseteq Payload(files)
      /\ ~\E i \in DOMAIN m.files :
           m.files[i][1] \in Payload(files) /\ m.files[i][2] # files[m.files[i][1]]
      /\ Lock \in Payload(files) /\ m.lock = files[Lock]
      /\ Strictly(m.executable) /\ Range(m.executable) \subseteq Payload(files)
      /\ files["BUNDLE-SHA256SUMS"] = <<"sums", Sums(files)>>
      /\ Closure \in Payload(files) /\ ClosureHolds(files)

LEMMA PayloadPasses ==
  ASSUME NEW files, NEW m, m = files["BUNDLE-MANIFEST.json"][2]
  PROVE  PayloadCheck(files) = "ok" <=> PayloadPassed(files, m)
<1> DEFINE listed == {m.files[i][1] : i \in DOMAIN m.files}
           version == VersionFile \notin Payload(files) \/ files[VersionFile] # m.version
           entries == ~Ascending(m.files) \/ \E p \in listed : Leaves(p) \/ p \in Generated
           membership == ~Membership(listed, Payload(files)) \/ ~(RequiredPaths \subseteq Payload(files))
           member == \E i \in DOMAIN m.files :
             m.files[i][1] \in Payload(files) /\ m.files[i][2] # files[m.files[i][1]]
           lock == Lock \notin Payload(files) \/ m.lock # files[Lock]
           executable == ~Strictly(m.executable) \/ ~(Range(m.executable) \subseteq Payload(files))
           sums == files["BUNDLE-SHA256SUMS"] # <<"sums", Sums(files)>>
           closure == Closure \notin Payload(files) \/ ~ClosureHolds(files)
           checks == << <<"manifest", ~m.formed>>, <<"version", version>>, <<"entries", entries>>,
             <<"membership", membership>>, <<"member", member>>, <<"lock", lock>>,
             <<"executable", executable>>, <<"sums", sums>>, <<"closure", closure>> >>
           complete == Generated \subseteq DOMAIN files
           typed == files["BUNDLE-MANIFEST.json"][1] = "manifest"
<1>1. PayloadCheck(files) = IF ~complete THEN "metadata files" ELSE IF ~typed THEN "manifest" ELSE First(checks)
  BY DEF PayloadCheck
<1> HIDE DEF listed, version, entries, membership, member, lock, executable, sums, closure, complete, typed
<1>2. DOMAIN checks = 1..9 /\ \A i \in 1..9 : checks[i][1] # "ok"
  OBVIOUS
<1>3. /\ checks[1][2] <=> ~m.formed
      /\ checks[2][2] <=> version
      /\ checks[3][2] <=> entries
      /\ checks[4][2] <=> membership
      /\ checks[5][2] <=> member
      /\ checks[6][2] <=> lock
      /\ checks[7][2] <=> executable
      /\ checks[8][2] <=> sums
      /\ checks[9][2] <=> closure
  OBVIOUS
<1> HIDE DEF checks
<1>4. First(checks) = "ok" <=> \A i \in 1..9 : ~checks[i][2]
  BY <1>2, FirstPasses
<1>5. First(checks) = "ok" <=>
        ~checks[1][2] /\ ~checks[2][2] /\ ~checks[3][2] /\ ~checks[4][2] /\ ~checks[5][2]
          /\ ~checks[6][2] /\ ~checks[7][2] /\ ~checks[8][2] /\ ~checks[9][2]
  BY <1>4
<1>6. PayloadCheck(files) = "ok" <=> complete /\ typed /\ First(checks) = "ok"
  BY <1>1
<1>7. PayloadCheck(files) = "ok" <=>
        /\ complete /\ typed /\ ~(~m.formed) /\ ~version /\ ~entries /\ ~membership
        /\ ~member /\ ~lock /\ ~executable /\ ~sums /\ ~closure
  BY <1>3, <1>5, <1>6, Zenon
<1> QED
  BY <1>7, Zenon
  DEF complete, typed, version, entries, membership, member, lock, executable, sums, closure,
      PayloadPassed, listed


LEMMA VerifyPasses ==
  ASSUME NEW a, NEW files, files = FileOf(a),
         NEW X, X = Range(files["BUNDLE-MANIFEST.json"][2].executable)
  PROVE  VerifyCheck(a) = "ok" <=>
           /\ ReadCheck(a) = "ok" /\ PayloadCheck(files) = "ok"
           /\ a.root = <<"root", files[VersionFile]>>
           /\ ~\E p \in DOMAIN files : ModeOf(a)[p] # Mode(p, X)
<1> DEFINE mode == \E p \in DOMAIN files : ModeOf(a)[p] # Mode(p, X)
           root == a.root # <<"root", files[VersionFile]>>
<1>1. VerifyCheck(a) =
        IF ReadCheck(a) # "ok" THEN ReadCheck(a)
        ELSE IF PayloadCheck(files) # "ok" THEN PayloadCheck(files)
        ELSE IF root THEN "root" ELSE IF mode THEN "mode" ELSE "ok"
  BY DEF VerifyCheck
<1> HIDE DEF mode, root
<1>2. VerifyCheck(a) = "ok" <=> ReadCheck(a) = "ok" /\ PayloadCheck(files) = "ok" /\ ~root /\ ~mode
  BY <1>1
<1> QED
  BY <1>2, Zenon DEF mode, root

(* The members of an archive that was read are its paths in order.         *)
LEMMA ReadMembers ==
  ASSUME NEW a, IsArchive(a), ReadCheck(a) = "ok"
  PROVE  LET n == Cardinality(Names(a))
         IN  /\ n \in Nat /\ Names(a) \in SUBSET AllPaths
             /\ DOMAIN FileOf(a) = Names(a) /\ DOMAIN ModeOf(a) = Names(a)
             /\ a.members = [i \in 1..n |-> a.members[i]]
             /\ \A i \in 1..n :
                  /\ IsMember(a.members[i])
                  /\ a.members[i].path = Sorted(Names(a))[i] /\ a.members[i].path \in Names(a)
                  /\ FileOf(a)[a.members[i].path] = a.members[i].data
                  /\ ModeOf(a)[a.members[i].path] = a.members[i].mode
             /\ \A p \in Names(a) : \E i \in 1..n : a.members[i].path = p
<1> DEFINE N == Names(a)
           n == Len(a.members)
           s == [i \in 1..n |-> a.members[i].path]
<1>1. /\ n \in Nat /\ DOMAIN a.members = 1..n /\ a.members = [i \in 1..n |-> a.members[i]]
      /\ \A i \in 1..n : IsMember(a.members[i]) /\ a.members[i].path \in AllPaths
  BY DEF IsArchive, IsMember, Range
<1>2. /\ N \in SUBSET AllPaths /\ \A i \in 1..n : a.members[i].path \in N
      /\ \A p \in N : \E i \in 1..n : a.members[i].path = p
  BY <1>1 DEF Names
<1>3. InOrder(a) /\ Cardinality(N) = n
  BY ReadPasses DEF ReadPassed
<1>4. DOMAIN s = 1..n /\ \A i \in 1..n : s[i] = a.members[i].path
  OBVIOUS
<1>5. s \in Surjection(1..n, N)
  BY <1>2 DEF Surjection
<1>6. \A i, j \in 1..n : s[i] = s[j] => i = j
  <2> HIDE DEF s, N, n
  <2>1. n \in Nat
    BY <1>1
  <2>2. IsFiniteSet(1..n) /\ Cardinality(1..n) = n
    BY ONLY <2>1, FS_Interval
  <2>3. s \in Injection(1..n, N)
    BY ONLY <1>3, <1>5, <2>2, FS_Surjection
  <2> QED
    BY ONLY <2>3 DEF Injection, IsInjective
<1> HIDE DEF s
<1>7. \A i, j \in 1..n : i < j => Position(s[i]) < Position(s[j])
  <2> SUFFICES ASSUME NEW i \in 1..n, NEW j \in 1..n, i < j PROVE Position(s[i]) < Position(s[j])
    OBVIOUS
  <2>1. Position(s[i]) <= Position(s[j])
    BY <1>1, <1>3, <1>4 DEF InOrder
  <2>2. s[i] \in AllPaths /\ s[j] \in AllPaths /\ s[i] # s[j]
    BY <1>1, <1>4, <1>6
  <2>3. Position(s[i]) \in Nat /\ Position(s[j]) \in Nat /\ Position(s[i]) # Position(s[j])
    BY <2>2, PositionOf, PositionDiffers
  <2> QED
    BY <2>1, <2>3
<1> HIDE DEF N, n
<1>8. /\ N \in SUBSET AllPaths /\ n \in Nat /\ DOMAIN s = 1..n
      /\ \A i \in 1..n : s[i] \in N
      /\ \A p \in N : \E i \in 1..n : s[i] = p
  BY <1>1, <1>2, <1>4
<1>9. \A i \in 1..n : s[i] = Sorted(N)[i]
  <2>1. DOMAIN s = 1..n /\ \A i \in 1..n : s[i] \in N
    BY ONLY <1>8
  <2>2. \A p \in N : \E i \in 1..n : s[i] = p
    BY ONLY <1>8
  <2>3. N \in SUBSET AllPaths /\ n \in Nat
    BY ONLY <1>8
  <2>4. Spells(s, n, N)
    BY ONLY <1>7, <2>1, <2>2, <2>3 DEF Spells
  <2> QED
    BY ONLY <2>4, OnlyListing
<1>10. \A i, j \in 1..n : a.members[i].path = a.members[j].path => i = j
  BY <1>4, <1>6
<1>11. /\ DOMAIN FileOf(a) = N /\ DOMAIN ModeOf(a) = N
       /\ \A i \in 1..n :
            /\ FileOf(a)[a.members[i].path] = a.members[i].data
            /\ ModeOf(a)[a.members[i].path] = a.members[i].mode
  <2>1. DOMAIN a.members = 1..n /\ n \in Nat
    BY ONLY <1>1
  <2> QED
    BY ONLY <1>10, <2>1, MembersAre, Zenon DEF N
<1> QED
  BY <1>1, <1>2, <1>3, <1>4, <1>9, <1>11 DEF N

(* Verification accepts only what a build of its own files gives.          *)
LEMMA AcceptedBuilt ==
  ASSUME NEW a, IsArchive(a), VerifyCheck(a) = "ok"
  PROVE  LET files == FileOf(a)
             payload == Payload(files)
         IN  /\ InRepository(DOMAIN files)
             /\ RequiredPaths \cup {VersionFile, Lock, Closure} \subseteq payload
             /\ \A pair \in Below : ~({pair[1], pair[2]} \subseteq DOMAIN files)
             /\ ClosureHolds(files)
             /\ a = BuildOf(Restrict(files, payload), {p \in payload : ModeOf(a)[p] = 755})
<1> DEFINE files == FileOf(a)
           P == Payload(files)
           N == Names(a)
           n == Cardinality(N)
           m == files["BUNDLE-MANIFEST.json"][2]
           X == Range(m.executable)
           listed == {m.files[i][1] : i \in DOMAIN m.files}
           payload == Restrict(files, P)
<1>1. /\ ReadCheck(a) = "ok" /\ PayloadCheck(files) = "ok" /\ a.root = <<"root", files[VersionFile]>>
      /\ ~\E p \in DOMAIN files : ModeOf(a)[p] # Mode(p, X)
  BY VerifyPasses
<1>2. /\ n \in Nat /\ N \in SUBSET AllPaths /\ DOMAIN files = N /\ DOMAIN ModeOf(a) = N
      /\ a.members = [i \in 1..n |-> a.members[i]]
      /\ \A i \in 1..n :
           /\ IsMember(a.members[i])
           /\ a.members[i].path = Sorted(N)[i] /\ a.members[i].path \in N
           /\ files[a.members[i].path] = a.members[i].data
           /\ ModeOf(a)[a.members[i].path] = a.members[i].mode
      /\ \A p \in N : \E i \in 1..n : a.members[i].path = p
  BY <1>1, ReadMembers
<1>3. /\ Generated \subseteq DOMAIN files
      /\ files["BUNDLE-MANIFEST.json"][1] = "manifest"
      /\ m.formed
      /\ VersionFile \in P /\ files[VersionFile] = m.version
      /\ Ascending(m.files) /\ ~\E p \in listed : Leaves(p) \/ p \in Generated
      /\ Membership(listed, P) /\ RequiredPaths \subseteq P
      /\ ~\E i \in DOMAIN m.files :
           m.files[i][1] \in P /\ m.files[i][2] # files[m.files[i][1]]
      /\ Lock \in P /\ m.lock = files[Lock]
      /\ Strictly(m.executable) /\ Range(m.executable) \subseteq P
      /\ files["BUNDLE-SHA256SUMS"] = <<"sums", Sums(files)>>
      /\ Closure \in P /\ ClosureHolds(files)
  <2>1. PayloadPassed(files, m)
    BY <1>1, PayloadPasses
  <2> HIDE DEF files, m, P, X
  <2> QED
    BY ONLY <2>1 DEF PayloadPassed, P
<1>4. files = [p \in N |-> files[p]]
  BY DEF FileOf
<1>5. /\ a.gzip = "one" /\ ~a.tail
      /\ \A i \in 1..n : a.members[i].plain /\ a.members[i].mode \in {644, 755} /\ a.members[i].root = a.root
      /\ \A pair \in Below : ~({pair[1], pair[2]} \subseteq N)
      /\ InRepository(N)
  <2>1. DOMAIN a.members = 1..n
    BY <1>2
  <2>2. ReadPassed(a)
    BY ONLY <1>1, ReadPasses
  <2>3. InRepository(N)
    <3>1. N \subseteq Canonical /\ ~Misplaced(a)
      BY <2>2 DEF ReadPassed
    <3> QED
      BY <1>2, <2>1, <3>1 DEF Misplaced, InRepository
  <2> QED
    BY <2>1, <2>2, <2>3 DEF ReadPassed
<1> HIDE DEF files, n
<1>6. files["BUNDLE-MANIFEST.json"] = <<"manifest", m>> /\ IsManifest(m)
  <2>1. PICK i \in 1..n : a.members[i].path = "BUNDLE-MANIFEST.json"
    BY <1>2, <1>3 DEF Generated
  <2>2. files["BUNDLE-MANIFEST.json"] = a.members[i].data /\ IsMember(a.members[i])
    BY <1>2, <2>1
  <2> QED
    BY <1>3, <2>2 DEF IsMember
<1>7. /\ P \in SUBSET (AllPaths \ Generated) /\ P \in SUBSET AllPaths /\ P \cup Generated = N
      /\ DOMAIN payload = P /\ \A p \in P : payload[p] = files[p]
  <2>1. P = N \ Generated
    BY <1>2 DEF Payload
  <2>2. Generated \subseteq N
    BY <1>2, <1>3
  <2> QED
    BY <1>2, <2>1, <2>2 DEF Restrict
<1> HIDE DEF m, N, payload
<1>8. m.files = Listing(payload, P)
  <2>1. m.files \in Seq(Range(m.files)) /\ \A entry \in Range(m.files) : entry = <<entry[1], entry[2]>>
    BY <1>6 DEF IsManifest
  <2>2. listed = P
    BY <1>3 DEF Membership
  <2>3. \A i \in DOMAIN m.files : m.files[i][2] = payload[m.files[i][1]]
    BY <1>3, <1>7, <2>2
  <2>4. Ascending(m.files)
    BY <1>3
  <2> HIDE DEF P
  <2> DEFINE list == m.files
  <2>5. list \in Seq(Range(list)) /\ (\A entry \in Range(list) : entry = <<entry[1], entry[2]>>)
        /\ {list[i][1] : i \in DOMAIN list} = P /\ Ascending(list)
        /\ \A i \in DOMAIN list : list[i][2] = payload[list[i][1]]
    BY <2>1, <2>2, <2>3, <2>4
  <2>6. P \in SUBSET AllPaths
    BY <1>7
  <2> HIDE DEF list, listed
  <2>7. list = Listing(payload, P)
    BY ONLY <2>5, <2>6, OnlyFiles, Zenon
  <2> QED
    BY <2>7 DEF list
<1>9. m.executable = Sorted(X) /\ X \in SUBSET P
  <2>1. m.executable \in Seq(AllPaths) /\ Strictly(m.executable) /\ X \in SUBSET P
    BY <1>3, <1>6 DEF IsManifest
  <2> QED
    BY <2>1, OnlyPaths
<1> HIDE DEF P, X
<1>10. m = Manifest(payload, X)
  <2>1. m.formed = TRUE
    BY <1>3, <1>6 DEF IsManifest
  <2>2. m.version = payload[VersionFile] /\ m.lock = payload[Lock]
    BY <1>3, <1>7
  <2>3. m = [formed |-> m.formed, version |-> m.version, lock |-> m.lock, files |-> m.files,
             executable |-> m.executable]
    BY <1>6 DEF IsManifest
  <2> QED
    BY <1>7, <1>8, <1>9, <2>1, <2>2, <2>3 DEF Manifest
<1>11. files = Bundle(payload, X)
  <2>1. files["BUNDLE-SHA256SUMS"] = <<"sums", Sums(files)>>
    BY <1>3
  <2>2. files["BUNDLE-MANIFEST.json"] = <<"manifest", Manifest(payload, X)>>
    BY <1>6, <1>10
  <2>3. files = [p \in DOMAIN files |-> files[p]]
    BY <1>2, <1>4
  <2>4. Bundles(files, payload, X)
    BY <1>2, <1>7, <2>1, <2>2 DEF Bundles
  <2>5. DOMAIN payload \in SUBSET (AllPaths \ Generated)
    BY <1>7
  <2> QED
    BY ONLY <2>3, <2>4, <2>5, OnlyBundle
<1>12. \A p \in N : ModeOf(a)[p] = Mode(p, X)
  BY <1>1, <1>2
<1>13. {p \in P : ModeOf(a)[p] = 755} = X
  <2>1. \A p \in P : ModeOf(a)[p] = 755 <=> p \in X
    BY <1>7, <1>12 DEF Mode
  <2> QED
    BY <1>9, <2>1
<1>14. a.members = BuildOf(payload, X).members
  <2> DEFINE built == [i \in 1..n |->
        [root |-> a.root, path |-> Sorted(N)[i], data |-> files[Sorted(N)[i]],
         mode |-> Mode(Sorted(N)[i], X), plain |-> TRUE]]
  <2>1. DOMAIN Sorted(N) = 1..n
    BY DEF Sorted, n
  <2>2. a.root = <<"root", payload[VersionFile]>>
    BY <1>1, <1>3, <1>7
  <2>3. BuildOf(payload, X).members = built
    BY <1>2, <1>11, <2>1, <2>2 DEF BuildOf
  <2>4. ASSUME NEW i \in 1..n PROVE a.members[i] = built[i]
    <3> DEFINE x == a.members[i]
    <3>1. x = [root |-> x.root, path |-> x.path, data |-> x.data, mode |-> x.mode, plain |-> x.plain]
          /\ x.plain \in BOOLEAN
      BY <1>2 DEF IsMember
    <3>2. x.root = a.root /\ x.path = Sorted(N)[i] /\ x.data = files[x.path] /\ x.plain = TRUE
      BY <1>2, <1>5, <3>1
    <3>3. x.mode = Mode(x.path, X)
      BY <1>2, <1>12
    <3> HIDE DEF x
    <3>4. x = [root |-> a.root, path |-> Sorted(N)[i], data |-> files[Sorted(N)[i]],
               mode |-> Mode(Sorted(N)[i], X), plain |-> TRUE]
      BY <3>1, <3>2, <3>3
    <3> QED
      BY <3>4 DEF x
  <2>5. a.members = built
    <3> HIDE DEF built
    <3>1. built = [i \in 1..n |-> built[i]]
      BY DEF built
    <3> QED
      BY <1>2, <2>4, <3>1
  <2> QED
    BY <2>3, <2>5
<1>15. a = BuildOf(payload, X)
  <2>1. a = [gzip |-> a.gzip, root |-> a.root, members |-> a.members, tail |-> a.tail] /\ a.tail = FALSE
    BY <1>5 DEF IsArchive
  <2>2. a.root = <<"root", payload[VersionFile]>>
    BY <1>1, <1>3, <1>7
  <2> DEFINE b == BuildOf(payload, X)
  <2>3. b = [gzip |-> "one", root |-> <<"root", payload[VersionFile]>>, tail |-> FALSE, members |-> b.members]
    BY DEF BuildOf
  <2> HIDE DEF b
  <2>4. a.members = b.members
    BY <1>14 DEF b
  <2>5. a.gzip = "one" /\ a.tail = FALSE
    BY <1>5, <2>1
  <2> DEFINE root == a.root
             members == a.members
  <2>6. a = [gzip |-> "one", root |-> root, members |-> members, tail |-> FALSE]
    BY ONLY <2>1, <2>5
  <2>7. b = [gzip |-> "one", root |-> root, tail |-> FALSE, members |-> members]
    BY ONLY <2>2, <2>3, <2>4
  <2> HIDE DEF root, members
  <2>8. a = b
    BY ONLY <2>6, <2>7
  <2> QED
    BY <2>8 DEF b
<1>16. a = BuildOf(Restrict(files, P), {p \in P : ModeOf(a)[p] = 755})
  BY <1>13, <1>15 DEF payload
<1>17. /\ RequiredPaths \cup {VersionFile, Lock, Closure} \subseteq P
       /\ ClosureHolds(files) /\ \A pair \in Below : ~({pair[1], pair[2]} \subseteq DOMAIN files)
       /\ InRepository(DOMAIN files)
  BY <1>2, <1>3, <1>5
<1> QED
  BY <1>16, <1>17 DEF files, P


(* The members of a build, and what a listing lists.                       *)
Laid(a, B, X) ==
  LET N == DOMAIN B
      n == Cardinality(N)
  IN  /\ DOMAIN a.members = 1..n /\ Len(a.members) = n
      /\ \A i \in 1..n :
           a.members[i] = [root |-> a.root, path |-> Sorted(N)[i], data |-> B[Sorted(N)[i]],
                           mode |-> Mode(Sorted(N)[i], X), plain |-> TRUE]
Listed(a, B, X) ==
  /\ Names(a) = DOMAIN B /\ DOMAIN FileOf(a) = DOMAIN B /\ InOrder(a)
  /\ \A p \in DOMAIN B : FileOf(a)[p] = B[p] /\ ModeOf(a)[p] = Mode(p, X)
  /\ DOMAIN a.members = 1..Cardinality(DOMAIN B) /\ Len(a.members) = Cardinality(DOMAIN B)
  /\ \A i \in DOMAIN a.members :
       /\ a.members[i].root = a.root /\ a.members[i].plain
       /\ a.members[i].mode \in {644, 755}
  /\ \A i, j \in DOMAIN a.members : a.members[i].path = a.members[j].path => i = j

LEMMA BuiltMembers ==
  ASSUME NEW a, NEW B, DOMAIN B \in SUBSET AllPaths, NEW X, Laid(a, B, X)
  PROVE  Listed(a, B, X)
<1> DEFINE N == DOMAIN B
           n == Cardinality(N)
           s == Sorted(N)
<1>1. n \in Nat /\ Lists(s, N) /\ N \in SUBSET AllPaths
  BY RankOf, SortedLists
<1> HIDE DEF s, N, n
<1>2. \A i \in 1..n :
        /\ a.members[i].root = a.root /\ a.members[i].plain /\ a.members[i].path = s[i]
        /\ a.members[i].data = B[s[i]] /\ a.members[i].mode = Mode(s[i], X)
  <2> TAKE i \in 1..n
  <2> DEFINE x == a.members[i]
             mode == Mode(s[i], X)
  <2>1. x = [root |-> a.root, path |-> s[i], data |-> B[s[i]], mode |-> mode, plain |-> TRUE]
    BY DEF s, N, n, Laid
  <2> HIDE DEF x, mode
  <2>2. x.root = a.root /\ x.plain = TRUE /\ x.path = s[i] /\ x.data = B[s[i]] /\ x.mode = mode
    BY ONLY <2>1
  <2> QED
    BY ONLY <2>2 DEF x, mode
<1>3. /\ \A i \in 1..n : s[i] \in N
      /\ \A p \in N : \E i \in 1..n : s[i] = p
      /\ \A i, j \in 1..n : i < j => Position(s[i]) < Position(s[j])
  BY <1>1 DEF Lists, n
<1>4. \A i \in 1..n : Position(s[i]) \in Nat
  BY <1>1, <1>3, PositionOf
<1>5. \A i, j \in 1..n : a.members[i].path = a.members[j].path => i = j
  <2> SUFFICES ASSUME NEW i \in 1..n, NEW j \in 1..n, a.members[i].path = a.members[j].path PROVE i = j
    OBVIOUS
  <2>1. s[i] = s[j]
    BY ONLY <1>2, i \in 1..n, j \in 1..n, a.members[i].path = a.members[j].path
  <2>2. ~(i < j) /\ ~(j < i)
    BY ONLY <1>3, <1>4, <2>1, i \in 1..n, j \in 1..n
  <2> QED
    BY ONLY <1>1, <2>2, i \in 1..n, j \in 1..n
<1>6. DOMAIN a.members = 1..n /\ Len(a.members) = n
  BY DEF N, n, Laid
<1>7. Names(a) = N
  BY ONLY <1>2, <1>3, <1>6 DEF Names
<1>8. InOrder(a)
  <2> SUFFICES ASSUME NEW i \in 1..n, NEW j \in 1..n, i < j
               PROVE  Position(a.members[i].path) <= Position(a.members[j].path)
    BY <1>6 DEF InOrder
  <2>1. Position(s[i]) < Position(s[j]) /\ Position(s[i]) \in Nat /\ Position(s[j]) \in Nat
    BY ONLY <1>3, <1>4, i \in 1..n, j \in 1..n, i < j
  <2>2. a.members[i].path = s[i] /\ a.members[j].path = s[j]
    BY ONLY <1>2, i \in 1..n, j \in 1..n
  <2> QED
    BY ONLY <2>1, <2>2
<1>9. /\ DOMAIN FileOf(a) = Names(a)
      /\ \A i \in 1..n : /\ FileOf(a)[a.members[i].path] = a.members[i].data
                         /\ ModeOf(a)[a.members[i].path] = a.members[i].mode
  <2>1. n \in Nat
    BY <1>1
  <2> QED
    BY ONLY <1>5, <1>6, <2>1, MembersAre, Zenon
<1>10. \A i \in 1..n : FileOf(a)[s[i]] = B[s[i]] /\ ModeOf(a)[s[i]] = Mode(s[i], X)
  BY ONLY <1>2, <1>9
<1>11. \A p \in N : FileOf(a)[p] = B[p] /\ ModeOf(a)[p] = Mode(p, X)
  BY ONLY <1>3, <1>10
<1>12. \A i \in 1..n : a.members[i].mode \in {644, 755}
  BY ONLY <1>2 DEF Mode
<1> QED
  BY ONLY <1>2, <1>5, <1>6, <1>7, <1>8, <1>9, <1>11, <1>12 DEF Listed, N, n

LEMMA ListingLists ==
  ASSUME NEW S \in SUBSET AllPaths, NEW files, NEW list, list = Listing(files, S)
  PROVE  /\ Ascending(list) /\ {list[i][1] : i \in DOMAIN list} = S
         /\ \A i \in DOMAIN list : list[i][2] = files[list[i][1]]
<1> DEFINE n == Cardinality(S)
           s == Sorted(S)
<1>1. DOMAIN list = 1..n /\ \A i \in 1..n : list[i] = <<s[i], files[s[i]]>>
  BY ListingIs
<1>2. Lists(s, S)
  BY SortedLists
<1> HIDE DEF s
<1>3. /\ \A i \in 1..n : s[i] \in S
      /\ \A p \in S : \E i \in 1..n : s[i] = p
      /\ \A i, j \in 1..n : i < j => Position(s[i]) < Position(s[j])
  BY <1>2 DEF Lists
<1> HIDE DEF n
<1>4. DOMAIN list = 1..n /\ \A i \in 1..n : list[i][1] = s[i] /\ list[i][2] = files[s[i]]
  BY ONLY <1>1
<1>5. Ascending(list)
  BY ONLY <1>3, <1>4 DEF Ascending
<1>6. {list[i][1] : i \in DOMAIN list} = S
  BY ONLY <1>3, <1>4
<1>7. \A i \in DOMAIN list : list[i][2] = files[list[i][1]]
  BY ONLY <1>4
<1> QED
  BY <1>5, <1>6, <1>7

LEMMA BuildIs ==
  ASSUME NEW a, IsArchive(a), NEW payload, NEW X, a = BuildOf(payload, X),
         DOMAIN Bundle(payload, X) \in SUBSET AllPaths
  PROVE  /\ a.gzip = "one" /\ a.tail = FALSE /\ a.root = <<"root", payload[VersionFile]>>
         /\ Laid(a, Bundle(payload, X), X)
<1> DEFINE B == Bundle(payload, X)
           N == DOMAIN B
           n == Cardinality(N)
           root == <<"root", payload[VersionFile]>>
           members == [i \in 1..n |->
             [root |-> root, path |-> Sorted(N)[i], data |-> B[Sorted(N)[i]],
              mode |-> Mode(Sorted(N)[i], X), plain |-> TRUE]]
<1>1. n \in Nat /\ DOMAIN Sorted(N) = 1..n
  BY RankOf DEF Sorted
<1>2. BuildOf(payload, X) = [gzip |-> "one", root |-> root, tail |-> FALSE, members |-> members]
  BY ONLY <1>1 DEF BuildOf
<1>3. DOMAIN members = 1..n
  OBVIOUS
<1>4. \A i \in 1..n :
        members[i] = [root |-> root, path |-> Sorted(N)[i], data |-> B[Sorted(N)[i]],
                      mode |-> Mode(Sorted(N)[i], X), plain |-> TRUE]
  OBVIOUS
<1> HIDE DEF members, root, B, N, n
<1>5. a = [gzip |-> "one", root |-> root, tail |-> FALSE, members |-> members]
  BY <1>2
<1>6. a.members = members /\ a.gzip = "one" /\ a.tail = FALSE /\ a.root = root
  BY ONLY <1>5
<1>7. a.members \in Seq(Range(a.members))
  BY DEF IsArchive
<1>8. Len(a.members) = n
  BY ONLY <1>1, <1>3, <1>6, <1>7
<1> QED
  BY ONLY <1>3, <1>4, <1>6, <1>8 DEF root, B, N, n, Laid

(* And it accepts every build whose payload has what is required.          *)
LEMMA BuiltAccepted ==
  ASSUME NEW a, IsArchive(a), NEW files, files = FileOf(a), NEW P, P = Payload(files),
         NEW X, X \in SUBSET P,
         InRepository(DOMAIN files),
         RequiredPaths \cup {VersionFile, Lock, Closure} \subseteq P,
         \A pair \in Below : ~({pair[1], pair[2]} \subseteq DOMAIN files),
         ClosureHolds(files), a = BuildOf(Restrict(files, P), X)
  PROVE  VerifyCheck(a) = "ok"
<1> DEFINE payload == Restrict(files, P)
           B == Bundle(payload, X)
           N == P \cup Generated
           n == Cardinality(N)
           m == Manifest(payload, X)
<1>1. /\ P \in SUBSET (AllPaths \ Generated) /\ N \in SUBSET AllPaths
      /\ DOMAIN payload = P /\ \A p \in P : payload[p] = files[p]
  <2>1. Names(a) \in SUBSET AllPaths
    BY DEF IsArchive, IsMember, Names, Range
  <2>2. DOMAIN files = Names(a)
    BY DEF FileOf
  <2> QED
    BY <2>1, <2>2, ImageAssumption DEF Payload, Restrict
<1>2. a = BuildOf(payload, X)
  OBVIOUS
<1> HIDE DEF payload
<1>3. /\ DOMAIN B = N
      /\ \A p \in P : B[p] = payload[p]
      /\ B["BUNDLE-MANIFEST.json"] = <<"manifest", m>>
      /\ B["BUNDLE-SHA256SUMS"] = <<"sums", Sums(B)>>
  <2>1. DOMAIN payload \in SUBSET (AllPaths \ Generated) /\ DOMAIN payload = P
    BY ONLY <1>1
  <2> HIDE DEF B
  <2>2. Bundles(B, payload, X)
    BY ONLY <2>1, BundleIs, Zenon DEF B
  <2> QED
    BY ONLY <2>1, <2>2 DEF Bundles
<1> HIDE DEF B, m
<1>4. /\ a.gzip = "one" /\ a.tail = FALSE /\ a.root = <<"root", payload[VersionFile]>>
      /\ Laid(a, B, X)
  <2>1. DOMAIN B \in SUBSET AllPaths
    BY ONLY <1>1, <1>3
  <2>2. IsArchive(a) /\ a = BuildOf(payload, X)
    BY <1>2
  <2> QED
    BY ONLY <2>1, <2>2, BuildIs, Zenon DEF B
<1>5. /\ Names(a) = N /\ DOMAIN FileOf(a) = N /\ InOrder(a)
      /\ \A p \in N : FileOf(a)[p] = B[p] /\ ModeOf(a)[p] = Mode(p, X)
      /\ DOMAIN a.members = 1..n /\ Len(a.members) = n
      /\ \A i \in DOMAIN a.members :
           /\ a.members[i].root = a.root /\ a.members[i].plain
           /\ a.members[i].mode \in {644, 755}
      /\ \A i, j \in DOMAIN a.members : a.members[i].path = a.members[j].path => i = j
  <2>1. DOMAIN B \in SUBSET AllPaths
    BY ONLY <1>1, <1>3
  <2>2. Listed(a, B, X)
    BY ONLY <1>4, <2>1, BuiltMembers, Zenon
  <2> HIDE DEF N
  <2> QED
    BY ONLY <1>3, <2>2 DEF Listed
<1> HIDE DEF N, n
<1>6. DOMAIN files = N /\ \A p \in N : files[p] = B[p]
  BY <1>5
<1>7. ReadCheck(a) = "ok"
  <2>1. ~\E i \in DOMAIN a.members : ~a.members[i].plain \/ a.members[i].mode \notin {644, 755}
    BY ONLY <1>4, <1>5
  <2>2. Cardinality(Names(a)) = Len(a.members)
    BY ONLY <1>4, <1>5 DEF n
  <2>3. ~\E i \in DOMAIN a.members : a.members[i].root # a.root
    BY ONLY <1>4, <1>5
  <2>4. ~\E pair \in Below : {pair[1], pair[2]} \subseteq Names(a)
    <3>1. \A pair \in Below : ~({pair[1], pair[2]} \subseteq DOMAIN files)
      OBVIOUS
    <3> QED
      BY ONLY <1>5, <1>6, <3>1
  <2>5. a.gzip = "one" /\ ~a.tail /\ InOrder(a)
    BY ONLY <1>4, <1>5
  <2>6. \A i \in DOMAIN a.members : a.members[i].path \in N
    BY ONLY <1>5 DEF Names
  <2>7. InRepository(N) /\ N \subseteq AllPaths
    BY <1>1, <1>6
  <2>8. N \subseteq Canonical /\ \A p \in N : PartsOf[p] # <<>> /\ ~Leaves(p)
    BY ONLY <2>7 DEF InRepository
  <2>9. ~Misplaced(a)
    <3>1. a.root \notin {<<"/">>, <<"..">>}
      BY ONLY <1>4
    <3>2. \A i \in DOMAIN a.members :
            PartsOf[a.members[i].path] # <<>> /\ ~Leaves(a.members[i].path)
      BY ONLY <2>6, <2>8
    <3>3. ASSUME NEW i \in DOMAIN a.members, NEW j \in DOMAIN a.members,
                 PartsOf[a.members[i].path] = PartsOf[a.members[j].path]
          PROVE  i = j
      <4>1. /\ a.members[i].path \in Canonical \cap AllPaths
            /\ a.members[j].path \in Canonical \cap AllPaths
        BY ONLY <2>6, <2>7, <2>8, i \in DOMAIN a.members, j \in DOMAIN a.members
      <4>2. a.members[i].path = a.members[j].path
        BY <3>3, <4>1, ImageAssumption
      <4> QED
        BY ONLY <1>5, <4>2, i \in DOMAIN a.members, j \in DOMAIN a.members
    <3> QED
      BY ONLY <3>1, <3>2, <3>3, Zenon DEF Misplaced
  <2> QED
    BY ONLY <1>5, <2>1, <2>2, <2>3, <2>4, <2>5, <2>8, <2>9, ReadPasses DEF ReadPassed
<1>8. /\ files["BUNDLE-MANIFEST.json"] = <<"manifest", m>>
      /\ files["BUNDLE-SHA256SUMS"] = <<"sums", Sums(files)>>
  <2> DEFINE T == N \ {"BUNDLE-SHA256SUMS"}
  <2>1. Generated \in SUBSET N
    BY DEF N
  <2>2. T \in SUBSET AllPaths
    BY ONLY <1>1
  <2>3. \A p \in T : files[p] = B[p]
    BY ONLY <1>6
  <2>4. DOMAIN files \ {"BUNDLE-SHA256SUMS"} = T /\ DOMAIN B \ {"BUNDLE-SHA256SUMS"} = T
    BY ONLY <1>3, <1>6 DEF N
  <2> HIDE DEF T
  <2>5. Listing(files, T) = Listing(B, T)
    BY ONLY <2>2, <2>3, ListingsAgree
  <2>6. Sums(files) = Sums(B)
    BY ONLY <2>4, <2>5 DEF Sums
  <2> QED
    BY ONLY <1>3, <1>6, <2>1, <2>6 DEF Generated
<1>9. /\ m.formed = TRUE /\ m.version = payload[VersionFile] /\ m.lock = payload[Lock]
      /\ m.files = Listing(payload, P) /\ m.executable = Sorted(X)
  BY ONLY <1>1 DEF Manifest, m
<1>10. /\ Ascending(m.files) /\ {m.files[i][1] : i \in DOMAIN m.files} = P
       /\ \A i \in DOMAIN m.files : m.files[i][2] = payload[m.files[i][1]]
  <2>1. P \in SUBSET AllPaths
    BY ONLY <1>1
  <2> QED
    BY ONLY <1>9, <2>1, ListingLists
<1>11. Strictly(m.executable) /\ Range(m.executable) = X /\ X \in SUBSET P
  <2>1. X \in SUBSET P
    OBVIOUS
  <2>2. X \in SUBSET AllPaths
    BY ONLY <1>1, <2>1
  <2> QED
    BY ONLY <1>9, <2>1, <2>2, SortedRange
<1>12. files["BUNDLE-MANIFEST.json"][1] = "manifest" /\ m = files["BUNDLE-MANIFEST.json"][2]
  BY ONLY <1>8
<1>13. PayloadCheck(files) = "ok"
  <2> DEFINE listed == {m.files[i][1] : i \in DOMAIN m.files}
  <2>1. Generated \subseteq DOMAIN files /\ P = Payload(files) /\ ClosureHolds(files)
    BY <1>6 DEF N
  <2>2. VersionFile \in P /\ files[VersionFile] = m.version /\ Lock \in P /\ m.lock = files[Lock]
        /\ Closure \in P /\ RequiredPaths \subseteq P
    BY <1>1, <1>9
  <2>3. listed = P /\ Membership(listed, P) /\ ~\E p \in listed : Leaves(p) \/ p \in Generated
    <3>1. \A p \in P : ~Leaves(p)
      BY <1>6 DEF InRepository, N
    <3> QED
      BY ONLY <1>1, <1>10, <3>1 DEF Membership
  <2>4. ~\E i \in DOMAIN m.files : m.files[i][1] \in P /\ m.files[i][2] # files[m.files[i][1]]
    BY ONLY <1>1, <1>10
  <2>5. m.formed /\ Strictly(m.executable) /\ Range(m.executable) \subseteq P /\ Ascending(m.files)
    BY ONLY <1>9, <1>10, <1>11
  <2>6. PayloadPassed(files, m)
    BY ONLY <1>8, <1>12, <2>1, <2>2, <2>3, <2>4, <2>5 DEF PayloadPassed
  <2>7. m = files["BUNDLE-MANIFEST.json"][2]
    BY <1>12
  <2> QED
    BY ONLY <2>6, <2>7, PayloadPasses, Zenon
<1>14. a.root = <<"root", files[VersionFile]>>
  BY <1>1, <1>4
<1>15. ~\E p \in DOMAIN files : ModeOf(a)[p] # Mode(p, X)
  BY ONLY <1>5, <1>6
<1>16. X = Range(files["BUNDLE-MANIFEST.json"][2].executable) /\ files = FileOf(a)
  BY <1>11, <1>12
<1> QED
  BY ONLY <1>7, <1>13, <1>14, <1>15, <1>16, VerifyPasses, Zenon

(* Whatever was changed in an archive, however consistently: either it is  *)
(* still the build of the files in it, or it is refused.                   *)
THEOREM AlwaysAcceptsBuilds == ImageSpec => []AcceptsBuilds
<1> DEFINE Inv == /\ received \in Archives
                  /\ label = "none" \/ label = VerifyCheck(received)
<1>1. ImageInit => Inv
  BY DEF ImageInit
<1>2. Inv /\ [VerifyArchive]_image_vars => Inv'
  BY DEF VerifyArchive, image_vars
<1>3. Inv => AcceptsBuilds
  <2> SUFFICES ASSUME Inv, label # "none" PROVE label = "ok" <=> Rebuilt
    BY Zenon DEF AcceptsBuilds
  <2>1. IsArchive(received) /\ label = VerifyCheck(received)
    BY ImageAssumption
  <2>2. VerifyCheck(received) = "ok" => Rebuilt
    BY <2>1, AcceptedBuilt DEF Rebuilt
  <2>3. Rebuilt => VerifyCheck(received) = "ok"
    BY <2>1, BuiltAccepted DEF Rebuilt
  <2> QED
    BY <2>1, <2>2, <2>3
<1> QED
  BY <1>1, <1>2, <1>3, PTL DEF ImageSpec


-----------------------------------------------------------------------------
(* Where the files of an archive that was read are written.                *)
IsWalk(f, p) ==
  f = [k \in 0..Len(PartsOf[p]) |->
         IF k = 0 THEN Directory ELSE Hop(f[k - 1], PartsOf[p][k])]

(* The prover does not know that a literal is a member of STRING.          *)
Texts == STRING \cup {"/", "destination", "temporary"}

LEMMA DirectoryIs == Directory \in Seq(Texts) /\ Len(Directory) = 3
<1>1. "/" \in Texts /\ "destination" \in Texts /\ "temporary" \in Texts
  BY DEF Texts
<1>2. \A x, y, z \in Texts : <<x, y, z>> \in Seq(Texts) /\ Len(<<x, y, z>>) = 3
  OBVIOUS
<1> QED
  BY <1>1, <1>2, Zenon DEF Directory

(* What stands behind and in front of the joint of two sequences.          *)
LEMMA Joined ==
  ASSUME NEW x \in Seq(Texts), NEW y \in Seq(Texts)
  PROVE  /\ x \o y \in Seq(Texts) /\ Len(x \o y) = Len(x) + Len(y)
         /\ \A i \in 1..Len(x) : (x \o y)[i] = x[i]
         /\ \A i \in 1..Len(y) : (x \o y)[Len(x) + i] = y[i]
  OBVIOUS

LEMMA PartsAre ==
  ASSUME NEW p \in AllPaths
  PROVE  /\ PartsOf[p] \in Seq(Texts) /\ Len(PartsOf[p]) \in Nat
         /\ DOMAIN PartsOf[p] = 1..Len(PartsOf[p])
         /\ \A k \in 1..Len(PartsOf[p]) : PartsOf[p][k] \in Texts
         /\ Directory \in Seq(Texts) /\ Len(Directory) = 3
<1>1. PartsOf[p] \in Seq(STRING)
  BY ImageAssumption
<1>2. PartsOf[p] \in Seq(Texts)
  BY <1>1 DEF Texts
<1> QED
  BY <1>2, DirectoryIs

(* One part after another, below the directory.                            *)
LEMMA OneDeeper ==
  ASSUME NEW p \in AllPaths, ~Leaves(p), NEW k \in 1..Len(PartsOf[p])
  PROVE  LET d == PartsOf[p]
         IN  Directory \o SubSeq(d, 1, k) = Hop(Directory \o SubSeq(d, 1, k - 1), d[k])
<1> DEFINE d == PartsOf[p]
           a == SubSeq(d, 1, k - 1)
           b == SubSeq(d, 1, k)
<1>1. d \in Seq(Texts) /\ Len(d) \in Nat /\ k \in Nat /\ k >= 1 /\ k <= Len(d)
      /\ DOMAIN d = 1..Len(d) /\ d[k] \in Texts /\ Directory \in Seq(Texts)
  BY PartsAre
<1>2. d[k] # "/" /\ d[k] # ".."
  <2>1. d[k] # ".."
    BY <1>1 DEF Leaves, Range
  <2>2. CASE k = 1
    <3>1. d # <<>>
      BY <1>1, <2>2
    <3> QED
      BY <2>1, <2>2, <3>1 DEF Leaves, Absolute
  <2>3. CASE k # 1
    BY <1>1, <2>1, <2>3, ImageAssumption
  <2> QED
    BY <2>2, <2>3
<1> HIDE DEF d
<1>3. /\ a \in Seq(Texts) /\ Len(a) = k - 1 /\ \A i \in 1..k - 1 : a[i] = d[i]
      /\ b \in Seq(Texts) /\ Len(b) = k /\ \A i \in 1..k : b[i] = d[i]
  BY <1>1
<1> HIDE DEF a, b
<1>4. b = Append(a, d[k])
  BY <1>1, <1>3
<1>5. Directory \o b = Append(Directory \o a, d[k])
  BY <1>1, <1>3, <1>4
<1> QED
  BY <1>2, <1>5 DEF Hop, a, b, d

LEMMA PlaceIs ==
  ASSUME NEW p \in AllPaths, ~Leaves(p) PROVE Place(p) = Directory \o PartsOf[p]
<1> DEFINE d == PartsOf[p]
           n == Len(d)
           f == [k \in 0..n |-> Directory \o SubSeq(d, 1, k)]
           g == CHOOSE x : IsWalk(x, p)
<1>1. d \in Seq(Texts) /\ n \in Nat /\ Directory \in Seq(Texts)
  BY PartsAre
<1>2. \A k \in 1..n : f[k] = Hop(f[k - 1], d[k])
  <2> SUFFICES ASSUME NEW k \in 1..n PROVE f[k] = Hop(f[k - 1], d[k])
    OBVIOUS
  <2>1. k \in 0..n /\ k - 1 \in 0..n
    BY <1>1
  <2> QED
    BY <2>1, OneDeeper
<1>3. f[0] = Directory
  <2>1. SubSeq(d, 1, 0) = <<>> /\ 0 \in 0..n
    BY <1>1
  <2> QED
    BY <1>1, <2>1
<1>4. f[n] = Directory \o d
  <2>1. SubSeq(d, 1, n) = d /\ n \in 0..n
    BY <1>1
  <2> QED
    BY <2>1
<1>5. IsWalk(f, p)
  <2> DEFINE e == [k \in 0..n |-> IF k = 0 THEN Directory ELSE Hop(f[k - 1], d[k])]
  <2>1. DOMAIN f = 0..n /\ f = [k \in DOMAIN f |-> f[k]]
    OBVIOUS
  <2>2. \A k \in 0..n : f[k] = IF k = 0 THEN Directory ELSE Hop(f[k - 1], d[k])
    <3> SUFFICES ASSUME NEW k \in 0..n PROVE f[k] = IF k = 0 THEN Directory ELSE Hop(f[k - 1], d[k])
      OBVIOUS
    <3>1. k # 0 => k \in 1..n
      BY <1>1
    <3> HIDE DEF f, d, n
    <3> QED BY <1>2, <1>3, <3>1
  <2> HIDE DEF f
  <2>3. f = e
    BY <2>1, <2>2, Zenon
  <2> QED
    BY <2>3 DEF IsWalk
<1>6. IsWalk(g, p)
  <2> HIDE DEF f
  <2> QED BY <1>5
<1>7. Place(p) = g[n]
  BY DEF Place, IsWalk
<1> HIDE DEF g
<1>8. g[0] = Directory /\ \A k \in 1..n : g[k] = Hop(g[k - 1], d[k])
  <2> HIDE DEF d
  <2>1. \A k \in 0..n : g[k] = IF k = 0 THEN Directory ELSE Hop(g[k - 1], d[k])
    BY <1>6 DEF IsWalk, d
  <2>2. 0 \in 0..n /\ \A k \in 1..n : k \in 0..n /\ k # 0
    BY <1>1 DEF d
  <2> QED
    BY <2>1, <2>2
<1> HIDE DEF f
<1> DEFINE Wrong == {k \in 0..n : g[k] # f[k]}
<1>9. Wrong = {}
  <2> SUFFICES ASSUME Wrong # {} PROVE FALSE
    OBVIOUS
  <2>1. Wrong \in SUBSET Nat
    BY <1>1
  <2>2. Min(Wrong) \in Wrong /\ \A k \in Wrong : Min(Wrong) <= k
    <3> HIDE DEF Wrong
    <3> QED BY <2>1, MinOf
  <2>3. PICK k \in Wrong : \A j \in Wrong : k <= j
    BY <2>2
  <2>4. k # 0
    BY <1>3, <1>8, <2>3
  <2>5. k \in 1..n /\ k - 1 \in 0..n /\ ~(k <= k - 1)
    BY <1>1, <2>3, <2>4
  <2>6. g[k - 1] = f[k - 1]
    BY <2>3, <2>5
  <2> QED
    BY <1>2, <1>8, <2>3, <2>5, <2>6
<1>10. n \in 0..n
  BY <1>1
<1> QED
  BY <1>4, <1>7, <1>9, <1>10

LEMMA BelowDirectory ==
  ASSUME NEW x \in Seq(Texts), x # <<>>
  PROVE  Directory \o x # Directory /\ Reaches(Directory, Directory \o x)
<1>1. Directory \in Seq(Texts) /\ Len(Directory) = 3 /\ Len(x) > 0
  BY DirectoryIs
<1>2. /\ Directory \o x \in Seq(Texts) /\ Len(Directory \o x) = 3 + Len(x)
      /\ \A i \in 1..3 : (Directory \o x)[i] = Directory[i]
  <2>1. Len(Directory \o x) = Len(Directory) + Len(x)
    BY <1>1, Joined
  <2>2. \A i \in 1..Len(Directory) : (Directory \o x)[i] = Directory[i]
    BY <1>1, Joined
  <2>3. Directory \o x \in Seq(Texts)
    BY <1>1, Joined
  <2> QED
    BY <1>1, <2>1, <2>2, <2>3
<1>3. SubSeq(Directory \o x, 1, 3) = Directory
  BY <1>1, <1>2
<1> QED
  BY <1>1, <1>2, <1>3 DEF Reaches

LEMMA ReachedIs ==
  ASSUME NEW x \in Seq(Texts), NEW y \in Seq(Texts), Reaches(Directory \o x, Directory \o y)
  PROVE  Len(x) <= Len(y) /\ SubSeq(y, 1, Len(x)) = x
<1> DEFINE a == Directory \o x
           b == Directory \o y
<1>1. Directory \in Seq(Texts) /\ Len(Directory) = 3 /\ Len(x) \in Nat /\ Len(y) \in Nat
  BY DirectoryIs
<1>2. /\ a \in Seq(Texts) /\ Len(a) = 3 + Len(x) /\ \A i \in 1..Len(x) : a[3 + i] = x[i]
      /\ b \in Seq(Texts) /\ Len(b) = 3 + Len(y) /\ \A i \in 1..Len(y) : b[3 + i] = y[i]
  <2>1. /\ a \in Seq(Texts) /\ Len(a) = Len(Directory) + Len(x)
        /\ \A i \in 1..Len(x) : a[Len(Directory) + i] = x[i]
    BY <1>1, Joined
  <2>2. /\ b \in Seq(Texts) /\ Len(b) = Len(Directory) + Len(y)
        /\ \A i \in 1..Len(y) : b[Len(Directory) + i] = y[i]
    BY <1>1, Joined
  <2> HIDE DEF a, b
  <2> QED
    BY <1>1, <2>1, <2>2
<1>3. Len(a) <= Len(b) /\ SubSeq(b, 1, Len(a)) = a
  BY DEF Reaches
<1> HIDE DEF a, b
<1>4. Len(x) <= Len(y)
  BY <1>1, <1>2, <1>3
<1>5. \A i \in 1..Len(x) : y[i] = x[i]
  <2> SUFFICES ASSUME NEW i \in 1..Len(x) PROVE y[i] = x[i]
    OBVIOUS
  <2>1. 3 + i \in 1..Len(a) /\ i \in 1..Len(y)
    BY <1>1, <1>2, <1>4
  <2>2. SubSeq(b, 1, Len(a))[3 + i] = b[3 + i]
    BY <1>2, <1>3, <2>1
  <2> QED
    BY <1>2, <1>3, <2>1, <2>2
<1> QED
  BY <1>1, <1>4, <1>5

(* Every file of an archive that is written has a place of its own below   *)
(* the directory made for it, whatever paths the archive has.              *)
THEOREM AlwaysExtractsInside == ImageSpec => []ExtractsInside
<1> DEFINE Inv == /\ received \in Archives
                  /\ label = "none" \/ label = VerifyCheck(received)
<1>1. ImageInit => Inv
  BY DEF ImageInit
<1>2. Inv /\ [VerifyArchive]_image_vars => Inv'
  BY DEF VerifyArchive, image_vars
<1>3. Inv => ExtractsInside
  <2> SUFFICES ASSUME Inv, label \in {"ok", "mode"}, NEW p \in Names(received)
               PROVE  /\ Place(p) # Directory /\ Reaches(Directory, Place(p))
                      /\ \A q \in Names(received) \ {p} : ~Reaches(Place(p), Place(q))
    BY DEF ExtractsInside
  <2>1. IsArchive(received) /\ label = VerifyCheck(received)
    BY ImageAssumption
  <2>2. ReadPassed(received)
    <3>1. ReadCheck(received) = "ok"
      <4> SUFFICES ASSUME ReadCheck(received) # "ok" PROVE FALSE
        OBVIOUS
      <4>1. ReadCheck(received) = label
        BY <2>1 DEF VerifyCheck
      <4> QED
        BY <4>1, ReadLabels
    <3> QED
      BY <3>1, ReadPasses
  <2>3. \A q \in Names(received) :
          q \in AllPaths /\ ~Leaves(q) /\ PartsOf[q] # <<>> /\ PartsOf[q] \in Seq(Texts)
    <3>1. \A q \in Names(received) : q \in AllPaths
      BY <2>1 DEF Names, IsArchive, IsMember, Range
    <3>2. \A q \in Names(received) : ~Leaves(q) /\ PartsOf[q] # <<>>
      BY <2>2 DEF ReadPassed, Misplaced, Names
    <3> QED
      BY <3>1, <3>2, PartsAre
  <2>4. \A q \in Names(received) : Place(q) = Directory \o PartsOf[q]
    BY <2>3, PlaceIs
  <2>5. Place(p) # Directory /\ Reaches(Directory, Place(p))
    BY <2>3, <2>4, BelowDirectory
  <2>6. ASSUME NEW q \in Names(received) \ {p}, Reaches(Place(p), Place(q)) PROVE FALSE
    <3> DEFINE x == PartsOf[p]
               y == PartsOf[q]
    <3>1. p \in AllPaths /\ q \in AllPaths /\ x \in Seq(Texts) /\ y \in Seq(Texts) /\ x # <<>>
      BY <2>3
    <3>2. Len(x) <= Len(y) /\ SubSeq(y, 1, Len(x)) = x
      BY <2>4, <2>6, <3>1, ReachedIs
    <3>3. Len(x) \in Nat /\ Len(y) \in Nat /\ Len(x) >= 1
      BY <3>1
    <3>4. CASE Len(x) = Len(y)
      <4>1. x = y
        BY <3>1, <3>2, <3>4
      <4>2. PICK i, j \in DOMAIN received.members :
              received.members[i].path = p /\ received.members[j].path = q
        BY <2>6 DEF Names
      <4> QED
        BY <2>2, <2>6, <4>1, <4>2 DEF ReadPassed, Misplaced
    <3>5. CASE Len(x) # Len(y)
      <4>1. Len(x) \in 1..Len(y) - 1
        BY <3>2, <3>3, <3>5
      <4>2. <<p, q>> \in Below
        BY <3>1, <3>2, <4>1 DEF Below
      <4> QED
        BY <2>2, <2>6, <4>2 DEF ReadPassed
    <3> QED
      BY <3>4, <3>5
  <2> QED
    BY <2>5, <2>6
<1> QED
  BY <1>1, <1>2, <1>3, PTL DEF ImageSpec

===============================================================================
