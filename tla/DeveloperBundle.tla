-------------------------- MODULE DeveloperBundle ---------------------------
(***************************************************************************)
(* The files that developer_bundle.py leaves: an archive beside its        *)
(* checksum, built again and again from a repository that is being edited, *)
(* and the directory to which extractors, several at a time, extract it.   *)
(* Every process may be killed at any step.  Builds follow one another:    *)
(* nothing in the code keeps two of them apart.  What an archive is inside *)
(* is BundleImage's subject: here it is the contents of two files, as they *)
(* were when each was read, and stands for its own digest; Torn is a file  *)
(* of which a part is written.                                             *)
(***************************************************************************)
EXTENDS Naturals, FiniteSets

CONSTANTS
  Extractors,
  None, Torn,
  MaxEdits,         \* bound: edits of the repository
  MaxBuilds,        \* bound: builds that are started
  MaxKills          \* bound: processes that are killed

VARIABLES
  repository,   \* [first, second]: the contents of its two files
  archive, checksum, temporary,     \* files of the output directory
  builder,      \* [pc, payload, bytes]
  builds, kills,
  succeeded,    \* whether the last build returned without a failure
  extractor,    \* for each: [pc, image, written, directory]
  target        \* what the extracted directory holds

outputs == <<archive, checksum, temporary>>
builds_ == <<builder, builds, succeeded>>
bundle_vars == <<repository, outputs, builds_, kills, extractor, target>>

Images == [first : 0..MaxEdits, second : 0..MaxEdits]

ASSUME BundleAssumption ==
  /\ MaxEdits \in Nat /\ None # Torn /\ None \notin Images /\ Torn \notin Images

Whole(file) == file \notin {None, Torn}
Idle == [pc |-> "idle", payload |-> [first |-> 0, second |-> 0], bytes |-> None]
Waiting == [pc |-> "idle", image |-> None, written |-> {}, directory |-> FALSE]

BundleInit ==
  /\ repository = [first |-> 0, second |-> 0]
  /\ archive = None /\ checksum = None /\ temporary = None
  /\ builder = Idle /\ builds = 0 /\ kills = 0 /\ succeeded = FALSE
  /\ extractor = [x \in Extractors |-> Waiting]
  /\ target = None

(* Somebody edits both files, one after the other.                         *)
Edit ==
  /\ \/ repository.first = repository.second /\ repository.first < MaxEdits
        /\ repository' = [repository EXCEPT !.first = @ + 1]
     \/ repository.first > repository.second
        /\ repository' = [repository EXCEPT !.second = @ + 1]
  /\ UNCHANGED <<outputs, builds_, kills, extractor, target>>

-----------------------------------------------------------------------------
(* build_archive.                                                          *)
Step(from, to) == builder.pc = from /\ builder' = [builder EXCEPT !.pc = to]
Elsewhere == UNCHANGED <<repository, kills, extractor, target>>

StartBuild ==
  /\ builds < MaxBuilds /\ builder.pc \in {"idle", "done"}
  /\ builder' = [Idle EXCEPT !.pc = "read", !.payload.first = repository.first]
  /\ builds' = builds + 1 /\ succeeded' = FALSE
  /\ UNCHANGED outputs /\ Elsewhere

ReadRest ==
  /\ builder.pc = "read"
  /\ builder' = [builder EXCEPT !.pc = "write", !.payload.second = repository.second]
  /\ UNCHANGED <<outputs, builds, succeeded>> /\ Elsewhere

BeginWrite ==
  /\ Step("write", "writing") /\ temporary' = Torn
  /\ UNCHANGED <<archive, checksum, builds, succeeded>> /\ Elsewhere

EndWrite ==
  /\ Step("writing", "replace") /\ temporary' = builder.payload
  /\ UNCHANGED <<archive, checksum, builds, succeeded>> /\ Elsewhere

(* A write that fails, on a full disk say: finally removes what there is.  *)
FailWrite ==
  /\ Step("writing", "done") /\ temporary' = None
  /\ UNCHANGED <<archive, checksum, builds, succeeded>> /\ Elsewhere

(* Mutant: the digest is taken of the archive that is replaced. *)
BytesOfOld == archive
BytesRead == temporary
Replace ==
  /\ builder.pc = "replace"
  /\ builder' = [builder EXCEPT !.pc = "sum", !.bytes = BytesRead]
  /\ archive' = temporary /\ temporary' = None
  /\ UNCHANGED <<checksum, builds, succeeded>> /\ Elsewhere

BeginSum ==
  /\ Step("sum", "summing") /\ checksum' = Torn
  /\ UNCHANGED <<archive, temporary, builds, succeeded>> /\ Elsewhere

EndSum ==
  /\ Step("summing", "verify") /\ checksum' = builder.bytes
  /\ UNCHANGED <<archive, temporary, builds, succeeded>> /\ Elsewhere

EndBuild ==
  /\ Step("verify", "done") /\ succeeded' = Whole(archive)
  /\ UNCHANGED <<outputs, builds>> /\ Elsewhere

KillBuild ==
  /\ kills < MaxKills /\ builder.pc \notin {"idle", "done"}
  /\ kills' = kills + 1 /\ builder' = Idle
  /\ UNCHANGED <<repository, outputs, builds, succeeded, extractor, target>>

-----------------------------------------------------------------------------
(* extract_archive.  Every extractor has a directory of its own.           *)
Move(x, from, to) == extractor[x].pc = from /\ extractor' = [extractor EXCEPT ![x].pc = to]
Alone == UNCHANGED <<repository, outputs, builds_, kills>>

(* The archive is opened once: a later replacement is not seen.            *)
Open(x) ==
  /\ extractor[x].pc = "idle" /\ archive # None
  /\ extractor' = [extractor EXCEPT ![x].image = archive,
                                    ![x].pc = IF Whole(archive) THEN "check" ELSE "failed"]
  /\ UNCHANGED target /\ Alone

CheckTarget(x) ==
  /\ extractor[x].pc = "check"
  /\ extractor' = [extractor EXCEPT ![x].pc = IF target = None THEN "extract" ELSE "failed",
                                    ![x].directory = target = None]
  /\ UNCHANGED target /\ Alone

WriteMember(x) ==
  /\ extractor[x].pc = "extract"
  /\ \E member \in {"first", "second"} \ extractor[x].written :
       extractor' = [extractor EXCEPT ![x].written = @ \cup {member}]
  /\ UNCHANGED target /\ Alone

FailMember(x) ==
  /\ extractor[x].pc = "extract"
  /\ extractor' = [extractor EXCEPT ![x].pc = "failed", ![x].directory = FALSE]
  /\ UNCHANGED target /\ Alone

(* verify_directory; the directory then takes the target's name, which     *)
(* fails when another extractor was first.                                 *)
Verified(x) == extractor[x].written = {"first", "second"}
TargetFree == target = None

Publish(x) ==
  /\ extractor[x].pc = "extract" /\ Verified(x)
  /\ IF TargetFree
       THEN /\ target' = [m \in extractor[x].written |-> extractor[x].image[m]]
            /\ extractor' = [extractor EXCEPT ![x].pc = "done", ![x].directory = FALSE]
       ELSE /\ extractor' = [extractor EXCEPT ![x].pc = "failed", ![x].directory = FALSE]
            /\ UNCHANGED target
  /\ Alone

KillExtractor(x) ==
  /\ kills < MaxKills /\ extractor[x].pc \in {"check", "extract"}
  /\ kills' = kills + 1
  /\ extractor' = [extractor EXCEPT ![x].pc = "killed"]
  /\ UNCHANGED <<repository, outputs, builds_, target>>

Extract(x) == Open(x) \/ CheckTarget(x) \/ WriteMember(x) \/ FailMember(x) \/ Publish(x)
Build ==
  StartBuild \/ ReadRest \/ BeginWrite \/ EndWrite \/ FailWrite \/ Replace \/ BeginSum \/ EndSum \/ EndBuild

BundleNext == Edit \/ Build \/ KillBuild \/ \E x \in Extractors : Extract(x) \/ KillExtractor(x)

(* A build that runs goes on, and so does an extraction.                   *)
BundleFairness == WF_bundle_vars(Build) /\ \A x \in Extractors : WF_bundle_vars(Extract(x))
BundleSpec == BundleInit /\ [][BundleNext]_bundle_vars /\ BundleFairness

-----------------------------------------------------------------------------
(* Until the next build begins, the checksum that a successful build left  *)
(* is that of the archive, whatever earlier builds were killed over; and   *)
(* nobody ever finds a part of an archive under its name.                  *)
SuccessBinds ==
  /\ archive # Torn
  /\ succeeded => archive = checksum /\ Whole(archive)

(* The extracted directory is one archive, all of it, although archives    *)
(* are replaced and extractions overtake one another; and it is the one    *)
(* that every extraction which returned it was given: an extraction that   *)
(* found the target free and comes second must not take its place.         *)
TargetWhole ==
  /\ target = None \/ target \in Images
  /\ \A x \in Extractors : extractor[x].pc = "done" => target = extractor[x].image

(* Only a killed extraction leaves a directory of its own behind.          *)
NothingLeft ==
  \A x \in Extractors : extractor[x].pc \in {"done", "failed"} => ~extractor[x].directory

(* Every extraction ends once there is an archive.                         *)
ExtractionsEnd ==
  \A x \in Extractors : (archive # None) ~> (extractor[x].pc \in {"done", "failed", "killed"})

(* The three together: whatever is built, edited, killed and extracted at  *)
(* once, a file or directory under its final name is whole and is what its *)
(* process says it is (developer_bundle.py:240-252, 496-515).              *)
BundleFiles == SuccessBinds /\ TargetWhole /\ NothingLeft
=============================================================================
