---------------------------- MODULE BundleImage -----------------------------
(***************************************************************************)
(* What developer_bundle.py builds into an archive, and what it verifies   *)
(* of one.  An archive is [gzip, root, members, tail]: gzip says whether   *)
(* the container is one complete member under the limits, tail whether     *)
(* bytes follow the tar; a member is [root, path, data, mode, plain],      *)
(* plain when it is a regular file with canonical metadata.  Data is       *)
(* <<"plain", d>>, or "manifest", "sums" or "closure" and what it says; it *)
(* stands for its own digest and size.  A name is a path as it is spelled, *)
(* and has the parts that PurePosixPath finds in it.                       *)
(***************************************************************************)
EXTENDS Integers, Sequences, FiniteSets, FiniteSetsExt, Functions, Checks

CONSTANTS
  Order,            \* all paths in their canonical order
  RequiredPaths,         \* paths without which there is no bundle
  Candidate,        \* the paths of the included candidate profile
  PartsOf,            \* the parts of each path; "/" is the first of an absolute one
  Canonical,        \* the paths that are spelled as PurePosixPath prints them
  Archives          \* the archives that are verified

VersionFile == "VERSION"
Lock == "uv.lock"
Closure == "SHA256SUMS"
Generated == {"BUNDLE-MANIFEST.json", "BUNDLE-SHA256SUMS"}

AllPaths == Range(Order)
(* Mutant: only an absolute path is taken to lead out of the directory. *)
AbsoluteOnly(path) == PartsOf[path] # <<>> /\ PartsOf[path][1] = "/"
Absolute(path) == PartsOf[path] # <<>> /\ PartsOf[path][1] = "/"
Leaves(path) == Absolute(path) \/ ".." \in Range(PartsOf[path])

(* The second of the pair would be a file inside the first.                *)
Below ==
  {pair \in AllPaths \X AllPaths :
     /\ PartsOf[pair[1]] # <<>>
     /\ \E n \in 1..Len(PartsOf[pair[2]]) - 1 : PartsOf[pair[1]] = SubSeq(PartsOf[pair[2]], 1, n)}

Position(path) == CHOOSE i \in DOMAIN Order : Order[i] = path
Rank(path, paths) == Cardinality({p \in paths : Position(p) <= Position(path)})
Sorted(paths) == [i \in 1..Cardinality(paths) |-> CHOOSE p \in paths : Rank(p, paths) = i]
Listing(files, paths) ==
  LET names == Sorted(paths)
  IN  [i \in DOMAIN names |-> <<names[i], files[names[i]]>>]

(***************************************************************************)
(* build_payload and the tar of build_archive.                             *)
(***************************************************************************)
Manifest(payload, executable) ==
  [formed |-> TRUE, version |-> payload[VersionFile], lock |-> payload[Lock],
   files |-> Listing(payload, DOMAIN payload), executable |-> Sorted(executable)]
WithManifest(payload, executable) ==
  [p \in DOMAIN payload \cup {"BUNDLE-MANIFEST.json"} |->
     IF p \in DOMAIN payload THEN payload[p] ELSE <<"manifest", Manifest(payload, executable)>>]
Sums(files) == Listing(files, DOMAIN files \ {"BUNDLE-SHA256SUMS"})
Bundle(payload, executable) ==
  LET files == WithManifest(payload, executable)
  IN  [p \in DOMAIN files \cup {"BUNDLE-SHA256SUMS"} |->
         IF p \in DOMAIN files THEN files[p] ELSE <<"sums", Sums(files)>>]
Mode(path, executable) == IF path \in executable THEN 755 ELSE 644
BuildOf(payload, executable) ==
  LET files == Bundle(payload, executable)
      names == Sorted(DOMAIN files)
      root == <<"root", payload[VersionFile]>>
  IN  [gzip |-> "one", root |-> root, tail |-> FALSE,
       members |-> [i \in DOMAIN names |->
         [root |-> root, path |-> names[i], data |-> files[names[i]],
          mode |-> Mode(names[i], executable), plain |-> TRUE]]]

(***************************************************************************)
(* read_archive, verify_payload, validate_root and the modes.              *)
(***************************************************************************)
Names(a) == {a.members[i].path : i \in DOMAIN a.members}
InOrder(a) ==
  \A i, j \in DOMAIN a.members : i < j => Position(a.members[i].path) <= Position(a.members[j].path)

(* safe_relative, of every member, and that no two are one file.           *)
Misplaced(a) ==
  \/ a.root \in {<<"/">>, <<"..">>}
  \/ \E i \in DOMAIN a.members : PartsOf[a.members[i].path] = <<>> \/ Leaves(a.members[i].path)
  \/ \E i, j \in DOMAIN a.members :
       i # j /\ PartsOf[a.members[i].path] = PartsOf[a.members[j].path]

(* The tar written again differs if bytes follow or a name is respelled.   *)
ReadCheck(a) == First(<<
  <<"gzip", a.gzip # "one">>,
  <<"metadata", \E i \in DOMAIN a.members : ~a.members[i].plain \/ a.members[i].mode \notin {644, 755}>>,
  <<"order", ~InOrder(a)>>,
  <<"duplicate", Cardinality(Names(a)) # Len(a.members)>>,
  <<"root", \E i \in DOMAIN a.members : a.members[i].root # a.root>>,
  <<"path", Misplaced(a)>>,
  <<"conflict", \E pair \in Below : {pair[1], pair[2]} \subseteq Names(a)>>,
  <<"tar", a.tail \/ ~(Names(a) \subseteq Canonical)>> >>)

FileOf(a) ==
  [p \in Names(a) |-> a.members[CHOOSE i \in DOMAIN a.members : a.members[i].path = p].data]
ModeOf(a) ==
  [p \in Names(a) |-> a.members[CHOOSE i \in DOMAIN a.members : a.members[i].path = p].mode]
Payload(files) == DOMAIN files \ Generated

Ascending(list) == \A i, j \in DOMAIN list : i < j => Position(list[i][1]) < Position(list[j][1])
Strictly(paths) == \A i, j \in DOMAIN paths : i < j => Position(paths[i]) < Position(paths[j])

(* Mutant: what the manifest lists must be there, but there may be more. *)
MembershipAtLeast(listed, payload) == listed \subseteq payload
Membership(listed, payload) == listed = payload

(* The candidate's own sums name each of its other files once.             *)
ClosureHolds(files) ==
  /\ files[Closure][1] = "closure"
  /\ LET lines == files[Closure][2]
     IN  /\ \A i, j \in DOMAIN lines : i # j => lines[i][1] # lines[j][1]
         /\ \A i \in DOMAIN lines :
              ~Leaves(lines[i][1]) /\ lines[i][1] \in Candidate \cap DOMAIN files /\ lines[i][2] = files[lines[i][1]]
         /\ {lines[i][1] : i \in DOMAIN lines} = Candidate \cap DOMAIN files

PayloadCheck(files) ==
  IF ~(Generated \subseteq DOMAIN files) THEN "metadata files"
  ELSE IF files["BUNDLE-MANIFEST.json"][1] # "manifest" THEN "manifest"
  ELSE LET m == files["BUNDLE-MANIFEST.json"][2]
           payload == Payload(files)
           listed == {m.files[i][1] : i \in DOMAIN m.files}
       IN  First(<<
             <<"manifest", ~m.formed>>,
             <<"version", VersionFile \notin payload \/ files[VersionFile] # m.version>>,
             <<"entries", ~Ascending(m.files) \/ (\E p \in listed : Leaves(p) \/ p \in Generated)>>,
             <<"membership", ~Membership(listed, payload) \/ ~(RequiredPaths \subseteq payload)>>,
             <<"member", \E i \in DOMAIN m.files :
                 m.files[i][1] \in payload /\ m.files[i][2] # files[m.files[i][1]]>>,
             <<"lock", Lock \notin payload \/ m.lock # files[Lock]>>,
             <<"executable", ~Strictly(m.executable) \/ ~(Range(m.executable) \subseteq payload)>>,
             <<"sums", files["BUNDLE-SHA256SUMS"] # <<"sums", Sums(files)>> >>,
             <<"closure", Closure \notin payload \/ ~ClosureHolds(files)>> >>)

VerifyCheck(a) ==
  IF ReadCheck(a) # "ok" THEN ReadCheck(a)
  ELSE LET files == FileOf(a)
           executable == Range(files["BUNDLE-MANIFEST.json"][2].executable)
       IN  IF PayloadCheck(files) # "ok" THEN PayloadCheck(files)
           ELSE IF a.root # <<"root", files[VersionFile]>> THEN "root"
           ELSE IF \E p \in DOMAIN files : ModeOf(a)[p] # Mode(p, executable) THEN "mode"
           ELSE "ok"

-----------------------------------------------------------------------------
(* What is verified has the form of an archive, whatever it says.          *)
IsManifest(m) ==
  /\ m = [formed |-> m.formed, version |-> m.version, lock |-> m.lock, files |-> m.files,
          executable |-> m.executable]
  /\ m.formed \in BOOLEAN /\ m.executable \in Seq(AllPaths)
  /\ m.files \in Seq(Range(m.files))
  /\ \A entry \in Range(m.files) : entry = <<entry[1], entry[2]>> /\ entry[1] \in AllPaths
IsMember(x) ==
  /\ x = [root |-> x.root, path |-> x.path, data |-> x.data, mode |-> x.mode, plain |-> x.plain]
  /\ x.path \in AllPaths /\ ~Absolute(x.path) /\ x.plain \in BOOLEAN
  /\ x.data[1] = "manifest" => x.data = <<"manifest", x.data[2]>> /\ IsManifest(x.data[2])
IsArchive(a) ==
  /\ a = [gzip |-> a.gzip, root |-> a.root, members |-> a.members, tail |-> a.tail]
  /\ a.members \in Seq(Range(a.members)) /\ \A x \in Range(a.members) : IsMember(x)
  /\ a.tail \in BOOLEAN

ASSUME ImageAssumption ==
  /\ Order \in Seq(AllPaths) /\ Generated \subseteq AllPaths
  /\ PartsOf \in [AllPaths -> Seq(STRING)]
  /\ \A p \in AllPaths : \A n \in 2..Len(PartsOf[p]) : PartsOf[p][n] # "/"
  /\ \A p, q \in Canonical \cap AllPaths : PartsOf[p] = PartsOf[q] => p = q
  /\ \A a \in Archives : IsArchive(a)

VARIABLES received, label

image_vars == <<received, label>>

ImageInit == received \in Archives /\ label = "none"

VerifyArchive ==
  /\ label = "none"
  /\ label' = VerifyCheck(received)
  /\ UNCHANGED received

ImageSpec == ImageInit /\ [][VerifyArchive]_image_vars

-----------------------------------------------------------------------------
(* The archives that pass are exactly those that are built from some set   *)
(* of files below a repository, with the required ones and a closed        *)
(* candidate: whatever is changed in one, however consistently, either is  *)
(* another build or is refused.                                            *)
InRepository(paths) ==
  paths \subseteq Canonical /\ \A p \in paths : PartsOf[p] # <<>> /\ ~Leaves(p)
Rebuilt ==
  LET files == FileOf(received)
      payload == Payload(files)
  IN  /\ InRepository(DOMAIN files)
      /\ RequiredPaths \cup {VersionFile, Lock, Closure} \subseteq payload
      /\ \A pair \in Below : ~({pair[1], pair[2]} \subseteq DOMAIN files)
      /\ ClosureHolds(files)
      /\ received = BuildOf(Restrict(files, payload), {p \in payload : ModeOf(received)[p] = 755})
AcceptsBuilds == (label = "ok" => Rebuilt) /\ (label \notin {"ok", "none"} => ~Rebuilt)

(* Where the file system puts what is written to a path of the directory.  *)
Directory == <<"/", "destination", "temporary">>
Hop(at, part) ==
  IF part = "/" THEN <<"/">>
  ELSE IF part # ".." THEN Append(at, part)
  ELSE IF Len(at) > 1 THEN SubSeq(at, 1, Len(at) - 1) ELSE at
Place(path) ==
  LET at[n \in 0..Len(PartsOf[path])] == IF n = 0 THEN Directory ELSE Hop(at[n - 1], PartsOf[path][n])
  IN  at[Len(PartsOf[path])]
Reaches(place, other) == Len(place) <= Len(other) /\ SubSeq(other, 1, Len(place)) = place

(* What is extracted stays in the directory made for it: every file of an  *)
(* archive that extract_archive begins to write, whose modes it compares   *)
(* only afterwards, has a place of its own below the directory, and none   *)
(* is where another needs a directory (developer_bundle.py:255-262,        *)
(* 433-444, 500-507).                                                      *)
ExtractsInside ==
  label \in {"ok", "mode"} =>
    \A p \in Names(received) :
      /\ Place(p) # Directory /\ Reaches(Directory, Place(p))
      /\ \A q \in Names(received) \ {p} : ~Reaches(Place(p), Place(q))
=============================================================================
