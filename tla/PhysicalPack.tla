---------------------------- MODULE PhysicalPack ----------------------------
(***************************************************************************)
(* The admission of one physical changed-set pack by hub_sync_14.py: the   *)
(* rows it carries, the roots it claims to complete and the scope in which *)
(* a reader may write.  The Hub is truthful about which rows changed and   *)
(* disappeared and about the numbers of children it signs; the rows it     *)
(* adds as context, the roots it names, their target states and the scope  *)
(* are whatever they are.                                                  *)
(*                                                                         *)
(* A root is a drive or a charging process, a child a position or a charge *)
(* sample; kind tells which of the two families the pack is about.  A row  *)
(* of a root is [state, version], one of a child is [owner, version], with *)
(* owner NoOwner for a position of no drive; Absent is no row.             *)
(***************************************************************************)
EXTENDS Integers, Sequences, FiniteSets, FiniteSetsExt, Checks

CONSTANTS
  Roots, Children, NoOwner, Absent,
  Histories,        \* [kind, base, target]: two states of the rows
  Packs(_)          \* what a pack for a history may be

Keys == Roots \cup Children
Has(db, k) == db[k] # Absent
StateIn(db, r) == IF Has(db, r) THEN db[r].state ELSE "absent"
ChildrenIn(db, r) == {c \in Children : Has(db, c) /\ db[c].owner = r}
Typed(db) ==
  /\ \A r \in Roots : Has(db, r) => db[r].state \in {"open", "closed"}
  /\ \A c \in Children : Has(db, c) => db[c].owner \in Roots \cup {NoOwner}

(***************************************************************************)
(* What a truthful Hub puts into a pack.                                   *)
(***************************************************************************)
Changed(h) == {k \in Keys : Has(h.target, k) /\ h.base[k] # h.target[k]}
Tombstones(h) == {k \in Keys : Has(h.base, k) /\ ~Has(h.target, k)}
Unchanged(h) == {k \in Keys : Has(h.target, k) /\ h.base[k] = h.target[k]}

ASSUME RowsAssumption ==
  /\ IsFiniteSet(Children) /\ Roots \cap Children = {} /\ NoOwner \notin Roots
  /\ \A h \in Histories :
       /\ Typed(h.base) /\ Typed(h.target)
       /\ \A p \in Packs(h) : p.context \subseteq Unchanged(h) /\ DOMAIN p.roots \subseteq Roots

(***************************************************************************)
(* A pack is [faults, context, roots, scope]: the faults are those of its  *)
(* bytes, tables and bindings, context the unchanged rows it has, roots    *)
(* gives the claimed target state of every root named, scope the effect    *)
(* for every projected row in it.                                          *)
(***************************************************************************)
Faults == <<"digest", "stream", "integrity", "schema", "layout", "text", "value", "roles", "overlap",
            "total", "metadata", "witness", "root-witness">>

Assigned(h, p) == Changed(h) \cup p.context
Scoped(p, k, effect) == k \in DOMAIN p.scope /\ p.scope[k] = effect
Named(p) == DOMAIN p.roots
ChildrenSeen(h, p, r) == ChildrenIn(h.target, r) \cap Assigned(h, p)

DirectlyScoped(h, p) ==
  /\ \A k \in Changed(h) : Scoped(p, k, "recompute") /\ (k \in Roots => k \in Named(p))
  /\ \A k \in Tombstones(h) : Scoped(p, k, "delete") /\ (k \in Roots => k \in Named(p))

OwnersNamed(h, p) ==
  \A c \in Changed(h) \cap Children : h.target[c].owner # NoOwner => h.target[c].owner \in Named(p)

(* Mutant: the children in the pack are not counted. *)
RootFaultUncounted(h, p, r) == p.roots[r] = "absent" /\ r \in Assigned(h, p)
RootFault(h, p, r) ==
  LET claimed == p.roots[r]
      wasAbsent == StateIn(h.base, r) = "absent"
      seen == r \in Assigned(h, p)
      gone == claimed = "absent"
      context == gone /\ wasAbsent
  IN  \/ Cardinality(ChildrenSeen(h, p, r)) # Cardinality(ChildrenIn(h.target, r))
      \/ gone = seen
      \/ gone /\ ~wasAbsent /\ r \notin Tombstones(h)
      \/ context /\ (r \in Tombstones(h) \/ Scoped(p, r, "delete"))
      \/ ~context /\ ~Scoped(p, r, IF gone THEN "delete" ELSE "recompute")
      \/ ~context /\ h.kind = "charge" /\ gone /\ ChildrenSeen(h, p, r) # {}
      \/ seen /\ (claimed = "open") # (h.target[r].state = "open")
RootsSound(h, p) == \A r \in Named(p) : ~RootFault(h, p, r)
ChildrenScoped(h, p) ==
  \A r \in Named(p) : \A c \in ChildrenSeen(h, p, r) : Scoped(p, c, "recompute")

PackCheck(h, p) ==
  LET fault == First([i \in DOMAIN Faults |-> <<Faults[i], Faults[i] \in p.faults>>])
  IN  First(<<
        <<fault, fault # "ok">>,
        <<"direct-scope", ~DirectlyScoped(h, p)>>,
        <<"owners", ~OwnersNamed(h, p)>>,
        <<"roots", ~RootsSound(h, p)>>,
        <<"children", ~ChildrenScoped(h, p)>> >>)

-----------------------------------------------------------------------------
VARIABLES history, pack, label

delta_vars == <<history, pack, label>>

DeltaInit == history \in Histories /\ pack \in Packs(history) /\ label = "none"

VerifyPack ==
  /\ label = "none"
  /\ label' = PackCheck(history, pack)
  /\ UNCHANGED <<history, pack>>

DeltaNext == VerifyPack

DeltaSpec == DeltaInit /\ [][DeltaNext]_delta_vars

-----------------------------------------------------------------------------
(* What a reader derives: a root with its children, and a child with the   *)
(* state of the root it belongs to.                                        *)
Projected(db, k) ==
  IF ~Has(db, k) THEN <<>>
  ELSE IF k \in Roots THEN <<db[k], {<<c, db[c]>> : c \in ChildrenIn(db, k)}>>
  ELSE <<db[k], IF db[k].owner = NoOwner THEN "none" ELSE StateIn(db, db[k].owner)>>

(* The edges of the base, which the pack alone does not show.              *)
OldOwners ==
  {history.base[c].owner : c \in {d \in Children : Has(history.base, d) /\ history.base[d] # history.target[d]}}
    \ {NoOwner}

(* A reader that writes only inside the scope of an admitted pack reaches  *)
(* the projection of the target, once the owners that changed children had *)
(* in the base are among the roots: nothing that changes is outside.       *)
ScopeCovers ==
  label = "ok" /\ OldOwners \subseteq Named(pack) =>
    \A k \in Keys : Projected(history.base, k) # Projected(history.target, k) =>
      Scoped(pack, k, IF Has(history.target, k) THEN "recompute" ELSE "delete")

(* A root named by an admitted pack is in the target state that it claims, *)
(* and the pack carries the root and every one of its children.            *)
RootsComplete ==
  label = "ok" =>
    \A r \in Named(pack) :
      /\ (pack.roots[r] = "absent") = (StateIn(history.target, r) = "absent")
      /\ (pack.roots[r] = "open") = (StateIn(history.target, r) = "open")
      /\ ChildrenIn(history.target, r) \cup ({r} \cap Unchanged(history)) \subseteq Assigned(history, pack)

(* An admitted pack changes nothing outside its scope and lacks nothing    *)
(* inside it (hub_sync_14.py:317-457).                                     *)
DeltaCovered == ScopeCovers /\ RootsComplete
=============================================================================
