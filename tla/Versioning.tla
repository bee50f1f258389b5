----------------------------- MODULE Versioning -----------------------------
(***************************************************************************)
(* The versioning pattern every entity of the index follows.  The base     *)
(* table of an entity keeps the number of its current version              *)
(* (currentVersionId) and the version table keeps one row per version.  A  *)
(* version id is the entity id followed by the version number, so a pair   *)
(* <<id, n>> is the primary key of a version row.                          *)
(*                                                                         *)
(* A database d is a record with at least the fields                       *)
(*    current : id -> version number, or Null when the entity has no row   *)
(*    version : id -> version number -> row, or NoRow                      *)
(* An operator named CanX is the condition under which the operation X     *)
(* does not throw: a missing row, a unique key that is taken and a         *)
(* referential action Restrict all abort the surrounding transaction.      *)
(***************************************************************************)
EXTENDS Integers

CONSTANTS
  NoRow,        \* the absence of a version row
  MaxVersion    \* bound on version numbers

ASSUME MaxVersionAssumption == MaxVersion \in Nat

Null   == -1
Number == 0..MaxVersion

(***************************************************************************)
(* The tables of a set of entities whose version rows come from Rows.      *)
(***************************************************************************)
Tables(Ids, Rows) ==
  [current : [Ids -> Number \cup {Null}],
   version : [Ids -> [Number -> Rows \cup {NoRow}]]]

EmptyTables(Ids) ==
  [current |-> [id \in Ids |-> Null],
   version |-> [id \in Ids |-> [n \in Number |-> NoRow]]]

Exists(d, id)  == d.current[id] # Null
Current(d, id) == d.version[id][d.current[id]]

-----------------------------------------------------------------------------
(***************************************************************************)
(* Adding a version.  An entity without a row gets version 0 with no       *)
(* predecessor; any other gets the number after its current version, and   *)
(* the current version as predecessor.  The current version must be found, *)
(* and the new primary key must be free.                                   *)
(***************************************************************************)
CanAddVersion(d, id) ==
  /\ d.current[id] + 1 \in Number
  /\ d.version[id][d.current[id] + 1] = NoRow
  /\ Exists(d, id) => Current(d, id) # NoRow

\* Table T with row r put at key n of entity id.
Put(T, id, n, r) == [T EXCEPT ![id] = [@ EXCEPT ![n] = r]]

\* Mutant: an update overwrites the current version.
AddVersionInPlace(d, id, tx, val) ==
  LET n   == IF Exists(d, id) THEN d.current[id] ELSE 0
      row == [prev |-> n - 1, tx |-> tx, val |-> val]
  IN  [d EXCEPT !.current = [@ EXCEPT ![id] = n],
                !.version = Put(@, id, n, row)]

\* Mutant: the new version forgets which version it replaces.
AddVersionUnlinked(d, id, tx, val) ==
  LET n == d.current[id] + 1 IN
  [d EXCEPT !.current = [@ EXCEPT ![id] = n],
            !.version = Put(@, id, n, [prev |-> Null, tx |-> tx, val |-> val])]

AddVersion(d, id, tx, val) ==
  LET n   == d.current[id] + 1
      row == [prev |-> d.current[id], tx |-> tx, val |-> val]
  IN  [d EXCEPT !.current = [@ EXCEPT ![id] = n],
                !.version = Put(@, id, n, row)]

(***************************************************************************)
(* Deleting the latest version: the predecessor becomes current, or the    *)
(* entity itself goes when there is none.  A version that another one      *)
(* names as predecessor, and an entity that still has versions, are        *)
(* protected by onDelete: Restrict.                                        *)
(***************************************************************************)
CanDeleteLatest(d, id) ==
  /\ Exists(d, id)
  /\ Current(d, id) # NoRow
  /\ \A n \in Number :
       /\ d.version[id][n] # NoRow
       /\ n # d.current[id]
       => /\ d.version[id][n].prev # d.current[id]
          /\ Current(d, id).prev # Null

\* Mutant: the entity steps back and its version row stays behind.
DeleteLatestKeepsRow(d, id) ==
  [d EXCEPT !.current = [@ EXCEPT ![id] = Current(d, id).prev]]

DeleteLatest(d, id) ==
  [d EXCEPT !.current = [@ EXCEPT ![id] = Current(d, id).prev],
            !.version = Put(@, id, d.current[id], NoRow)]

\* What the operation Op(d, id) does, done for every id of S.
OnEach(Op(_, _), d, S) ==
  [current |-> [id \in DOMAIN d.current |->
                  IF id \in S THEN Op(d, id).current[id] ELSE d.current[id]],
   version |-> [id \in DOMAIN d.version |->
                  IF id \in S THEN Op(d, id).version[id] ELSE d.version[id]]]

-----------------------------------------------------------------------------
(***************************************************************************)
(* The versions of an entity are numbered from zero up to its current one, *)
(* each naming the one before it as its predecessor: what README.md says   *)
(* of versionNumber, prevVersionId and currentVersionId.                   *)
(***************************************************************************)
Chained(d, id) ==
  \A n \in Number :
    /\ (d.version[id][n] # NoRow) <=> (n <= d.current[id])
    /\ d.version[id][n] # NoRow => d.version[id][n].prev = n - 1

=============================================================================
