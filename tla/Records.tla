------------------------------- MODULE Records -------------------------------
(***************************************************************************)
(* Repository.Update and its companions (pkg/bear/db.go): the optimistic   *)
(* lock of a versioned entity, inside and outside a transaction that the   *)
(* request carries (Repository.DB).                                        *)
(*                                                                         *)
(* One row, several writers.  A writer holds a copy of the entity; Update  *)
(* raises the version of the copy before the statement runs and puts it    *)
(* back when the statement fails or matches no row.  The database locks a  *)
(* row that an open transaction changed; a statement whose answer is lost  *)
(* may have taken effect.                                                  *)
(***************************************************************************)
EXTENDS Integers, FiniteSets

CONSTANTS Writers, VersionLimit    \* VersionLimit bounds the row's version

Unread == -1
NoWriter == "nobody"

ASSUME RecordsAssumption == NoWriter \notin Writers /\ VersionLimit \in Nat

VARIABLES row,         \* [version, author]: what is committed
          uncommitted,     \* the row as an open transaction changed it, and who
          copy,        \* [Writers -> [version, basis]]: the entity it holds,
                       \* and the version of the row its content stems from
          leftBehind,  \* writers whose copy outlived the rollback of its Update
          merged       \* history: the Updates that were committed

recordVars == <<row, uncommitted, copy, leftBehind, merged>>

Rows == [version : Nat, author : Writers \union {NoWriter}]
Updates == [base : Nat, basis : Nat, writer : Writers, excused : BOOLEAN]

(* No transaction has changed the row c. *)
NoTransaction(c) == [owner |-> NoWriter, row |-> c, made |-> {}]

RecordsTypeOK ==
    /\ row \in Rows
    /\ uncommitted \in [owner : Writers \union {NoWriter}, row : Rows,
                   made : SUBSET Updates]
    /\ copy \in [Writers -> [version : Int, basis : Int]]
    /\ leftBehind \subseteq Writers
    /\ merged \subseteq Updates

RecordsInit ==
    /\ row = [version |-> 0, author |-> NoWriter]
    /\ uncommitted = NoTransaction(row)
    /\ copy = [w \in Writers |-> [version |-> Unread, basis |-> Unread]]
    /\ leftBehind = {}
    /\ merged = {}

-----------------------------------------------------------------------------
(* What w's statements see: its own transaction's row, else what is committed. *)
Seen(w) == IF uncommitted.owner = w THEN uncommitted.row ELSE row

Unlocked(w) == uncommitted.owner \in {NoWriter, w}

(* The statement of a writer: on its own, as the first write of the        *)
(* transaction that Repository.DB finds in the context of its request, or  *)
(* as a later write of that transaction.                                   *)
Write(w, changed, made) ==
    \/ /\ uncommitted' = [owner |-> w, row |-> changed, made |-> uncommitted.made \union made]
       /\ UNCHANGED <<row, merged>>
    \/ /\ uncommitted.owner = NoWriter
       /\ row' = changed
       /\ uncommitted' = NoTransaction(changed)
       /\ merged' = merged \union made

(* FindByID. *)
FindByID(w) ==
    /\ copy' = [copy EXCEPT ![w] = [version |-> Seen(w).version,
                                    basis |-> Seen(w).version]]
    /\ leftBehind' = leftBehind \ {w}
    /\ UNCHANGED <<row, uncommitted, merged>>

(* The statement of Update finds the row at the version of the copy. *)
MatchesRow(w) ==
    /\ copy[w].version # Unread /\ Unlocked(w)
    /\ copy[w].version = Seen(w).version /\ copy[w].version < VersionLimit

Raised(w) == [version |-> copy[w].version + 1, author |-> w]

Made(w) == [base |-> copy[w].version, basis |-> copy[w].basis, writer |-> w,
            excused |-> w \in leftBehind]

(* Update of a versioned entity. *)
Update(w) ==
    /\ MatchesRow(w)
    /\ Write(w, Raised(w), {Made(w)})
    /\ copy' = [copy EXCEPT ![w] = [version |-> @.version + 1,
                                    basis |-> @.version + 1]]
    /\ leftBehind' = leftBehind \ {w}

(* The statement took effect and its answer was lost: Update puts the      *)
(* version of the copy back and returns the error.                         *)
UpdateUnanswered(w) ==
    /\ MatchesRow(w) /\ uncommitted.owner = NoWriter
    /\ row' = Raised(w)
    /\ uncommitted' = NoTransaction(row')
    /\ merged' = merged \union {Made(w)}
    /\ UNCHANGED <<copy, leftBehind>>

(* UpdateByID writes given columns and knows nothing of the version. *)
UpdateByID(w) ==
    /\ Unlocked(w)
    /\ Write(w, [Seen(w) EXCEPT !.author = w], {})
    /\ UNCHANGED <<copy, leftBehind>>

-----------------------------------------------------------------------------
(* The end of the transaction. *)
Commit(w) ==
    /\ uncommitted.owner = w
    /\ row' = uncommitted.row
    /\ uncommitted' = NoTransaction(uncommitted.row)
    /\ merged' = merged \union uncommitted.made
    /\ UNCHANGED <<copy, leftBehind>>

(* A rollback takes the row back, but nothing takes back the version that  *)
(* Update gave the copy: it is ahead of the row it stems from.             *)
Abort(w) ==
    /\ uncommitted.owner = w
    /\ uncommitted' = NoTransaction(row)
    /\ IF copy[w].version > row.version
       THEN /\ copy' = [copy EXCEPT ![w].basis = row.version]
            /\ leftBehind' = leftBehind \union {w}
       ELSE UNCHANGED <<copy, leftBehind>>
    /\ UNCHANGED <<row, merged>>

RecordsNext ==
    \E w \in Writers :
        \/ FindByID(w) \/ Update(w) \/ UpdateUnanswered(w)
        \/ UpdateByID(w) \/ Commit(w) \/ Abort(w)

-----------------------------------------------------------------------------
(* Update loses no update of another writer: each version of the row was   *)
(* made by one committed Update, and that Update knew the version it       *)
(* replaced, whatever the interleaving of copies, transactions and lost    *)
(* answers.  The exception is a copy that outlived a rollback: it may meet *)
(* the version it was given by mistake and overwrite what it never read.   *)
NoUpdateLost ==
    /\ Cardinality(merged) = row.version
    /\ \A made \in merged :
         made.base = made.basis \/ made.excused

(* A copy was read, and stems from the version it has unless its Update was *)
(* rolled back; without a transaction there is nothing uncommitted.         *)
CopiesStem ==
    /\ \A w \in Writers :
         /\ copy[w].version = Unread \/ (copy[w].version \in Nat /\ copy[w].basis \in Nat)
         /\ copy[w].version = copy[w].basis \/ w \in leftBehind
    /\ uncommitted.owner = NoWriter => uncommitted = NoTransaction(row)

(* The Updates of the open transaction lead from the committed version to   *)
(* the uncommitted one, those committed before lead to the former.          *)
VersionsAreUpdates ==
    /\ IsFiniteSet(merged) /\ IsFiniteSet(uncommitted.made)
    /\ \A made \in merged : made.base < row.version
    /\ row.version <= uncommitted.row.version
    /\ Cardinality(uncommitted.made) = uncommitted.row.version - row.version
    /\ \A made \in uncommitted.made :
         /\ row.version <= made.base /\ made.base < uncommitted.row.version
         /\ made.base = made.basis \/ made.excused

RecordsIInv == RecordsTypeOK /\ CopiesStem /\ VersionsAreUpdates /\ NoUpdateLost
=============================================================================
