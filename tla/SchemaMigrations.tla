-------------------------- MODULE SchemaMigrations --------------------------
(***************************************************************************)
(* The migrations of the database.  A run of Alembic reads the revision,   *)
(* then applies the migrations up or down to the one it was asked for, all *)
(* in one transaction.  After its first migration a run holds the row of   *)
(* alembic_version and the tables, so that another one waits, and then     *)
(* finds another revision than it has read, which is an error.             *)
(*                                                                         *)
(* The tables are those of the early migrations ("core", "extended", with  *)
(* the "fields" added to both) or those of the models ("full", with the    *)
(* columns "parse" of attachments).                                        *)
(***************************************************************************)
EXTENDS Integers

CONSTANTS
  Runs, Nobody

VARIABLES
  revision,         \* alembic_version
  tables,           \* committed
  holder,           \* the run whose transaction holds the tables
  run               \* what each run is doing

vars == <<revision, tables, holder, run>>

Revisions == 0..5
Groups == {"core", "extended", "fields", "full", "parse"}

Stopped == [from |-> 0, at |-> 0, to |-> 0, tables |-> {}]

Init ==
  /\ revision = 0
  /\ tables = {}
  /\ holder = Nobody
  /\ run = [r \in Runs |-> Stopped]

Running(r) == run[r].from # run[r].to

(* alembic upgrade or downgrade: read the revision.                        *)
Begin(r, target) ==
  /\ ~Running(r) /\ target # revision
  /\ run' = [run EXCEPT ![r] = [from |-> revision, at |-> revision, to |-> target, tables |-> {}]]
  /\ UNCHANGED <<revision, tables, holder>>

(* What each migration adds. *)
Core == {"core"}
Extended == {"extended"}
Fields == {"fields"}
Full == {"full", "parse"}
Parse == {"parse"}

Added == <<Core, Extended, Fields, Full, Parse>>

(* Mutant: the tables of the early migrations are not dropped. *)
UpgradedOver(m, ts) == ts \cup Added[m]

(* 0004 drops all tables and creates those of the models, whose columns    *)
(* are the latest.                                                         *)
Upgraded(m, ts) == IF m = 4 THEN Added[m] ELSE ts \cup Added[m]

(* create_table fails where a table exists, add_column where none does or  *)
(* where it has the column; the inspector of 0005 needs the tables, and    *)
(* then adds the columns that are missing.                                 *)
CanUpgrade(m, ts) ==
  /\ m = 1 => "core" \notin ts /\ "full" \notin ts
  /\ m = 2 => "extended" \notin ts /\ "full" \notin ts
  /\ m = 3 => "core" \in ts /\ "extended" \in ts /\ "fields" \notin ts
  /\ m = 5 => "full" \in ts

(* 0004 drops whatever there is. *)
Downgraded(m, ts) == IF m = 4 THEN {} ELSE ts \ Added[m]

CanDowngrade(m, ts) ==
  /\ m \in 1..3 => Added[m] \subseteq ts
  /\ m = 5 => "full" \in ts

(* The tables as the transaction of the run sees them.                     *)
Seen(r) == IF holder = r THEN run[r].tables ELSE tables

(* The run has the tables, or gets them and finds the revision it read.    *)
Holds(r) == holder = r \/ (holder = Nobody /\ revision = run[r].from)

Up(r) ==
  LET m == run[r].at + 1 IN
  /\ run[r].at < run[r].to /\ Holds(r)
  /\ CanUpgrade(m, Seen(r))
  /\ holder' = r
  /\ run' = [run EXCEPT ![r] = [run[r] EXCEPT !.at = m, !.tables = Upgraded(m, Seen(r))]]
  /\ UNCHANGED <<revision, tables>>

Down(r) ==
  LET m == run[r].at IN
  /\ run[r].at > run[r].to /\ Holds(r)
  /\ CanDowngrade(m, Seen(r))
  /\ holder' = r
  /\ run' = [run EXCEPT ![r] = [run[r] EXCEPT !.at = m - 1, !.tables = Downgraded(m, Seen(r))]]
  /\ UNCHANGED <<revision, tables>>

Commit(r) ==
  /\ Running(r) /\ run[r].at = run[r].to
  /\ revision' = run[r].to
  /\ tables' = run[r].tables
  /\ holder' = Nobody
  /\ run' = [run EXCEPT ![r] = Stopped]

(* A migration fails, another run was first, or the run is interrupted.    *)
Rollback(r) ==
  /\ Running(r)
  /\ holder' = IF holder = r THEN Nobody ELSE holder
  /\ run' = [run EXCEPT ![r] = Stopped]
  /\ UNCHANGED <<revision, tables>>

Next ==
  \E r \in Runs :
    \/ \E target \in Revisions : Begin(r, target)
    \/ Up(r) \/ Down(r) \/ Commit(r) \/ Rollback(r)

Spec == Init /\ [][Next]_vars

(***************************************************************************)
(* Properties.                                                             *)
(***************************************************************************)
TypeOK ==
  /\ revision \in Revisions
  /\ tables \subseteq Groups
  /\ holder \in Runs \cup {Nobody}
  /\ run \in [Runs -> [from: Revisions, at: Revisions, to: Revisions, tables: SUBSET Groups]]

(* The tables are those of the revision, whatever runs overlapped and were *)
(* rolled back, but for two cases: revision 3 has no tables at all after   *)
(* a downgrade, and revision 4 may have the columns of revision 5.         *)
SchemaWhole ==
  /\ revision = 0 => tables = {}
  /\ revision = 1 => tables = {"core"}
  /\ revision = 2 => tables = {"core", "extended"}
  /\ revision = 3 => tables = {"core", "extended", "fields"} \/ tables = {}
  /\ revision = 4 => tables = {"full"} \/ tables = {"full", "parse"}
  /\ revision = 5 => tables = {"full", "parse"}

(* What the migrations from revision n on make of tables, and whether all  *)
(* of them can be applied.                                                 *)
UpgradesToHead(n, ts) ==
  LET after[m \in n..5] == IF m = n THEN ts ELSE Upgraded(m, after[m - 1])
  IN \A m \in n + 1..5 : CanUpgrade(m, after[m - 1])

(* Wherever the database was left, it can be upgraded to the newest        *)
(* revision.                                                               *)
UpgradeNeverStuck == UpgradesToHead(revision, tables)

(* A database that was rebuilt is never downgraded below revision 3, which *)
(* has no tables to take columns from: only an upgrade goes on from there. *)
RebuiltGoesUp ==
  [][(revision >= 4 \/ (revision = 3 /\ tables = {})) => revision' >= 3]_vars
=============================================================================
