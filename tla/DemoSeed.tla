------------------------------- MODULE DemoSeed -------------------------------
(***************************************************************************)
(* seed_demo_data.py: the demonstration data, written in one transaction   *)
(* of INSERT ... ON CONFLICT DO NOTHING statements, as often as one likes, *)
(* also twice at a time, into a database that may have rows of its own.    *)
(*                                                                         *)
(* One row stands for the rows of a table.  Demonstration rows have fixed  *)
(* ids; a row that somebody else made under the same natural key has       *)
(* another id, and references, which go by id, do not find it.             *)
(***************************************************************************)
EXTENDS Integers, Sequences

CONSTANTS Runs, MaxRuns   \* processes of the script; bound: starts of each

VARIABLES
  taken,   \* tables in which somebody else has the natural key
  seeded,  \* tables whose demonstration row is committed
  seeder   \* of each process: its next statement, what it has inserted, its starts and how it ended

vars == <<taken, seeded, seeder>>

Row(table, target, refs) == [table |-> table, target |-> target, refs |-> refs]

(* The columns of the conflict clause are the natural key, or the id.      *)
UserRows ==
  <<Row("roles", "key", {}), Row("permissions", "key", {}), Row("users", "key", {}),
    Row("user_roles", "key", {"users", "roles"}), Row("role_permissions", "key", {"roles", "permissions"})>>

DocumentRows ==
  <<Row("documents", "id", {"users"}), Row("document_versions", "key", {"documents", "users"}),
    Row("line_items", "key", {"documents", "document_versions"}),
    Row("status_logs", "id", {"documents", "document_versions", "users"})>>

ApprovalRows ==
  <<Row("workflows", "id", {}), Row("workflow_nodes", "key", {"workflows", "users"}),
    Row("approval_instances", "id", {"workflows", "workflow_nodes", "documents", "document_versions"}),
    Row("approval_tasks", "id", {"approval_instances", "workflow_nodes", "users"})>>

AnalysisRows ==
  <<Row("analysis_tasks", "key", {"documents", "document_versions"}),
    Row("risk_findings", "id", {"analysis_tasks", "document_versions"}),
    Row("review_reports", "id", {"analysis_tasks", "documents", "document_versions"})>>

SupportRows ==
  <<Row("review_sessions", "id", {"users", "documents", "document_versions"}),
    Row("session_messages", "id", {"review_sessions"}), Row("market_prices", "id", {}),
    Row("suppliers", "key", {}), Row("audit_logs", "id", {"users"})>>

Rows == UserRows \o DocumentRows \o ApprovalRows \o AnalysisRows \o SupportRows
Tables == {Rows[n].table : n \in 1..Len(Rows)}

(* Tables with a natural key that does not contain a demonstration id.     *)
Keyed == {"roles", "permissions", "users", "documents", "analysis_tasks", "suppliers"}
Idle == [at |-> 0, inserted |-> {}, starts |-> 0, ended |-> "never"]

Init ==
  /\ taken \in SUBSET Keyed
  /\ seeded = {}
  /\ seeder = [r \in Runs |-> Idle]

Start(r) ==
  /\ seeder[r].at = 0 /\ seeder[r].starts < MaxRuns
  /\ seeder' = [seeder EXCEPT ![r] = [seeder[r] EXCEPT !.at = 1, !.starts = @ + 1]]
  /\ UNCHANGED <<taken, seeded>>

(* A row that another transaction has inserted and not committed: the      *)
(* statement waits for the end of that transaction.                        *)
Waits(r, row) == \E other \in Runs \ {r} : row.table \in seeder[other].inserted

Visible(r) == seeded \cup seeder[r].inserted
Ignored(r, row) == row.table \in Visible(r) \/ (row.table \in taken /\ row.target = "key")

(* A unique constraint other than that of the conflict clause, or a        *)
(* reference to an id that does not exist.                                 *)
Rejected(r, row) == row.table \in taken \/ ~ row.refs \subseteq Visible(r)

Undo(r, ended) == [seeder EXCEPT ![r] = [seeder[r] EXCEPT !.at = 0, !.inserted = {}, !.ended = ended]]

(* Mutant: every statement in a transaction of its own. *)
AbortKeeps(r, ended) == /\ seeded' = seeded \cup seeder[r].inserted
                        /\ seeder' = Undo(r, ended)

(* The transaction is rolled back. *)
Abort(r, ended) == /\ seeder' = Undo(r, ended)
                   /\ UNCHANGED seeded

(* _insert_ignore *)
Insert(r) ==
  /\ seeder[r].at \in 1..Len(Rows)
  /\ UNCHANGED taken
  /\ LET row == Rows[seeder[r].at] IN
       /\ ~Waits(r, row)
       /\ IF ~Ignored(r, row) /\ Rejected(r, row)
          THEN Abort(r, "rejected")
          ELSE /\ seeder' = [seeder EXCEPT ![r] = [seeder[r] EXCEPT !.at = @ + 1,
                               !.inserted = IF Ignored(r, row) THEN @ ELSE @ \cup {row.table}]]
               /\ UNCHANGED seeded

Commit(r) ==
  /\ seeder[r].at = Len(Rows) + 1
  /\ seeded' = seeded \cup seeder[r].inserted
  /\ seeder' = Undo(r, "done")
  /\ UNCHANGED taken

(* The process or its connection is lost. *)
Break(r) ==
  /\ seeder[r].at # 0
  /\ Abort(r, "lost")
  /\ UNCHANGED taken

(* Somebody else takes one of the keys, or has taken it before. *)
Take(table) ==
  /\ table \notin taken \cup seeded
  /\ \A r \in Runs : table \notin seeder[r].inserted
  /\ taken' = taken \cup {table}
  /\ UNCHANGED <<seeded, seeder>>

Next ==
  \/ \E r \in Runs : Start(r) \/ Insert(r) \/ Commit(r) \/ Break(r)
  \/ \E table \in Keyed : Take(table)

Spec == Init /\ [][Next]_vars

(***************************************************************************)
(* Properties.                                                             *)
(***************************************************************************)
TypeOK ==
  /\ taken \subseteq Keyed /\ seeded \subseteq Tables /\ taken \cap seeded = {}
  /\ \A r \in Runs : seeder[r].at \in 0..Len(Rows) + 1 /\ seeder[r].inserted \subseteq Tables

(* There is all of the demonstration data or none of it; of all, only the  *)
(* supplier may be somebody else's, since nothing refers to it.            *)
SeededWhole == seeded # {} => Tables \ {"suppliers"} \subseteq seeded

(* The script is rejected only where somebody else has one of its keys:    *)
(* what is skipped for its key is missed by its id later on.  After it is  *)
(* done, it can be run again.                                              *)
RejectedOnlyIfTaken ==
  \A r \in Runs : seeder[r].ended = "rejected" => taken \ {"suppliers"} # {}
=============================================================================
