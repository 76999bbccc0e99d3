------------------------------ MODULE WorkLists ------------------------------
(***************************************************************************)
(* The lists that people work through, page by page: an approver's tasks   *)
(* and an applicant's documents, newest first, all of them or those in a   *)
(* status.  Each page is a query of its own; rows are added and change     *)
(* their status between two pages.                                         *)
(***************************************************************************)
EXTENDS Integers, Sequences, FiniteSets

CONSTANTS
  Writers,          \* transactions that add rows
  Owners,           \* approvers
  Reader,           \* the one of them who reads the list
  PageSize,
  MaxRows,          \* bound: rows
  Filters,          \* subset of {"all", "pending"}
  Idle

VARIABLES
  clock,            \* created_at of the last row made, by the application
  making,           \* the row that each writer has made and not committed
  rows,             \* committed: by created_at, the owner and the status
  reader            \* filter, page asked for next, what was listed at first,
                    \* what it got, and how many rows left the list since

vars == <<clock, making, rows, reader>>

NotReading == [filter |-> "all", page |-> 0, first |-> {}, got |-> {}, left |-> 0]

Init ==
  /\ clock = 0
  /\ making = [w \in Writers |-> Idle]
  /\ rows = {}
  /\ reader = NotReading

(* create_instance makes a task: created_at is the time of the insert.     *)
Make(w, owner) ==
  /\ making[w] = Idle /\ clock < MaxRows
  /\ clock' = clock + 1
  /\ making' = [making EXCEPT ![w] = [at |-> clock + 1, owner |-> owner, status |-> "pending"]]
  /\ UNCHANGED <<rows, reader>>

Commit(w) ==
  /\ making[w] # Idle
  /\ rows' = rows \cup {making[w]}
  /\ making' = [making EXCEPT ![w] = Idle]
  /\ UNCHANGED <<clock, reader>>

(* _query_views of an approver, list_documents of an applicant             *)
Listed(filter) ==
  {row \in rows : row.owner = Reader /\ (filter = "all" \/ row.status = filter)}

(* ORDER BY created_at DESC, and nothing else: it is an order of the rows  *)
(* as long as no two of them have one time.                                *)
Place(set, row) == Cardinality({other \in set : other.at >= row.at})
Newest(set) == [n \in 1..Cardinality(set) |-> CHOOSE row \in set : Place(set, row) = n]

Least(m, n) == IF m < n THEN m ELSE n

(* rows[start : start + page_size] *)
Page(list, page) == SubSeq(list, (page - 1) * PageSize + 1, Least(page * PageSize, Len(list)))

(* decide, by its approver *)
Decide(row) ==
  /\ row.status = "pending"
  /\ rows' = (rows \ {row}) \cup {[row EXCEPT !.status = "approved"]}
  /\ reader' = [reader EXCEPT !.left =
       IF reader.page > 0 /\ row \in Listed(reader.filter) /\ reader.filter = "pending" THEN @ + 1 ELSE @]
  /\ UNCHANGED <<clock, making>>

AtEnd == reader.page > 1 /\ (reader.page - 1) * PageSize >= Cardinality(Listed(reader.filter))

(* The first page of a list. *)
Open(filter) ==
  /\ reader.page = 0
  /\ LET page == Page(Newest(Listed(filter)), 1) IN
     reader' = [filter |-> filter, page |-> 2, left |-> 0,
                first |-> {row.at : row \in Listed(filter)},
                got |-> {page[n].at : n \in DOMAIN page}]
  /\ UNCHANGED <<clock, making, rows>>

(* list_tasks, list_documents *)
Turn ==
  /\ reader.page > 0 /\ ~AtEnd
  /\ LET page == Page(Newest(Listed(reader.filter)), reader.page) IN
     reader' = [reader EXCEPT !.page = @ + 1, !.got = @ \cup {page[n].at : n \in DOMAIN page}]
  /\ UNCHANGED <<clock, making, rows>>

Next ==
  \/ \E w \in Writers : Commit(w) \/ \E owner \in Owners : Make(w, owner)
  \/ \E row \in rows : Decide(row)
  \/ \E filter \in Filters : Open(filter)
  \/ Turn

Spec == Init /\ [][Next]_vars

(* get_task of the reader: 403 for the task of somebody else.              *)
Opens(row) == row.owner = Reader

(***************************************************************************)
(* Properties.                                                             *)
(***************************************************************************)
TypeOK ==
  /\ clock \in 0..MaxRows
  /\ \A w \in Writers : making[w] # Idle => making[w].at \in 1..MaxRows
  /\ rows \subseteq [at: 1..MaxRows, owner: Owners, status: {"pending", "approved"}]
  /\ reader.filter \in {"all", "pending"} /\ reader.page \in Nat
  /\ reader.first \subseteq 1..MaxRows /\ reader.got \subseteq 1..MaxRows

(* Who turns the pages to the end has seen all that was there when they    *)
(* began, however many rows came meanwhile, and of the pending ones that   *)
(* are still pending all but as many as were decided meanwhile.            *)
MissedAsDecided ==
  AtEnd =>
    Cardinality({row \in Listed(reader.filter) : row.at \in reader.first \ reader.got}) <= reader.left

(* What the list has shown, the reader can open. *)
ShownOpens == \A row \in rows : row.at \in reader.got => Opens(row)
=============================================================================
