--------------------------- MODULE MemoryAttachments ---------------------------
(***************************************************************************)
(* The attachments of one document version in the in-memory service: its   *)
(* methods run to their end without giving up the thread, so that each is  *)
(* one step; the scanner, the file store and the repository may fail.      *)
(***************************************************************************)
EXTENDS Integers, Sequences, FiniteSets

CONSTANTS
  Contents,     \* by their hash
  MaxRecords,   \* bound: records
  MaxSize       \* of a version, 200 MB in the code; a file has 1 or 2

VARIABLES
  status,       \* of the document, as the caller gives it
  records,      \* the repository, in the order of their making
  objects,      \* places of records that have an object in the store
  orphans       \* history: objects without a record, because the store failed twice

vars == <<status, records, objects, orphans>>

Editable == {"draft", "withdrawn", "returned"}
Statuses == Editable \cup {"pending_review"}
SizeOf == [c \in Contents |-> IF c = CHOOSE x \in Contents : TRUE THEN 2 ELSE 1]

Init ==
  /\ status \in Statuses
  /\ records = <<>> /\ objects = {} /\ orphans = 0

(* list_by_version, find_by_hash *)
Live == {n \in DOMAIN records : records[n].storage # "deleted"}
Duplicate(c) == \E n \in Live : records[n].content = c

(* The size of all of them: of those that have two, one is counted again. *)
Sizes(places) ==
  Cardinality(places) + Cardinality({n \in places : SizeOf[records[n].content] = 2})

HasRoom(c) == Sizes(Live) + SizeOf[c] <= MaxSize

(* upload_attachment up to the store: a duplicate is answered as it is.    *)
Admitted(c) ==
  /\ status \in Editable
  /\ Len(records) < MaxRecords
  /\ ~Duplicate(c) /\ HasRoom(c)

Upload(c) ==
  /\ Admitted(c)
  /\ records' = Append(records, [content |-> c, storage |-> "stored", parse |-> "pending", retries |-> 0])
  /\ objects' = objects \cup {Len(records) + 1}
  /\ UNCHANGED <<status, orphans>>

(* save fails after put: the object is removed, if that does not fail too. *)
UploadFails(c, removed) ==
  /\ Admitted(c)
  /\ orphans < MaxRecords
  /\ orphans' = IF removed THEN orphans ELSE orphans + 1
  /\ UNCHANGED <<status, records, objects>>

AfterDeletion(removed) == IF removed THEN "deleted" ELSE "failed"

(* delete_attachment by the one who uploaded it. *)
Delete(n, removed) ==
  /\ n \in Live /\ status \in Editable
  /\ records' = [records EXCEPT ![n].storage = AfterDeletion(removed)]
  /\ objects' = IF removed THEN objects \ {n} ELSE objects
  /\ UNCHANGED <<status, orphans>>

(* mark_parse_running, mark_parse_succeeded, mark_parse_failed             *)
Mark(n, parse) ==
  /\ n \in Live
  /\ parse = "parsing" => records[n].storage = "stored"
  /\ records' = [records EXCEPT ![n].parse = parse]
  /\ UNCHANGED <<status, objects, orphans>>

(* retry_parse: the fourth attempt is left to a person. *)
Retry(n, attempt) ==
  /\ n \in Live
  /\ records' = [records EXCEPT
       ![n] = [records[n] EXCEPT
                 !.retries = attempt,
                 !.parse = IF attempt > 3 THEN "manual_review" ELSE "pending"]]
  /\ UNCHANGED <<status, objects, orphans>>

(* The document is submitted, or returned. *)
Move(s) ==
  /\ status' = s
  /\ UNCHANGED <<records, objects, orphans>>

Next ==
  \/ \E c \in Contents : Upload(c) \/ \E removed \in BOOLEAN : UploadFails(c, removed)
  \/ \E n \in 1..MaxRecords :
       \/ \E removed \in BOOLEAN : Delete(n, removed)
       \/ \E parse \in {"parsing", "succeeded", "failed"} : Mark(n, parse)
       \/ \E attempt \in 3..4 : Retry(n, attempt)
  \/ \E s \in Statuses : Move(s)

Spec == Init /\ [][Next]_vars

(***************************************************************************)
(* Properties.                                                             *)
(***************************************************************************)
TypeOK ==
  /\ status \in Statuses
  /\ \A n \in DOMAIN records :
       /\ records[n].content \in Contents /\ records[n].retries \in {0, 3, 4}
       /\ records[n].storage \in {"stored", "failed", "deleted"}
       /\ records[n].parse \in {"pending", "parsing", "succeeded", "failed", "manual_review"}

(* A version has each content once, and no more of it all than it may,     *)
(* what could not be deleted included.                                     *)
OnceAndBounded ==
  LET kept == {n \in DOMAIN records : records[n].storage # "deleted"} IN
  /\ \A m, n \in kept : records[m].content = records[n].content => m = n
  /\ Sizes(kept) <= MaxSize

(* A record that is not deleted has its object, and a deleted one has none *)
(* that nothing leads to any more.                                         *)
ObjectPerRecord == objects = {n \in DOMAIN records : records[n].storage # "deleted"}
=============================================================================
