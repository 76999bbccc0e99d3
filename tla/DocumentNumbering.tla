-------------------------- MODULE DocumentNumbering --------------------------
(***************************************************************************)
(* The numbers of financial_documents.  A number is made of the prefix of  *)
(* the type, the apply date and a sequence number: one more than the       *)
(* documents of that type and date.  An advisory lock on "type:date" is    *)
(* held from the count to the commit, and (type, number) is unique.        *)
(*                                                                         *)
(* Workers are concurrent requests.  The documents are drafts; one that    *)
(* leaves the draft state stays in the table and is counted as before.     *)
(***************************************************************************)
EXTENDS Integers, FiniteSets, TLC

CONSTANTS
  Workers,
  Docs,             \* identifiers (uuid4) of documents
  Types,            \* document types
  Dates,            \* apply dates
  NoDoc             \* a row that does not exist; a request about no row

VARIABLES
  doc,              \* the committed rows
  pc,               \* "idle", or "write": the number is computed
  want,             \* the row each request is about to write, and where
  updated           \* history: a type or a date has been updated

vars == <<doc, pc, want, updated>>

(* A document number; the prefix stands for the type it was made for. *)
Numbers == [prefix: Types, date: Dates, seq: Nat \ {0}]
Rows == [type: Types, date: Dates, no: Numbers]
Idle == [target |-> NoDoc, row |-> NoDoc]

ASSUME DocsAssumption == IsFiniteSet(Docs) /\ NoDoc \notin Docs \cup Rows

Existing == {d \in Docs : doc[d] # NoDoc}

(* Mutant: nothing is locked. *)
LockAlwaysFree(type, date) == TRUE

(* pg_advisory_xact_lock: held by the requests that have counted and not   *)
(* yet committed.                                                          *)
LockFree(type, date) ==
  \A w \in Workers :
    pc[w] = "write" => want[w].row.no.prefix # type \/ want[w].row.no.date # date

(* A row that some request is about to update is locked. *)
RowFree(d) == \A w \in Workers : pc[w] = "write" => want[w].target # d

Alike(type, date) == {d \in Existing : doc[d].type = type /\ doc[d].date = date}

Init ==
  /\ doc = [d \in Docs |-> NoDoc]
  /\ pc = [w \in Workers |-> "idle"]
  /\ want = [w \in Workers |-> Idle]
  /\ updated = FALSE

(* _next_document_no for a row that will have this type and date.  The     *)
(* count autoflushes, so it sees the row the request itself has changed:   *)
(* `self' is that row, or empty.                                           *)
NextNumber(type, date, self) ==
  [prefix |-> type, date |-> date, seq |-> Cardinality(Alike(type, date) \cup self) + 1]

Count(w, target, type, date, self) ==
  /\ pc[w] = "idle"
  /\ LockFree(type, date)
  /\ pc' = [pc EXCEPT ![w] = "write"]
  /\ want' = [want EXCEPT ![w] =
       [target |-> target,
        row |-> [type |-> type, date |-> date, no |-> NextNumber(type, date, self)]]]
  /\ updated' = (updated \/ target # NoDoc)
  /\ UNCHANGED doc

(* Mutant: the new row is added to the session before the count. *)
CreateDraftCounted(w, type, date) == Count(w, NoDoc, type, date, {NoDoc})

CreateDraft(w, type, date) == Count(w, NoDoc, type, date, {})

(* The source is read before the lock is waited for. *)
CopyDocument(w, d) ==
  /\ d \in Existing
  /\ Count(w, NoDoc, doc[d].type, doc[d].date, {})

(* PATCH with another document type, and possibly another date. *)
ChangeType(w, d, type, date) ==
  /\ d \in Existing
  /\ RowFree(d)
  /\ doc[d].type # type
  /\ Count(w, d, type, date, {d})

(* PATCH of the date alone: the number is kept. *)
ChangeDate(w, d, date) ==
  /\ pc[w] = "idle"
  /\ d \in Existing
  /\ RowFree(d)
  /\ doc' = [doc EXCEPT ![d].date = date]
  /\ updated' = TRUE
  /\ UNCHANGED <<pc, want>>

(* uq_financial_documents_type_no. *)
Taken(row, target) ==
  \E d \in Existing \ {target} : doc[d].type = row.type /\ doc[d].no = row.no

Released(w) ==
  /\ pc' = [pc EXCEPT ![w] = "idle"]
  /\ want' = [want EXCEPT ![w] = Idle]
  /\ UNCHANGED updated

Commit(w) ==
  /\ pc[w] = "write"
  /\ ~Taken(want[w].row, want[w].target)
  /\ \E d \in Docs :
       /\ IF want[w].target = NoDoc THEN doc[d] = NoDoc ELSE d = want[w].target
       /\ doc' = [doc EXCEPT ![d] = want[w].row]
  /\ Released(w)

(* IntegrityError, or a crash before the commit. *)
Rollback(w) ==
  /\ pc[w] = "write"
  /\ Released(w)
  /\ UNCHANGED doc

CreateOrCopy(w) ==
  \/ \E type \in Types, date \in Dates : CreateDraft(w, type, date)
  \/ \E d \in Docs : CopyDocument(w, d)

Patch(w) ==
  \E d \in Docs, date \in Dates :
    \/ \E type \in Types : ChangeType(w, d, type, date)
    \/ ChangeDate(w, d, date)

Next == \E w \in Workers : CreateOrCopy(w) \/ Patch(w) \/ Commit(w) \/ Rollback(w)

Spec == Init /\ [][Next]_vars

(***************************************************************************)
(* Properties.                                                             *)
(***************************************************************************)
TypeOK ==
  /\ doc \in [Docs -> Rows \cup {NoDoc}]
  /\ pc \in [Workers -> {"idle", "write"}]
  /\ want \in [Workers -> [target: Docs \cup {NoDoc}, row: Rows \cup {NoDoc}]]
  /\ updated \in BOOLEAN

(* No two documents share a number, and a number always names the type     *)
(* that its document has, after any change of type.                        *)
NumbersIdentify ==
  \A d, e \in Existing :
    /\ doc[d].no.prefix = doc[d].type
    /\ doc[d].no = doc[e].no => d = e

(* What a request is about to write names its type too. *)
WantedIdentify == \A w \in Workers : pc[w] = "write" => want[w].row.no.prefix = want[w].row.type

(* Every number that is computed can be written: no two requests compute   *)
(* the same one, and none is in use.                                       *)
NeverTaken == \A w \in Workers : pc[w] = "write" => ~Taken(want[w].row, want[w].target)

(* So it is as long as no type and no date has been updated.               *)
NoCollision == ~updated => NeverTaken

(* Together: requests at once never give one number to two documents, and  *)
(* before the first update they are not even stopped by the unique         *)
(* constraint, since the lock keeps them apart.                            *)
NumberingInv == TypeOK /\ NumbersIdentify /\ NoCollision

(* So long, the documents of a type and date are numbered 1, 2, ...        *)
Gapless ==
  \A type \in Types, date \in Dates :
    ~updated => {doc[d].no.seq : d \in Alike(type, date)} = 1..Cardinality(Alike(type, date))

(* For TLC: requests, documents, types and dates are interchangeable.      *)
Interchangeable ==
  Permutations(Workers) \cup Permutations(Docs) \cup Permutations(Types) \cup Permutations(Dates)
=============================================================================
