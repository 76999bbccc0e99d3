----------------------------- MODULE DraftAmounts -----------------------------
(***************************************************************************)
(* The amounts of a document: its total, the lines of its draft, and the   *)
(* payload of its type, through edits, submissions and returns.  Edits are *)
(* validated in part only, a submission validates what is stored.  The row *)
(* is locked while it is written (DocumentLifecycle has the concurrency),  *)
(* so that each request is one step.                                       *)
(*                                                                         *)
(* Two types stand for the five: "expense", which may have lines or the    *)
(* payload of its type, and "batch" for a type with its own payload.       *)
(***************************************************************************)
EXTENDS Integers, Sequences

CONSTANTS
  MaxAmount,        \* bound: amounts are 1..MaxAmount
  MaxLines,         \* bound: lines of a draft
  MaxSubmissions,   \* bound: versions of the document
  Absent

VARIABLES
  doc,              \* type, total, status and document_payload of the row
  submissions       \* the versions: total, payload and relational lines

vars == <<doc, submissions>>

Amounts == 1..MaxAmount
LineLists == UNION {[1..n -> Amounts] : n \in 0..MaxLines}
Total(lines) ==
  LET sum[n \in 0..Len(lines)] == IF n = 0 THEN 0 ELSE sum[n - 1] + lines[n] IN sum[Len(lines)]

(* document_payload: the fields of the type ("own"), and line_items.       *)
Payload(own, lines) == [own |-> own, lines |-> lines]
LineCount(p) == IF p.lines = Absent THEN 0 ELSE Len(p.lines)

(* The payload of a type is valid in itself: at least one detail, and the  *)
(* total of a batch, which is a field of the payload, is the sum of them.  *)
OwnPayloads == LineLists \ {<<>>}

(* Mutant: the lines need not add up. *)
AddUpUnchecked(total, lines) == lines # <<>>

(* validate_expense_total *)
AddUp(total, lines) == lines # <<>> /\ Total(lines) = total

(* _validate_command_payload for lines without a payload of the type. *)
LinesAccepted(total, lines) == lines = <<>> \/ AddUp(total, lines)

Drafts(type) ==
  {Payload(own, Absent) : own \in OwnPayloads \cup {Absent}}
    \cup (IF type = "expense" THEN {Payload(Absent, lines) : lines \in LineLists} ELSE {})

Drafted(type, total, p) == [type |-> type, total |-> total, payload |-> p, status |-> "draft"]

(* create_draft *)
Init ==
  /\ submissions = <<>>
  /\ \E type \in {"expense", "batch"}, total \in Amounts :
       \E p \in Drafts(type) :
         /\ type = "expense" /\ p.own = Absent => p.lines # Absent /\ LinesAccepted(total, p.lines)
         /\ doc = Drafted(type, total, p)

Editable == doc.status \in {"draft", "returned"}

(* update_draft with a total: whatever lines are stored are not looked at. *)
PatchTotal(total) ==
  /\ Editable
  /\ doc' = [doc EXCEPT !.total = total]
  /\ UNCHANGED submissions

(* ... with lines, and maybe a total: lines of an expense document are     *)
(* validated, of others not; they are put beside what the payload has.     *)
PatchLines(lines, total) ==
  /\ Editable
  /\ doc.type = "expense" => LinesAccepted(total, lines)
  /\ doc' = [doc EXCEPT !.total = total, !.payload.lines = lines]
  /\ UNCHANGED submissions

(* ... with a payload of the type of the document, which replaces the      *)
(* whole payload.                                                          *)
PatchPayload(own) ==
  /\ Editable
  /\ doc' = [doc EXCEPT !.payload = Payload(own, Absent)]
  /\ UNCHANGED submissions

(* ... with another type and no payload: the old payload is dropped, and   *)
(* lines that come with it are not validated.                              *)
PatchType(type, lines) ==
  /\ Editable
  /\ doc.type # type
  /\ doc' = [doc EXCEPT !.type = type, !.payload = Payload(Absent, lines)]
  /\ UNCHANGED submissions

(* add_line_item, for any type of document; the total is not looked at.    *)
AddLine(amount) ==
  /\ Editable
  /\ LineCount(doc.payload) < MaxLines
  /\ doc' = [doc EXCEPT !.payload.lines = IF @ = Absent THEN <<amount>> ELSE Append(@, amount)]
  /\ UNCHANGED submissions

(* delete_line_item *)
DeleteLine(n) ==
  /\ Editable
  /\ n \in 1..LineCount(doc.payload)
  /\ doc' = [doc EXCEPT !.payload.lines = SubSeq(@, 1, n - 1) \o SubSeq(@, n + 1, Len(@))]
  /\ UNCHANGED submissions

(* extra="forbid": a payload of a type has no line_items. *)
OwnValid(p) == p.own # Absent /\ p.lines = Absent

(* _validate_stored_payload *)
Submittable(d) ==
  IF d.type = "expense" /\ d.payload.own = Absent
  THEN LineCount(d.payload) > 0 /\ AddUp(d.total, d.payload.lines)
  ELSE OwnValid(d.payload)

(* The relational lines of a version: none for other types than expenses.  *)
LineRows(d) ==
  IF d.type # "expense" THEN <<>>
  ELSE IF d.payload.own = Absent THEN d.payload.lines ELSE d.payload.own

(* submit *)
Submit ==
  /\ Editable
  /\ Len(submissions) < MaxSubmissions
  /\ Submittable(doc)
  /\ submissions' = Append(submissions,
       [type |-> doc.type, total |-> doc.total, payload |-> doc.payload, rows |-> LineRows(doc)])
  /\ doc' = [doc EXCEPT !.status = "pending_review"]

(* An approver returns the document (ApprovalFlow). *)
Return ==
  /\ doc.status = "pending_review"
  /\ doc' = [doc EXCEPT !.status = "returned"]
  /\ UNCHANGED submissions

Next ==
  \/ \E total \in Amounts : PatchTotal(total)
  \/ \E lines \in LineLists, total \in Amounts : PatchLines(lines, total)
  \/ \E own \in OwnPayloads : PatchPayload(own)
  \/ \E type \in {"expense", "batch"}, lines \in LineLists \cup {Absent} : PatchType(type, lines)
  \/ \E amount \in Amounts : AddLine(amount)
  \/ \E n \in 1..MaxLines : DeleteLine(n)
  \/ Submit \/ Return

Spec == Init /\ [][Next]_vars

(* amount_comparison reads the lines of every version of the document.     *)
RowsCompared(s) ==
  LET upto[n \in 0..Len(s)] == IF n = 0 THEN <<>> ELSE upto[n - 1] \o s[n].rows IN upto[Len(s)]

(* line_item_total *)
LineItemTotal == Total(RowsCompared(submissions))

(***************************************************************************)
(* Properties.                                                             *)
(***************************************************************************)
TypeOK ==
  /\ doc.type \in {"expense", "batch"} /\ doc.total \in Amounts
  /\ doc.payload.own \in OwnPayloads \cup {Absent}
  /\ doc.payload.lines \in LineLists \cup {Absent}
  /\ doc.status \in {"draft", "pending_review", "returned"}
  /\ Len(submissions) <= MaxSubmissions

(* The total of a submitted version is the sum of its lines, whatever      *)
(* edits came before; only a version with the payload of its type may have *)
(* another total, which nothing compares.                                  *)
SubmittedAddsUp ==
  \A n \in DOMAIN submissions :
    Total(submissions[n].rows) # submissions[n].total => submissions[n].payload.own # Absent

(* No version carries two lists of lines, of which a reader could take     *)
(* either.                                                                 *)
OneListOfLines ==
  \A n \in DOMAIN submissions :
    submissions[n].payload.own = Absent \/ submissions[n].payload.lines = Absent

(* The comparison of amounts finds the lines of a document under review    *)
(* equal to its total if no earlier version had lines; what was submitted  *)
(* before a return is counted again, and the lines never agree.            *)
ComparesFirstVersionOnly ==
  LET n == Len(submissions) IN
  n > 0 /\ doc.status = "pending_review" /\ doc.type = "expense" /\ doc.payload.own = Absent =>
    (LineItemTotal = doc.total <=> \A m \in 1..n - 1 : submissions[m].rows = <<>>)
=============================================================================
