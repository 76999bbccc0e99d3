------------------------------ MODULE RiskRules ------------------------------
(***************************************************************************)
(* The rule engine of risk analysis: ten rules, each a function of the     *)
(* structured data of a document version (RiskContext), and the level that *)
(* the findings of a version have together.                                *)
(*                                                                         *)
(* A context is a record; amounts are whole numbers, None stands for a     *)
(* value that is not given, of flags and texts only counts whether there   *)
(* are any.                                                                *)
(***************************************************************************)
EXTENDS Integers

CONSTANT None

RuleCodes == {"invoice", "line_items", "contract", "batch", "expense",
              "market", "behavior", "supplier", "attachment", "duplicate"}

Levels == {"high", "medium", "low"}
FindingStatuses == {"pending", "matched", "confirmed", "dismissed", "manual_review"}

(* RiskContext: the fields and the values they are given here. *)
Amounts == 0..2
Fields ==
  [amount |-> Amounts, evidence |-> {None, "blank", "complete"},
   invoice_total |-> Amounts \cup {None}, line_item_total |-> Amounts \cup {None},
   contract_amount |-> Amounts \cup {None}, payment_amount |-> Amounts \cup {None},
   batch_total |-> Amounts \cup {None}, payment_count |-> 0..1 \cup {None},
   duplicate_account_count |-> 0..1, expense_limit |-> Amounts \cup {None},
   market_unit_price |-> Amounts \cup {None},
   market_price_min |-> Amounts \cup {None}, market_price_max |-> Amounts \cup {None},
   behavior_flags |-> BOOLEAN, supplier_risk_flags |-> BOOLEAN,
   required_attachment_count |-> 0..1, attachment_count |-> 0..2,
   attachment_fields_complete |-> BOOLEAN, duplicate_invoice |-> BOOLEAN]

(* validate_evidence: nothing of it is blank, and its time has a zone. *)
Complete(evidence) == evidence = "complete"

(* Data without which a rule is left to a person. *)
Missing(c, rule) ==
  \/ rule = "invoice" /\ c.invoice_total = None
  \/ rule = "line_items" /\ c.line_item_total = None
  \/ rule = "contract" /\ None \in {c.contract_amount, c.payment_amount}
  \/ rule = "batch" /\ None \in {c.batch_total, c.payment_count}
  \/ rule = "expense" /\ c.expense_limit = None
  \/ rule = "market" /\ None \in {c.market_unit_price, c.market_price_min, c.market_price_max}

(* What makes a rule more than "low", its data being there. *)
Alarm(c, rule) ==
  \/ rule = "invoice" /\ c.amount # c.invoice_total
  \/ rule = "line_items" /\ c.line_item_total # c.amount
  \/ rule = "contract" /\ c.payment_amount > c.contract_amount
  \/ rule = "batch" /\ c.duplicate_account_count > 0
  \/ rule = "expense" /\ c.amount > c.expense_limit
  \/ rule = "market" /\ ~(c.market_price_min <= c.market_unit_price /\ c.market_unit_price <= c.market_price_max)
  \/ rule = "behavior" /\ c.behavior_flags
  \/ rule = "supplier" /\ c.supplier_risk_flags
  \/ rule = "attachment" /\ (c.attachment_count < c.required_attachment_count \/ ~c.attachment_fields_complete)
  \/ rule = "duplicate" /\ c.duplicate_invoice

AlarmLevel(rule) == IF rule = "behavior" THEN "medium" ELSE "high"

(* evaluate_ten_rules for one of them. *)
Finding(c, rule) ==
  IF Missing(c, rule) \/ ~Complete(c.evidence)
  THEN [rule |-> rule, level |-> "medium", status |-> "manual_review", evidence |-> c.evidence]
  ELSE [rule |-> rule, level |-> IF Alarm(c, rule) THEN AlarmLevel(rule) ELSE "low",
        status |-> "matched", evidence |-> c.evidence]

(* aggregate_risk_level: the findings that count. *)
Confirmed(findings) == {f \in findings : f.status = "confirmed" /\ Complete(f.evidence)}

(* Mutant: the lowest one. *)
HighestLowest(levels) ==
  IF "low" \in levels THEN "low" ELSE IF "medium" \in levels THEN "medium"
  ELSE IF "high" \in levels THEN "high" ELSE "none"

Highest(levels) ==
  IF "high" \in levels THEN "high" ELSE IF "medium" \in levels THEN "medium"
  ELSE IF "low" \in levels THEN "low" ELSE "none"

Level(findings) == Highest({f.level : f \in Confirmed(findings)})

ManualRequired(findings) == \E f \in findings : f.status = "manual_review"
=============================================================================
