---------------------------- MODULE MCEngineServices ----------------------------
(***************************************************************************)
(* Data for the review of findings: what the rule about contracts has no   *)
(* objection to, the same with less evidence, and a payment too high.      *)
(* Files: two that are what they say, one that is not, an infected one,    *)
(* one of a type that is not admitted, and one that is too large.          *)
(***************************************************************************)
EXTENDS EngineServices

Base ==
  [amount |-> 1, evidence |-> "complete", invoice_total |-> 1, line_item_total |-> 1,
   contract_amount |-> 1, payment_amount |-> 1, batch_total |-> 1, payment_count |-> 1,
   duplicate_account_count |-> 0, expense_limit |-> 1, market_unit_price |-> 1,
   market_price_min |-> 0, market_price_max |-> 1, behavior_flags |-> FALSE,
   supplier_risk_flags |-> FALSE, required_attachment_count |-> 1, attachment_count |-> 1,
   attachment_fields_complete |-> TRUE, duplicate_invoice |-> FALSE]

MCContexts ==
  {Base} \cup {[Base EXCEPT !.evidence = e] : e \in {Nothing, "blank"}}
         \cup {[Base EXCEPT !.payment_amount = 2]}

MCRules == <<"contract">>

Good == [ext |-> "pdf", mime |-> "pdf", header |-> "pdf", large |-> FALSE, infected |-> FALSE]

MCFiles ==
  {Good, [ext |-> "docx", mime |-> "zip", header |-> "zip", large |-> FALSE, infected |-> FALSE],
   [Good EXCEPT !.ext = "xls", !.mime = "stream"], [Good EXCEPT !.infected = TRUE],
   [Good EXCEPT !.ext = "exe"], [Good EXCEPT !.large = TRUE]}
=============================================================================
