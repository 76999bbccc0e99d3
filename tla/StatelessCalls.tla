---------------------------- MODULE StatelessCalls ----------------------------
(***************************************************************************)
(* Functions that keep nothing: the evaluation of the risk rules, the      *)
(* comparison of an amount with a reference range, the validation of the   *)
(* payload of a document's type, and reciprocal rank fusion.  A behaviour  *)
(* is one call and its answer.                                             *)
(***************************************************************************)
EXTENDS RiskRules, Sequences, FiniteSets

CONSTANTS
  MaxChanges,       \* bound: fields that differ from data without objection
  MaxAmount,        \* bound: amounts compared, and the bounds of a range
  MaxPaid, MaxDetails,  \* bounds: amounts and details of a payload
  Chunks, MaxHits,  \* what searches find, and the bound of a list
  K                 \* 60 in the code

VARIABLES
  asked,            \* the function called and what it is given, None before
  answer            \* what it returns

vars == <<asked, answer>>

Init == asked = None /\ answer = None

Calls(function, input, result) ==
  /\ asked' = [of |-> function, with |-> input]
  /\ answer' = result

Called(function) == asked # None /\ asked.of = function

(***************************************************************************)
(* The ten rules, for data no rule objects to with some fields changed.    *)
(***************************************************************************)
Unsuspicious ==
  [amount |-> 1, evidence |-> "complete", invoice_total |-> 1, line_item_total |-> 1,
   contract_amount |-> 1, payment_amount |-> 1, batch_total |-> 1, payment_count |-> 1,
   duplicate_account_count |-> 0, expense_limit |-> 1, market_unit_price |-> 1,
   market_price_min |-> 0, market_price_max |-> 1, behavior_flags |-> FALSE,
   supplier_risk_flags |-> FALSE, required_attachment_count |-> 1, attachment_count |-> 1,
   attachment_fields_complete |-> TRUE, duplicate_invoice |-> FALSE]

(* The data with up to n fields changed, one after the other. *)
Changed[n \in 0..MaxChanges] ==
  IF n = 0 THEN {Unsuspicious}
  ELSE UNION {{[c EXCEPT ![f] = v] : v \in Fields[f]} : c \in Changed[n - 1], f \in DOMAIN Fields}

(* evaluate_risk and RiskService.evaluate: nothing is stored. *)
Evaluate(context) ==
  Calls("evaluate", context, [rule \in RuleCodes |-> Finding(context, rule)])

(***************************************************************************)
(* compare_amount: the range may be missing, start at zero, or have its    *)
(* bounds the wrong way round.                                             *)
(***************************************************************************)
Bounds == 0..MaxAmount \cup {None}
Questions == [actual: 0..MaxAmount, low: Bounds, high: Bounds, currency: BOOLEAN]
Error == [status |-> "error", difference |-> None, ratio |-> None]

(* The bound that the difference is taken from: above the range its end,   *)
(* else its start, also within the range.                                  *)
Baseline(q) == IF q.actual > q.high THEN q.high ELSE q.low

Compared(q) ==
  IF ~q.currency THEN Error
  ELSE IF None \in {q.low, q.high}
  THEN [status |-> "reference_unavailable", difference |-> None, ratio |-> None]
  ELSE LET difference == q.actual - Baseline(q) IN
       [status |-> IF q.low <= q.actual /\ q.actual <= q.high THEN "matched" ELSE "out_of_range",
        difference |-> difference,
        ratio |-> IF Baseline(q) = 0 THEN None ELSE <<difference, Baseline(q)>>]

Compare(q) == Calls("compare", q, Compared(q))

(***************************************************************************)
(* The payload of a document's type as a request brings it.  Pydantic      *)
(* makes it one of five models, taking the first one that it fits; then it *)
(* is validated again, as a payload of the type of the document.  Texts    *)
(* are left out; amounts are whole, so that their digits do not matter.    *)
(***************************************************************************)
(* In the order of the union DocumentTypePayload. *)
Models ==
  <<"public_payment", "prepayment", "batch_payment", "expense_reimbursement", "travel_reimbursement">>

TypeSet == {Models[n] : n \in DOMAIN Models}

Paid == -1..MaxPaid
Details == UNION {[1..n -> Paid] : n \in 0..MaxDetails}
Total(s) == LET sum[n \in 0..Len(s)] == IF n = 0 THEN 0 ELSE sum[n - 1] + s[n] IN sum[Len(s)]

(* What the fields of a payload can be: those of a payment, of a batch, of *)
(* expenses or of travel.                                                  *)
Bodies ==
  [kind: {"payment"}, ratio: {-1, 0, 100, 101}]
    \cup [kind: {"batch"}, details: Details, total: Paid, count: 0..MaxDetails]
    \cup [kind: {"expense"}, details: Details, currencies: {{"CNY"}, {"CNY", "USD"}}]
    \cup [kind: {"travel"}, start: 0..1, end: 0..1, amounts: Paid]

Payloads == [tag: TypeSet \cup {None}, currency: {"CNY", "USD"}, body: Bodies]

Commands == [type: TypeSet, payload: Payloads]

(* PaymentPayload *)
PaymentValid(b) == b.kind = "payment" /\ 0 <= b.ratio /\ b.ratio <= 100

NotNegative(s) == \A n \in DOMAIN s : s[n] >= 0

(* BatchPaymentPayload *)
BatchValid(b) ==
  /\ b.kind = "batch" /\ b.details # <<>> /\ NotNegative(b.details)
  /\ b.total >= 0 /\ b.count >= 1
  /\ b.count = Len(b.details)
  /\ b.total = Total(b.details)

(* ExpenseReimbursementPayload: validate_expense_lines wants amounts above *)
(* zero.                                                                   *)
ExpenseValid(b) ==
  /\ b.kind = "expense" /\ b.details # <<>>
  /\ b.currencies = {"CNY"}
  /\ \A n \in DOMAIN b.details : b.details[n] > 0

(* TravelReimbursementPayload: one amount stands for its four.             *)
TravelValid(b) == b.kind = "travel" /\ b.amounts >= 0 /\ b.start <= b.end

(* The only currency there is. *)
CurrencyValid(p) == p.currency = "CNY"

(* A model takes a payload that names its type, or none; a field of        *)
(* another type is forbidden.                                              *)
Fits(type, p) ==
  /\ p.tag \in {type, None} /\ CurrencyValid(p)
  /\ \/ type \in {"public_payment", "prepayment"} /\ PaymentValid(p.body)
     \/ type = "batch_payment" /\ BatchValid(p.body)
     \/ type = "expense_reimbursement" /\ ExpenseValid(p.body)
     \/ type = "travel_reimbursement" /\ TravelValid(p.body)

Fitting(p) == {n \in DOMAIN Models : Fits(Models[n], p)}

(* The model that a payload becomes.                                       *)
Resolved(p) == Models[CHOOSE n \in Fitting(p) : \A m \in Fitting(p) : n <= m]

(* validate_payload_type, then _validate_specialized_payload, which gets   *)
(* the payload with the type of its model.                                 *)
Accepted(r) ==
  /\ Fitting(r.payload) # {}
  /\ LET named == [r.payload EXCEPT !.tag = Resolved(r.payload)] IN
     named.tag = r.type /\ Fits(r.type, named)

(* create_draft and update_draft with a payload. *)
Validate(r) == Calls("validate", r, IF Accepted(r) THEN "accepted" ELSE "refused")

(***************************************************************************)
(* Reciprocal rank fusion of two lists of hits: each hit scores 1/(K + n)  *)
(* for its place n in each list, and the hits are ordered by their sum.    *)
(* The sums of two terms are compared as fractions; where two are equal,   *)
(* so are the floating-point numbers of the code, as the order of two      *)
(* terms does not matter.                                                  *)
(***************************************************************************)
Distinct(s) == \A m, n \in DOMAIN s : s[m] = s[n] => m = n
Lists == {s \in UNION {[1..n -> Chunks] : n \in 0..MaxHits} : Distinct(s)}

(* The product of what places are divided by. *)
Denominator ==
  LET product[n \in 0..MaxHits] == IF n = 0 THEN 1 ELSE product[n - 1] * (K + n)
  IN product[MaxHits]

HitsOf(s) == {s[n] : n \in DOMAIN s}
At(c, s) == CHOOSE n \in DOMAIN s : s[n] = c

PartOf(c, s) == IF c \in HitsOf(s) THEN Denominator \div (K + At(c, s)) ELSE 0

Score(c, d, s) == PartOf(c, d) + PartOf(c, s)

(* Hits in the order in which they are first met: those of the second list *)
(* after those of the first.                                               *)
MetAt(c, d, s) == IF c \in HitsOf(d) THEN At(c, d) ELSE Len(d) + At(c, s)

(* A stable sort by the score, highest first: a hit's place is how many    *)
(* are not behind it.                                                      *)
Ahead(c, d, s) ==
  {b \in HitsOf(d) \cup HitsOf(s) :
    \/ Score(b, d, s) > Score(c, d, s)
    \/ Score(b, d, s) = Score(c, d, s) /\ MetAt(b, d, s) <= MetAt(c, d, s)}
PlaceOf(c, d, s) == Cardinality(Ahead(c, d, s))

Fused(d, s) ==
  LET hits == HitsOf(d) \cup HitsOf(s) IN
  [n \in 1..Cardinality(hits) |-> CHOOSE c \in hits : PlaceOf(c, d, s) = n]

(* reciprocal_rank_fusion *)
Fuse(d, s) == Calls("fuse", [dense |-> d, sparse |-> s], Fused(d, s))

Next ==
  /\ asked = None
  /\ \/ \E context \in Changed[MaxChanges] : Evaluate(context)
     \/ \E q \in Questions : Compare(q)
     \/ \E r \in Commands : Validate(r)
     \/ \E d, s \in Lists : Fuse(d, s)

Spec == Init /\ [][Next]_vars

(***************************************************************************)
(* Properties.                                                             *)
(***************************************************************************)
TypeOK ==
  /\ asked # None => asked.of \in {"evaluate", "compare", "validate", "fuse"}
  /\ Called("evaluate") => answer \in [RuleCodes -> [rule: RuleCodes, level: Levels,
        status: {"matched", "manual_review"}, evidence: Fields.evidence]]
  /\ Called("compare") => answer.status \in {"matched", "out_of_range", "reference_unavailable", "error"}
  /\ Called("validate") => answer \in {"accepted", "refused"}
  /\ Called("fuse") => \A n \in DOMAIN answer : answer[n] \in Chunks

(* The findings of an evaluation count for nothing by themselves: however  *)
(* bad they are, they give no level, as no person has confirmed them, and  *)
(* an alarm from complete data does not even ask for a person.             *)
NothingDecidedAlone ==
  Called("evaluate") =>
    LET found == {answer[rule] : rule \in RuleCodes} IN
    /\ Level(found) = "none"
    /\ ManualRequired(found)
         => asked.with.evidence # "complete" \/ \E f \in DOMAIN Fields : asked.with[f] = None

(* The sign of the difference alone does not tell where the amount is: it  *)
(* is negative below a range only, but positive above it as within it.  A  *)
(* range with its bounds the wrong way round contains nothing, and an      *)
(* amount without a ratio is compared with a bound that is zero.           *)
DifferenceReads ==
  Called("compare") /\ answer.status \in {"matched", "out_of_range"} =>
    LET q == asked.with
        inside == answer.status = "matched"
    IN
    /\ q.low > q.high => ~inside
    /\ q.low <= q.high /\ answer.difference < 0 => ~inside /\ q.actual < q.low
    /\ inside => answer.difference \in 0..(q.high - q.low)
    /\ ~inside => answer.difference # 0 \/ q.low > q.high
    /\ answer.ratio = None => 0 \in {q.low, q.high}

(* A payload is accepted for a document just if it fits its type, with one *)
(* exception: that of a prepayment has to name its type, or it is taken    *)
(* for that of a public payment.  In an accepted one all amounts add up.   *)
AcceptedFits ==
  Called("validate") =>
    LET b == asked.with.payload.body IN
    /\ answer = "accepted" <=> /\ Fits(asked.with.type, asked.with.payload)
                               /\ asked.with.type = "prepayment" => asked.with.payload.tag # None
    /\ answer = "accepted" =>
         /\ b.kind = "batch" => b.count > 0 /\ b.total = Total(b.details)
         /\ b.kind = "expense" => Total(b.details) >= Len(b.details)

Rank(c, s) == IF c \in HitsOf(s) THEN At(c, s) ELSE MaxHits + 1

(* Fusing loses and doubles nothing, and no hit stands behind one that     *)
(* both lists put lower.                                                   *)
FusedAgrees ==
  Called("fuse") =>
    LET dense == asked.with.dense
        sparse == asked.with.sparse
    IN
    /\ Distinct(answer)
    /\ HitsOf(answer) = HitsOf(dense) \cup HitsOf(sparse)
    /\ \A m, n \in DOMAIN answer :
         /\ Rank(answer[m], dense) <= Rank(answer[n], dense)
         /\ Rank(answer[m], sparse) < Rank(answer[n], sparse)
         => m < n
=============================================================================
