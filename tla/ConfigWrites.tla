---------------------------- MODULE ConfigWrites ----------------------------
(***************************************************************************)
(* The configuration interfaces: rules, supplier rules and parameters in   *)
(* the memory of the API process, each write under an idempotency key, and *)
(* the market prices in PostgreSQL.                                        *)
(*                                                                         *)
(* A write in memory waits only for the authorization that precedes it, so *)
(* that it is one step.  A restart forgets everything but the prices.      *)
(***************************************************************************)
EXTENDS Integers, Sequences, FiniteSets

CONSTANTS
  Rules,            \* rule_id in _RULES
  SupplierRules,    \* id in _SUPPLIER_RULES
  Parameters,       \* the parameters, one of which is RagVersion
  RagVersion,       \* "rag_rule_version"
  Keys,             \* idempotency keys, stripped
  Values,           \* texts: params, thresholds, values and reasons
  Default,          \* the value everything has at the start
  MaxWrites,        \* bound: writes to memory between two starts
  Prices,           \* bound: prices 0..Prices
  Nothing

VARIABLES
  rule, supplier, parameter,   \* _RULES, _SUPPLIER_RULES, _SYSTEM_PARAMETERS
  ragVersion,                  \* settings.rag_rule_version
  cache,                       \* _CONFIG_IDEMPOTENCY with its fingerprints
  applied,                     \* history: the scope and key of each write since the start
  price                        \* a row of market_price_references

vars == <<rule, supplier, parameter, ragVersion, cache, applied, price>>

RuleStates == {"published", "disabled"}

(* The prefix of a cache key: the operation and what it writes to. *)
Scopes ==
  ({"rule.patch", "rule.publish"} \X Rules) \cup ({"supplier-rule.patch"} \X SupplierRules)
    \cup ({"system-parameter.patch"} \X Parameters)

RuleRows == [status: RuleStates, params: Values \cup {Default}, version: Nat]
SupplierRows == [enabled: BOOLEAN, threshold: Values \cup {Default}]

(* The bodies of the writes and the answers to them. *)
Bodies ==
  ((RuleStates \cup {Nothing}) \X (Values \cup {Nothing})) \cup Values
    \cup ((SUBSET BOOLEAN) \X (Values \cup {Nothing}))
Entries == [body: Bodies, answer: RuleRows \cup SupplierRows \cup Values]

RuleAtStart == [status |-> "published", params |-> Default, version |-> 10]
SupplierRuleAtStart == [enabled |-> TRUE, threshold |-> Default]

Init ==
  /\ rule = [i \in Rules |-> RuleAtStart]
  /\ supplier = [i \in SupplierRules |-> SupplierRuleAtStart]
  /\ parameter = [p \in Parameters |-> Default]
  /\ ragVersion = Default
  /\ cache = [s \in Scopes |-> [k \in Keys |-> Nothing]]
  /\ applied = <<>>
  /\ price = [min |-> 0, max |-> Prices]

(* _cached_config_response: a key that is known is answered with its       *)
(* snapshot, or refused if the body differs; nothing is written.           *)
Fresh(scope, key) == cache[scope][key] = Nothing

(* _store_config_response: a copy of the answer. *)
Store(scope, key, body, answer) ==
  cache' = [cache EXCEPT ![scope] = [@ EXCEPT ![key] = [body |-> body, answer |-> answer]]]

Applies(scope, key) == Len(applied) < MaxWrites /\ applied' = Append(applied, <<scope, key>>)

Given(new, old) == IF new = Nothing THEN old ELSE new

(* update_rule *)
UpdateRule(i, key, status, params) ==
  LET scope == <<"rule.patch", i>>
      new == [status |-> Given(status, rule[i].status), params |-> Given(params, rule[i].params),
              version |-> rule[i].version]
  IN /\ Fresh(scope, key)
     /\ status # Nothing \/ params # Nothing
     /\ rule' = [rule EXCEPT ![i] = new]
     /\ Store(scope, key, <<status, params>>, new)
     /\ Applies(scope, key)
     /\ UNCHANGED <<supplier, parameter, ragVersion, price>>

(* publish_rule: 0.1 more; the version always has the form v<n>.<m>. *)
PublishRule(i, key, reason) ==
  LET scope == <<"rule.publish", i>>
      new == [status |-> "published", params |-> rule[i].params, version |-> rule[i].version + 1]
  IN /\ Fresh(scope, key)
     /\ rule' = [rule EXCEPT ![i] = new]
     /\ Store(scope, key, reason, new)
     /\ Applies(scope, key)
     /\ UNCHANGED <<supplier, parameter, ragVersion, price>>

(* update_supplier_rule *)
UpdateSupplierRule(i, key, enabled, threshold) ==
  LET scope == <<"supplier-rule.patch", i>>
      new == [enabled |-> IF enabled = {} THEN supplier[i].enabled ELSE TRUE \in enabled,
              threshold |-> Given(threshold, supplier[i].threshold)]
  IN /\ Fresh(scope, key)
     /\ enabled # {} \/ threshold # Nothing
     /\ supplier' = [supplier EXCEPT ![i] = new]
     /\ Store(scope, key, <<enabled, threshold>>, new)
     /\ Applies(scope, key)
     /\ UNCHANGED <<rule, parameter, ragVersion, price>>

(* One of the parameters is a setting as well. *)
SetParameter(p, value) ==
  /\ parameter' = [parameter EXCEPT ![p] = value]
  /\ ragVersion' = IF p = RagVersion THEN value ELSE ragVersion

(* update_system_parameter *)
UpdateSystemParameter(p, key, value) ==
  LET scope == <<"system-parameter.patch", p>> IN
  /\ Fresh(scope, key)
  /\ SetParameter(p, value)
  /\ Store(scope, key, value, value)
  /\ Applies(scope, key)
  /\ UNCHANGED <<rule, supplier, price>>

(* ck_market_price_range *)
Range(min, max) == min <= max

(* update_market_price: the update of the given fields, or its failure. *)
UpdateMarketPrice(fields, min, max) ==
  LET new == [min |-> IF "min" \in fields THEN min ELSE price.min,
              max |-> IF "max" \in fields THEN max ELSE price.max]
  IN /\ fields # {}
     /\ Range(new.min, new.max)
     /\ price' = new
     /\ UNCHANGED <<rule, supplier, parameter, ragVersion, cache, applied>>

(* The API process is started again. *)
Restart ==
  /\ rule' = [i \in Rules |-> RuleAtStart]
  /\ supplier' = [i \in SupplierRules |-> SupplierRuleAtStart]
  /\ parameter' = [p \in Parameters |-> Default]
  /\ ragVersion' = Default
  /\ cache' = [s \in Scopes |-> [k \in Keys |-> Nothing]]
  /\ applied' = <<>>
  /\ UNCHANGED price

Next ==
  \/ \E i \in Rules, key \in Keys :
       \/ \E status \in RuleStates \cup {Nothing}, params \in Values \cup {Nothing} :
            UpdateRule(i, key, status, params)
       \/ \E reason \in Values : PublishRule(i, key, reason)
  \/ \E i \in SupplierRules, key \in Keys, enabled \in {{}, {TRUE}, {FALSE}},
        threshold \in Values \cup {Nothing} : UpdateSupplierRule(i, key, enabled, threshold)
  \/ \E p \in Parameters, key \in Keys, value \in Values : UpdateSystemParameter(p, key, value)
  \/ \E fields \in SUBSET {"min", "max"}, min, max \in 0..Prices : UpdateMarketPrice(fields, min, max)
  \/ Restart

Spec == Init /\ [][Next]_vars

(***************************************************************************)
(* Properties.                                                             *)
(***************************************************************************)
TypeOK ==
  /\ rule \in [Rules -> RuleRows]
  /\ supplier \in [SupplierRules -> SupplierRows]
  /\ parameter \in [Parameters -> Values \cup {Default}]
  /\ ragVersion \in Values \cup {Default}
  /\ cache = [s \in Scopes |-> [k \in Keys |-> cache[s][k]]]
  /\ applied \in Seq(Scopes \X Keys)
  /\ price \in [min: 0..Prices, max: 0..Prices] /\ price.min <= price.max

(* A write that is repeated with its key is not made again, as long as the *)
(* process runs; so that a rule published once is one version further.     *)
AppliedOnce == \A m, n \in DOMAIN applied : applied[m] = applied[n] => m = n

(* The answer to a key stays what it was when the write was made, however  *)
(* often the same thing is written to under other keys; only a restart     *)
(* forgets it.                                                             *)
AnswersKept ==
  [][applied' # <<>> =>
       \A s \in Scopes, k \in Keys : cache[s][k] # Nothing => cache'[s][k] = cache[s][k]]_vars

Publications(i) == {n \in DOMAIN applied : applied[n][1] = <<"rule.publish", i>>}

(* The parameter that the interface shows is the one the program uses, and *)
(* the version of a rule counts the publications under distinct keys.      *)
ShownIsUsed ==
  /\ ragVersion = parameter[RagVersion]
  /\ \A i \in Rules : rule[i].version = 10 + Cardinality(Publications(i))
=============================================================================
