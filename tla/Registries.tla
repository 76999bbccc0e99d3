------------------------------ MODULE Registries ------------------------------
(***************************************************************************)
(* The two registries: actions that an agent may call, which are on a list *)
(* that nobody can extend, and providers of outside abilities by kind and  *)
(* name.  Names are taken with blanks around them and kept without.        *)
(***************************************************************************)
EXTENDS Integers

CONSTANTS Things, None   \* handlers and providers

VARIABLES
  actions,    \* ActionRegistry._actions: name -> handler and category
  providers,  \* ProviderRegistry._providers: kind and name -> provider
  accepted    \* history: names as they were registered, and what under them

vars == <<actions, providers, accepted>>

Plain(n) == [name |-> n, blanks |-> FALSE]
Spellings(names) == [name : names, blanks : BOOLEAN]

(* name.strip() *)
Strip(s) == Plain(s.name)

(* _ALLOWLIST_CATEGORIES, one action of each category; a decision is none  *)
(* of them.                                                                *)
Categories == {"query", "analysis"}
Allowlist == [n \in {"document.query", "risk.explain"} |-> IF n = "document.query" THEN "query" ELSE "analysis"]
ActionNames == DOMAIN Allowlist \cup {"approval.decide"}

(* _REQUIRED_METHODS: what a thing can do makes it fit for a kind.         *)
Kinds == {"ocr", "rag"}
ProviderNames == {"education-kb", ""}

Init ==
  /\ actions = [n \in Spellings(ActionNames) |-> None]
  /\ providers = [k \in Kinds |-> [n \in Spellings(ProviderNames) |-> None]]
  /\ accepted = {}

(* The category of an action that is registered with this one, or None.    *)
CategoryOf(n, category) == IF category \in {None, Allowlist[n]} THEN Allowlist[n] ELSE None

(* ActionRegistry.register with a handler that can be called. *)
RegisterAction(spelling, category, handler) ==
  LET key == Strip(spelling)
      kept == IF key.name \in DOMAIN Allowlist THEN CategoryOf(key.name, category) ELSE None
  IN /\ kept # None
     /\ actions[key] = None
     /\ actions' = [actions EXCEPT ![key] = [handler |-> handler, category |-> kept]]
     /\ accepted' = accepted \cup {[kind |-> "action", spelling |-> spelling, thing |-> handler]}
     /\ UNCHANGED providers

(* ProviderRegistry.register; fits: the provider has the methods. *)
RegisterProvider(kind, spelling, provider, fits) ==
  LET key == Strip(spelling) IN
  /\ key.name # "" /\ providers[kind][key] = None /\ fits
  /\ providers' = [providers EXCEPT ![kind][key] = provider]
  /\ accepted' = accepted \cup {[kind |-> kind, spelling |-> spelling, thing |-> provider]}
  /\ UNCHANGED actions

(* get, of both: what is found under a spelling, or None. *)
Found(kind, spelling) ==
  IF kind = "action" THEN IF actions[Strip(spelling)] = None THEN None ELSE actions[Strip(spelling)].handler
  ELSE providers[kind][Strip(spelling)]

Next ==
  \/ \E s \in Spellings(ActionNames), c \in Categories \cup {None}, t \in Things : RegisterAction(s, c, t)
  \/ \E k \in Kinds, s \in Spellings(ProviderNames), t \in Things, fits \in BOOLEAN : RegisterProvider(k, s, t, fits)

Spec == Init /\ [][Next]_vars

(***************************************************************************)
(* Properties.                                                             *)
(***************************************************************************)
(* Types; what an agent may call is on the list, with the category of the  *)
(* list.                                                                   *)
TypeOK ==
  \A s \in Spellings(ActionNames) : actions[s] # None =>
    s.name \in DOMAIN Allowlist /\ actions[s].handler \in Things /\ actions[s].category = Allowlist[s.name]

(* What was registered is found for good, under whatever spelling of its   *)
(* name, and never replaced by something registered later.                 *)
RegisteredForGood ==
  \A a \in accepted, s \in Spellings(ActionNames \cup ProviderNames) :
    s.name = a.spelling.name => Found(a.kind, s) = a.thing
=============================================================================
