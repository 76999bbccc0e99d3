------------------------------- MODULE RagQuery -------------------------------
(***************************************************************************)
(* One query for rules, through the providers it needs: an HTTP service    *)
(* that embeds it, Milvus, and an HTTP service that reranks, each of which *)
(* may not be configured, lack its package, or be out of order.  The       *)
(* registry and its clients are made for the query; the services come and  *)
(* go meanwhile.                                                           *)
(***************************************************************************)
EXTENDS Integers, FiniteSets

CONSTANTS
  MaxOutages,       \* bound: changes of a service
  None

VARIABLES
  settings,         \* what is configured and what is installed
  up, wasDown,      \* services available; history: those that were not
  outages,          \* changes that have happened
  stage,            \* what the query does next
  hits,             \* whether the search has found anything
  outcome           \* None, "success" or the code of the error

vars == <<settings, up, wasDown, outages, stage, hits, outcome>>

Services == {"embedding", "milvus", "reranker"}
Codes == {"rag_not_configured", "rag_dependency_missing", "rag_unavailable", "rag_query_failed"}

Init ==
  /\ settings \in [enabled: BOOLEAN, urls: SUBSET Services, reranks: BOOLEAN,
                   packages: SUBSET {"httpx", "pymilvus"}]
  /\ up \in {Services, Services \ {"milvus"}, Services \ {"embedding"}}
  /\ wasDown = Services \ up /\ outages = 0
  /\ stage = "query" /\ hits = FALSE /\ outcome = None

Package(service) == IF service = "milvus" THEN "pymilvus" ELSE "httpx"

Ends(result) == stage' = "answered" /\ outcome' = result /\ UNCHANGED hits

(* A service fails or recovers. *)
Flip(service) ==
  /\ outages < MaxOutages /\ stage # "answered"
  /\ outages' = outages + 1
  /\ up' = IF service \in up THEN up \ {service} ELSE up \cup {service}
  /\ wasDown' = wasDown \cup (Services \ up')
  /\ UNCHANGED <<settings, stage, hits, outcome>>

(* The registry has no provider if retrieval is not enabled; a blank query *)
(* or a top_k out of range is refused.                                     *)
Begin(blank) ==
  /\ stage = "query"
  /\ IF ~settings.enabled THEN Ends("rag_not_configured")
     ELSE IF blank THEN Ends("rag_query_failed")
     ELSE stage' = "embedding" /\ UNCHANGED <<hits, outcome>>
  /\ UNCHANGED <<settings, up, wasDown, outages>>

(* The checks before a service is called, in their order.                  *)
Broken(service) ==
  IF service \notin settings.urls THEN "rag_not_configured"
  ELSE IF Package(service) \notin settings.packages THEN "rag_dependency_missing"
  ELSE IF service \notin up THEN "rag_unavailable" ELSE None

(* A service is called: what is wrong with it ends the query, and so does  *)
(* what is wrong with its answer.                                          *)
Call(service, then) ==
  /\ stage = service
  /\ \/ Broken(service) # None /\ Ends(Broken(service))
     \/ Broken(service) = None /\ then
     \/ Broken(service) = None /\ Ends("rag_query_failed")
  /\ UNCHANGED <<settings, up, wasDown, outages>>

Embed == Call("embedding", stage' = "milvus" /\ UNCHANGED <<hits, outcome>>)

(* hybrid_search; without a reranker, its hits are the answer.             *)
Search(found) ==
  Call("milvus", /\ hits' = found
                 /\ stage' = IF settings.reranks /\ found THEN "reranker" ELSE "answered"
                 /\ outcome' = IF settings.reranks /\ found THEN None ELSE "success")

Rerank == Call("reranker", Ends("success"))

Next ==
  \/ \E service \in Services : Flip(service)
  \/ \E blank \in BOOLEAN : Begin(blank)
  \/ Embed \/ Rerank
  \/ \E found \in BOOLEAN : Search(found)

Spec == Init /\ [][Next]_vars

(***************************************************************************)
(* Properties.                                                             *)
(***************************************************************************)
TypeOK ==
  /\ up \subseteq Services /\ wasDown \subseteq Services /\ outages \in 0..MaxOutages
  /\ stage \in Services \cup {"query", "answered"} /\ hits \in BOOLEAN
  /\ outcome \in Codes \cup {"success", None}

(* Services that a query of these settings may need. *)
Needed == IF settings.reranks THEN Services ELSE Services \ {"reranker"}

(* The code names what is at fault: something that is needed is not        *)
(* configured, or not installed, or was out of order during the query.     *)
CodeIsTrue ==
  /\ outcome = "rag_not_configured" => ~settings.enabled \/ ~(Needed \subseteq settings.urls)
  /\ outcome = "rag_dependency_missing" => \E s \in Needed : Package(s) \notin settings.packages
  /\ outcome = "rag_unavailable" => wasDown \cap Needed # {}

(* What is not configured or not installed is found out by the first query *)
(* - but for the reranker, which is missed only when there is something to *)
(* rerank.                                                                 *)
SuccessNeedsAll ==
  outcome = "success" =>
    /\ settings.enabled /\ settings.packages = {"httpx", "pymilvus"}
    /\ Needed \ settings.urls \subseteq {"reranker"}
    /\ hits => Needed \subseteq settings.urls
=============================================================================
