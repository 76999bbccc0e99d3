------------------------------ MODULE Retrieval ------------------------------
(***************************************************************************)
(* Retrieval of rules for a query, and the audit log it leaves: a request  *)
(* embeds the query, searches, reranks, and writes one row of the log in a *)
(* transaction of its own before it answers.  Another client turns the     *)
(* pages of the log meanwhile.                                             *)
(*                                                                         *)
(* What embedding, search and reranker find is their choice: the search    *)
(* returns some chunks in some order, the reranker a score for each.       *)
(***************************************************************************)
EXTENDS Integers, Sequences, FiniteSets

CONSTANTS
  Requests,
  Chunks,           \* what the knowledge base has
  MaxTop,           \* bound: top_k, 50 in the code
  PageSize,
  MaxLog,           \* bound: rows of the log
  Errors,           \* the codes that a failed query is answered with
  Unscored

VARIABLES
  reranker,         \* whether a reranker is configured
  call,             \* what each request is doing, and what it has found
  clock,            \* created_at of the last row made
  log,              \* audit_logs
  answers,          \* history: request, outcome and time of what was answered
  reader            \* the page asked for next, what was there at first, what it has got

vars == <<reranker, call, clock, log, answers, reader>>

Scores == 0..1
Idle == [at |-> "idle"]

Distinct(s) == \A m, n \in DOMAIN s : s[m] = s[n] => m = n

(* hybrid_search: some chunks, best first, top_k at most.                  *)
Searches(top) == {s \in UNION {[1..n -> Chunks] : n \in 0..top} : Distinct(s)}

Init ==
  /\ reranker \in BOOLEAN
  /\ call = [r \in Requests |-> Idle]
  /\ clock = 0
  /\ log = {}
  /\ answers = {}
  /\ reader = [page |-> 0, first |-> {}, got |-> {}]

(* rerank: sorted by score, a stable sort.                                 *)
Before(hits, score, m) ==
  {k \in DOMAIN hits : \/ score[hits[k]] > score[hits[m]]
                       \/ score[hits[k]] = score[hits[m]] /\ k <= m}
RankOf(hits, score, m) == Cardinality(Before(hits, score, m))
Rerank(hits, score) ==
  [n \in DOMAIN hits |-> hits[CHOOSE m \in DOMAIN hits : RankOf(hits, score, m) = n]]

(* The query has an outcome, and the row of the log is built: created_at   *)
(* is now.                                                                 *)
Found(r, result, top, score, hits) ==
  /\ call[r].at = "idle"
  /\ clock < MaxLog
  /\ clock' = clock + 1
  /\ call' = [call EXCEPT ![r] = [at |-> "found", stamp |-> clock + 1, result |-> result,
                                  top |-> top, score |-> score, hits |-> hits]]
  /\ UNCHANGED <<reranker, log, answers, reader>>

Retrieve(r, top) ==
  \E hits \in Searches(top), score \in IF reranker THEN [Chunks -> Scores] ELSE {Unscored} :
    Found(r, "success", top, score, IF reranker THEN Rerank(hits, score) ELSE hits)

(* Embedding, search or reranker fails with one of their errors.           *)
Fails(r, error) == Found(r, error, 0, Unscored, <<>>)

(* The row of a request: its result, and how much it has found.            *)
RowsOf(r) ==
  {[at |-> call[r].stamp, result |-> call[r].result, count |-> Len(call[r].hits)]}

(* The row is committed, and the request answered with what it has found,  *)
(* or its error.                                                           *)
Commit(r) ==
  /\ call[r].at = "found"
  /\ log' = log \cup RowsOf(r)
  /\ call' = [call EXCEPT ![r] = [at |-> "committed", stamp |-> call[r].stamp,
                                  result |-> call[r].result, count |-> Len(call[r].hits)]]
  /\ UNCHANGED <<reranker, clock, answers, reader>>

Answer(r) ==
  /\ call[r].at = "committed"
  /\ answers' = answers \cup {[at |-> call[r].stamp, result |-> call[r].result, count |-> call[r].count]}
  /\ call' = [call EXCEPT ![r] = Idle]
  /\ UNCHANGED <<reranker, clock, log, reader>>

(* The database fails, or the process ends: there is no answer. *)
Break(r) ==
  /\ call[r].at # "idle"
  /\ call' = [call EXCEPT ![r] = Idle]
  /\ UNCHANGED <<reranker, clock, log, answers, reader>>

(* Rows in the order of the list, the newest first: the place of a row.    *)
(* No two rows are made in the same microsecond: the query sorts by time   *)
(* alone, and rows of one time could change places between two pages.      *)
Place(row) == Cardinality({other \in log : other.at > row.at}) + 1

(* Mutant: pages are counted from zero. *)
PageStartZero(page) == page * PageSize

PageStart(page) == (page - 1) * PageSize

(* list: one page. *)
Page(page) == {row \in log : PageStart(page) < Place(row) /\ Place(row) <= PageStart(page) + PageSize}

(* A client asks for page after page, as long as there are more. *)
TurnPage ==
  LET first == reader.page = 0
      page == IF first THEN 1 ELSE reader.page
  IN /\ first \/ PageStart(page) < Cardinality(log)
     /\ reader' = [page |-> page + 1, first |-> IF first THEN log ELSE reader.first,
                   got |-> reader.got \cup Page(page)]
     /\ UNCHANGED <<reranker, call, clock, log, answers>>

Next ==
  \/ \E r \in Requests :
       \/ \E top \in 1..MaxTop : Retrieve(r, top)
       \/ \E error \in Errors : Fails(r, error)
       \/ Commit(r) \/ Answer(r) \/ Break(r)
  \/ TurnPage

Spec == Init /\ [][Next]_vars

(***************************************************************************)
(* Properties.                                                             *)
(***************************************************************************)
TypeOK ==
  /\ \A r \in Requests : call[r].at \in {"idle", "found", "committed"}
  /\ clock \in 0..MaxLog
  /\ \A row \in log : row.at \in 1..clock /\ row.result \in Errors \cup {"success"}
  /\ reader.got \subseteq log /\ reader.first \subseteq log

(* What is found is as many chunks as were asked for at most, none twice,  *)
(* and, where a reranker is configured, none before one with more score.   *)
RankedByScore ==
  \A r \in Requests : call[r].at = "found" /\ call[r].result = "success" =>
    LET hits == call[r].hits IN
    /\ Len(hits) <= call[r].top /\ Distinct(hits)
    /\ reranker => \A m, n \in DOMAIN hits : m < n => call[r].score[hits[m]] >= call[r].score[hits[n]]

(* Whatever is answered, a result or an error, is in the audit log before, *)
(* with the same outcome, since the row is committed first; a request      *)
(* that broke may have left a row.                                         *)
AnsweredIsLogged ==
  \A a \in answers :
    \E row \in log : row.at = a.at /\ row.result = a.result /\ row.count = a.count

(* A client that turns the pages to the end gets every row that was there  *)
(* when it began, although rows are added, some of them not as the newest. *)
PagesMissNothing ==
  reader.page > 1 /\ (reader.page - 1) * PageSize >= Cardinality(log) => reader.first \subseteq reader.got
=============================================================================
