----------------------------- MODULE UnitsOfWork -----------------------------
(***************************************************************************)
(* One UnitOfWork that coroutines enter, write and commit through, and     *)
(* leave, with an exception or without.  The object holds one session, the *)
(* one of the last who entered; nothing keeps two coroutines apart.        *)
(***************************************************************************)
EXTENDS Integers, Sequences, FiniteSets

CONSTANTS
  Users,            \* coroutines
  MaxSessions,      \* bound: sessions that are made
  Nobody            \* no session

VARIABLES
  current,          \* self.session
  inside,           \* the users in the context
  opened,           \* history: by session, who entered, overlapping others or not
  pending,          \* what is written in each session: the writers, uncommitted
  closed,           \* sessions that were closed
  committed         \* history: pairs <<writer, session>> that are durable

vars == <<current, inside, opened, pending, closed, committed>>

Init ==
  /\ current = Nobody /\ inside = {}
  /\ opened = <<>> /\ pending = <<>> /\ closed = {} /\ committed = {}

(* __aenter__ *)
Enter(u) ==
  /\ u \notin inside /\ Len(opened) < MaxSessions
  /\ opened' = Append(opened, [by |-> u, alone |-> inside = {}])
  /\ pending' = Append(pending, {})
  /\ current' = Len(opened) + 1
  /\ inside' = inside \cup {u}
  /\ UNCHANGED <<closed, committed>>

(* _require_session; without a session the call raises. *)
HasSession(u) == u \in inside /\ current # Nobody

Write(u) ==
  /\ HasSession(u)
  /\ pending' = [pending EXCEPT ![current] = @ \cup {u}]
  /\ UNCHANGED <<current, inside, opened, closed, committed>>

Commit(u) ==
  /\ HasSession(u)
  /\ committed' = committed \cup {<<w, current>> : w \in pending[current]}
  /\ pending' = [pending EXCEPT ![current] = {}]
  /\ UNCHANGED <<current, inside, opened, closed>>

(* close, on every way out *)
Closed(failed) == IF current = Nobody THEN closed ELSE closed \cup {current}

(* __aexit__: an exception rolls back before the session is closed, which  *)
(* rolls back itself.  Without a session, rollback raises and close does   *)
(* nothing.                                                                *)
Leave(u, failed) ==
  /\ u \in inside
  /\ inside' = inside \ {u}
  /\ closed' = Closed(failed)
  /\ pending' = IF current = Nobody THEN pending ELSE [pending EXCEPT ![current] = {}]
  /\ current' = Nobody
  /\ UNCHANGED <<opened, committed>>

Next ==
  \E u \in Users :
    \/ Enter(u) \/ Write(u) \/ Commit(u)
    \/ \E failed \in BOOLEAN : Leave(u, failed)

Spec == Init /\ [][Next]_vars

(***************************************************************************)
(* Properties.                                                             *)
(***************************************************************************)
Sessions == DOMAIN opened

TypeOK ==
  /\ current \in Sessions \cup {Nobody} /\ inside \subseteq Users
  /\ Len(pending) = Len(opened) /\ Len(opened) <= MaxSessions
  /\ \A s \in Sessions : opened[s].by \in Users /\ pending[s] \subseteq Users
  /\ closed \subseteq Sessions /\ committed \subseteq Users \X Sessions

Overlapped == \E s \in Sessions : ~opened[s].alone

(* As long as the users of the object do not overlap, every session that   *)
(* one has left is closed and nothing is left pending in it, and what is   *)
(* durable was written by the one who had opened its session; a session    *)
(* that leaks was replaced by somebody who entered too early.              *)
OwnSessions ==
  /\ ~Overlapped =>
       /\ \A s \in Sessions : s \in closed \/ (s = current /\ opened[s].by \in inside)
       /\ \A c \in committed : opened[c[2]].by = c[1]
  /\ \A s \in Sessions : s \notin closed /\ s # current => \E t \in Sessions : t > s /\ ~opened[t].alone
=============================================================================
