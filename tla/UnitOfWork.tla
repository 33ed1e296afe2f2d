------------------------------ MODULE UnitOfWork ------------------------------
(***************************************************************************)
(* SqlAlchemyUnitOfWork under ExecuteGenerationHandler.handle, statement   *)
(* by statement.  A unit of work is one Python object with two mutable     *)
(* parts: the session its commit() and __exit__() act on, and the          *)
(* repositories, bound to a session by __enter__().  Request threads each  *)
(* execute an intent of their own.                                         *)
(*                                                                         *)
(* Shared = FALSE is the discipline of app.py, a fresh unit of work per    *)
(* request.  Shared = TRUE is build_http_app, which builds one             *)
(* ExecuteGenerationHandler on one unit of work for every request.         *)
(***************************************************************************)
EXTENDS Naturals

CONSTANTS Requests, Shared, MayFail, NoSession

Units == IF Shared THEN {"shared"} ELSE Requests
UnitOf(h) == IF Shared THEN "shared" ELSE h

Sessions == Requests \X {1, 2}      \* the session each __enter__ creates

ASSUME UnitAssumption == NoSession \notin Sessions

(* What the two transactions write for the intent of one thread.             *)
Writes == {"running", "solver_run", "trip", "revision", "completed"}
Rows == Requests \X Writes

VARIABLES
  session,   (* _session of each unit of work                               *)
  repos,     (* the session its repositories are bound to                   *)
  pending,   (* rows a session has written and not committed                *)
  db,        (* committed rows                                              *)
  at         (* next statement of each thread                               *)

unitVars == <<session, repos, pending, db, at>>

(* handle(): the claiming transaction, the solver, the storing transaction.  *)
After == [enter1 |-> "claim", claim |-> "commit1", commit1 |-> "exit1", exit1 |-> "solve",
          solve |-> "enter2", enter2 |-> "check", check |-> "solver_run",
          solver_run |-> "trip", trip |-> "revision", revision |-> "complete",
          complete |-> "commit2", commit2 |-> "exit2", exit2 |-> "done",
          raised |-> "done"]

UnitTypeOK ==
  /\ session \in [Units -> Sessions \cup {NoSession}]
  /\ repos \in [Units -> Sessions \cup {NoSession}]
  /\ pending \in [Sessions -> SUBSET Rows]
  /\ db \in SUBSET Rows
  /\ at \in [Requests -> DOMAIN After \cup {"done"}]

UnitInit ==
  /\ session = [u \in Units |-> NoSession]
  /\ repos = [u \in Units |-> NoSession]
  /\ pending = [s \in Sessions |-> {}]
  /\ db = {}
  /\ at = [h \in Requests |-> "enter1"]

Return(h) == at' = [at EXCEPT ![h] = After[@]]
Raise(h) == at' = [at EXCEPT ![h] = "raised"]

(* What a query of the thread sees: committed rows and those of the session  *)
(* its repositories are bound to, whoever wrote them.                        *)
Visible(h) == db \cup pending[repos[UnitOf(h)]]

Write(h, what) == pending' = [pending EXCEPT ![repos[UnitOf(h)]] = @ \cup {<<h, what>>}]

Enter(h) ==
  LET s == <<h, IF at[h] = "enter1" THEN 1 ELSE 2>> IN
  /\ at[h] \in {"enter1", "enter2"}
  /\ session' = [session EXCEPT ![UnitOf(h)] = s]
  /\ repos' = [repos EXCEPT ![UnitOf(h)] = s]
  /\ Return(h)
  /\ UNCHANGED <<pending, db>>

(* generation_intents.save(running, expected_status=queued)                  *)
Claim(h) ==
  /\ at[h] = "claim"
  /\ Write(h, "running")
  /\ Return(h)
  /\ UNCHANGED <<session, repos, db>>

(* commit() without a session raises "unit of work is not active".           *)
Commit(h) ==
  LET s == session[UnitOf(h)] IN
  /\ at[h] \in {"commit1", "commit2"}
  /\ IF s = NoSession
     THEN Raise(h) /\ UNCHANGED <<pending, db>>
     ELSE /\ db' = db \cup pending[s]
          /\ pending' = [pending EXCEPT ![s] = {}]
          /\ Return(h)
  /\ UNCHANGED <<session, repos>>

(* __exit__ rolls back or closes whatever session is there, and forgets it.  *)
Exit(h) ==
  LET s == session[UnitOf(h)] IN
  /\ at[h] \in {"exit1", "exit2", "raised"}
  /\ session' = [session EXCEPT ![UnitOf(h)] = NoSession]
  /\ pending' = IF s = NoSession THEN pending ELSE [pending EXCEPT ![s] = {}]
  /\ Return(h)
  /\ UNCHANGED <<repos, db>>

Solve(h) == at[h] = "solve" /\ Return(h) /\ UNCHANGED <<session, repos, pending, db>>

(* generation_intents.get: a status other than running raises.               *)
Check(h) ==
  /\ at[h] = "check"
  /\ IF <<h, "running">> \in Visible(h) THEN Return(h) ELSE Raise(h)
  /\ UNCHANGED <<session, repos, pending, db>>

Add_Autocommit(h) ==                  \* mutant: every row is its own transaction
  /\ at[h] \in {"solver_run", "trip", "revision"}
  /\ db' = db \cup {<<h, at[h]>>}
  /\ Return(h)
  /\ UNCHANGED <<session, repos, pending>>

Add(h) ==
  /\ at[h] \in {"solver_run", "trip", "revision"}
  /\ Write(h, at[h])
  /\ Return(h)
  /\ UNCHANGED <<session, repos, db>>

(* generation_intents.save(completed, expected_status=running): no row, no   *)
(* update.                                                                   *)
Complete(h) ==
  /\ at[h] = "complete"
  /\ IF <<h, "running">> \in Visible(h)
     THEN Write(h, "completed") /\ Return(h)
     ELSE Raise(h) /\ UNCHANGED pending
  /\ UNCHANGED <<session, repos, db>>

(* The database refuses a statement or the connection drops.                 *)
Fault(h) ==
  /\ MayFail
  /\ at[h] \in {"claim", "commit1", "check", "solver_run", "trip", "revision",
               "complete", "commit2"}
  /\ Raise(h)
  /\ UNCHANGED <<session, repos, pending, db>>

UnitNext ==
  \E h \in Requests :
    \/ Enter(h) \/ Claim(h) \/ Commit(h) \/ Exit(h) \/ Solve(h)
    \/ Check(h) \/ Add(h) \/ Complete(h) \/ Fault(h)

UnitSpec == UnitInit /\ [][UnitNext]_unitVars

(* No two requests are between __enter__ and __exit__ of one unit of work.   *)
(* With a unit for each request that is always so; the shared one of         *)
(* build_http_app is safe for as long as its callers happen to keep to it,   *)
(* and nothing makes them.                                                   *)
Inside(h) == at[h] \notin {"enter1", "solve", "enter2", "done"}
TransactionsApart ==
  \A h, g \in Requests : Inside(h) /\ Inside(g) /\ UnitOf(h) = UnitOf(g) => h = g

-------------------------------------------------------------------------------
(* docs/specs/data-model.md:765: solver run, trip, revision and the          *)
(* completed intent are saved by one transaction: all of them, or none.      *)
CompletionIsAtomic ==
  \A h \in Requests :
    LET saved == {what \in Writes \ {"running"} : <<h, what>> \in db} IN
    saved \in {{}, Writes \ {"running"}}

(* A thread that returns without an exception has its own writes committed,  *)
(* and no session is left open behind it.                                    *)
ReturnsMeanCommitted ==
  \A h \in Requests :
    /\ at[h] \in {"exit1", "solve"} => <<h, "running">> \in db
    /\ at[h] = "exit2" => <<h, "completed">> \in db

(* Once every request has been answered nothing is left uncommitted, to be   *)
(* committed later by somebody else.                                         *)
NothingLeaks ==
  (\A h \in Requests : at[h] = "done") => \A s \in Sessions : pending[s] = {}

(* What the planning core takes for granted of its transactions.             *)
TransactionsAreWhole == CompletionIsAtomic /\ ReturnsMeanCommitted /\ NothingLeaks
===============================================================================
