----------------------------- MODULE AdminIdentity ------------------------------
(***************************************************************************)
(* AdminIdentityService: the initial administrator, sessions, and changes  *)
(* of roles, over READ COMMITTED.  A thread carries one request; a step is *)
(* what one request reads or writes before another can come between, and   *)
(* what a transaction writes becomes visible in its last step.  Rows that  *)
(* SELECT ... FOR UPDATE returned stay locked until their transaction ends. *)
(*                                                                         *)
(* version and session_version of an actor always move together, so one    *)
(* number stands for both.  An actor is never deactivated by this code.    *)
(* Audit rows of logins and logouts carry no operation intent and change   *)
(* no actor; they are not kept.                                            *)
(***************************************************************************)
EXTENDS Naturals, FiniteSets

CONSTANTS ActorIds, Roles, Security, Logins, BootLogin, SessionIds, Intents, Threads, Absent,
          MaxVersion

VARIABLES
  actors,    (* rows of admin_actors with their admin_actor_roles; or Absent  *)
  sessions,  (* rows of admin_sessions; over: revoked or expired            *)
  audits,    (* rows of admin_audit_events                                  *)
  locked,    (* the thread whose transaction holds an actor's row           *)
  req        (* the request of each thread                                  *)

adminVars == <<actors, sessions, audits, locked, req>>

RoleSets == (SUBSET Roles) \ {{}}      \* _validate_role_keys
Versions == 1 .. MaxVersion
Stages == {"idle", "boot", "login", "auth", "authed", "roles", "count", "write"}

ActorRow == [login : Logins, version : Versions, roles : RoleSets]
SessionRow == [actor : ActorIds, version : Versions, issued : RoleSets, over : BOOLEAN]
AuditRow == [action : {"boot", "create", "change"}, target : ActorIds \cup {Absent},
             revision : Versions, roles : SUBSET Roles, intent : Intents \cup {Absent},
             succeeded : BOOLEAN]

ASSUME AdminAssumption ==
  /\ IsFiniteSet(ActorIds)
  /\ Security \in Roles
  /\ BootLogin \in Logins
  /\ MaxVersion \in Nat \ {0}
  /\ Absent \notin ActorIds \cup SessionIds \cup Intents \cup Threads \cup Logins
  /\ Absent \notin ActorRow \cup SessionRow

(* version and seen are the columns and the roles read; roles the principal's. *)
Idle == [at |-> "idle", session |-> Absent, actor |-> Absent, version |-> 1, seen |-> {},
         roles |-> {}, grant |-> {}, intent |-> Absent]
Request == [at : Stages, session : SessionIds \cup {Absent}, actor : ActorIds \cup {Absent},
            version : Versions, seen : SUBSET Roles, roles : SUBSET Roles,
            grant : SUBSET Roles, intent : Intents \cup {Absent}]

(* Every row and every request is one the code can write.                    *)
AdminTypeOK ==
  /\ actors \in [ActorIds -> ActorRow \cup {Absent}]
  /\ sessions \in [SessionIds -> SessionRow \cup {Absent}]
  /\ audits \subseteq AuditRow
  /\ locked \in [ActorIds -> Threads \cup {Absent}]
  /\ req \in [Threads -> Request]

AdminInit ==
  /\ actors = [a \in ActorIds |-> Absent]
  /\ sessions = [s \in SessionIds |-> Absent]
  /\ audits = {}
  /\ locked = [a \in ActorIds |-> Absent]
  /\ req = [h \in Threads |-> Idle]

-------------------------------------------------------------------------------
Existing == {a \in ActorIds : actors[a] # Absent}
SecurityAdmins == {a \in Existing : Security \in actors[a].roles}

(* Only admin_security grants admin:actor:roles:write.                       *)
MayWriteRoles(roles) == Security \in roles

Fresh(i) == i # Absent => \A e \in audits : e.intent # i

AnyLogin(l) == TRUE                     \* mutant: login names are not unique
LoginFree(l) == \A a \in Existing : actors[a].login # l

Done(h) == req' = [req EXCEPT ![h] = Idle]
Unlock(h) == locked' = [a \in ActorIds |-> IF locked[a] = h THEN Absent ELSE locked[a]]

(* A rejection is audited under the intent, so that a retry is rejected too. *)
RejectChange(h, action, target, revision) ==
  audits' = IF Fresh(req[h].intent)
            THEN audits \cup {[action |-> action, target |-> target, revision |-> revision,
                               roles |-> {}, intent |-> req[h].intent, succeeded |-> FALSE]}
            ELSE audits

AuditSuccess(action, target, revision, roles, intent) ==
  audits' = audits \cup {[action |-> action, target |-> target, revision |-> revision,
                          roles |-> roles, intent |-> intent, succeeded |-> TRUE]}

AddActor(a, l, roles) ==
  /\ actors[a] = Absent                   \* new_id
  /\ actors' = [actors EXCEPT ![a] = [login |-> l, version |-> 1, roles |-> roles]]

(* bootstrap_initial_admin: a starting process counts the actors, ...        *)
BeginBootstrap(h) ==
  /\ req[h].at = "idle"
  /\ Existing = {}
  /\ req' = [req EXCEPT ![h] = [Idle EXCEPT !.at = "boot"]]
  /\ UNCHANGED <<actors, sessions, audits, locked>>

(* ... and adds the one of its configuration, unless the login is taken.     *)
Bootstrap(h, a) ==
  /\ req[h].at = "boot"
  /\ IF LoginFree(BootLogin)
     THEN AddActor(a, BootLogin, Roles) /\ AuditSuccess("boot", a, 1, Roles, Absent)
     ELSE UNCHANGED <<actors, audits>>
  /\ Done(h)
  /\ UNCHANGED <<sessions, locked>>

(* create_session reads the actor's row, then its roles.                     *)
BeginLogin(h, a) ==
  /\ req[h].at = "idle"
  /\ a \in Existing
  /\ req' = [req EXCEPT ![h] =
               [Idle EXCEPT !.at = "login", !.actor = a, !.version = actors[a].version]]
  /\ UNCHANGED <<actors, sessions, audits, locked>>

Login(h, s) ==
  /\ req[h].at = "login"
  /\ sessions[s] = Absent
  /\ sessions' = [sessions EXCEPT ![s] =
       [actor |-> req[h].actor, version |-> req[h].version,
        issued |-> actors[req[h].actor].roles, over |-> FALSE]]
  /\ Done(h)
  /\ UNCHANGED <<actors, audits, locked>>

(* authenticate: the session and the actor's row; a session of an earlier    *)
(* session_version is refused.                                               *)
Authenticate(h, s) ==
  /\ req[h].at = "idle"
  /\ sessions[s] # Absent
  /\ ~ sessions[s].over
  /\ actors[sessions[s].actor].version = sessions[s].version
  /\ req' = [req EXCEPT ![h] = [Idle EXCEPT !.at = "auth", !.session = s]]
  /\ UNCHANGED <<actors, sessions, audits, locked>>

SameRoles(s) == actors[sessions[s].actor].roles = sessions[s].issued

(* ... then the roles: they must be the ones issued; a principal carries them. *)
AuthenticateRoles(h) ==
  LET s == req[h].session IN
  /\ req[h].at = "auth"
  /\ IF SameRoles(s)
     THEN req' = [req EXCEPT ![h].at = "authed", ![h].roles = actors[sessions[s].actor].roles]
     ELSE Done(h)
  /\ UNCHANGED <<actors, sessions, audits, locked>>

(* A request that only reads is answered.                                    *)
Read(h) ==
  /\ req[h].at = "authed"
  /\ Done(h)
  /\ UNCHANGED <<actors, sessions, audits, locked>>

(* revoke_current, or expires_at passes.                                     *)
Revoke(h) ==
  /\ req[h].at = "authed"
  /\ sessions' = [sessions EXCEPT ![req[h].session].over = TRUE]
  /\ Done(h)
  /\ UNCHANGED <<actors, audits, locked>>

Expire(s) ==
  /\ sessions[s] # Absent
  /\ sessions' = [sessions EXCEPT ![s].over = TRUE]
  /\ UNCHANGED <<actors, audits, locked, req>>

(* create_actor: whatever it reads first, the unique login and the unique    *)
(* intent decide when it writes.                                             *)
CreateActor(h, a, l, roles, i) ==
  /\ req[h].at = "authed"
  /\ Fresh(i)
  /\ IF MayWriteRoles(req[h].roles)
     THEN /\ LoginFree(l)
          /\ AddActor(a, l, roles)
          /\ AuditSuccess("create", a, 1, roles, i)
     ELSE /\ UNCHANGED actors
          /\ audits' = audits \cup {[action |-> "create", target |-> Absent, revision |-> 1,
                                     roles |-> {}, intent |-> i, succeeded |-> FALSE]}
  /\ Done(h)
  /\ UNCHANGED <<sessions, locked>>

(* change_roles, for an intent not seen before: the target's row.  expected  *)
(* is a version the client has been shown.                                   *)
BeginChange(h, t, expected, grant, i) ==
  /\ req[h].at = "authed"
  /\ t \in Existing
  /\ expected \in 1 .. actors[t].version
  /\ expected < MaxVersion
  /\ Fresh(i)
  /\ IF MayWriteRoles(req[h].roles) /\ actors[t].version = expected
     THEN /\ req' = [req EXCEPT ![h].at = "roles", ![h].actor = t, ![h].version = expected,
                                ![h].grant = grant, ![h].intent = i]
          /\ UNCHANGED audits
     ELSE /\ audits' = audits \cup {[action |-> "change", target |-> t,
               revision |-> actors[t].version, roles |-> {}, intent |-> i,
               succeeded |-> FALSE]}
          /\ Done(h)
  /\ UNCHANGED <<actors, sessions, locked>>

(* The target's roles, by a second SELECT: removing admin_security is        *)
(* counted, other changes are not.                                           *)
ReadTargetRoles(h) ==
  LET seen == actors[req[h].actor].roles IN
  /\ req[h].at = "roles"
  /\ req' = [req EXCEPT ![h].seen = seen,
       ![h].at = IF Security \in seen /\ Security \notin req[h].grant THEN "count" ELSE "write"]
  /\ UNCHANGED <<actors, sessions, audits, locked>>

LockRows_None(h) == UNCHANGED locked    \* mutant: count_active_with_role(lock=False)
LockRows(h) ==
  locked' = [a \in ActorIds |-> IF a \in SecurityAdmins THEN h ELSE locked[a]]

RowsFree == \A a \in SecurityAdmins : locked[a] = Absent

(* count_active_with_role(lock=True) waits for the rows, sees what is        *)
(* committed then, and keeps them locked.  The database locks the rows one   *)
(* after the other, here they are locked together: who deadlocks with whom   *)
(* on the way is not modelled, and a victim of it has written nothing.       *)
CountSecurityAdmins(h) ==
  /\ req[h].at = "count"
  /\ RowsFree
  /\ IF Cardinality(SecurityAdmins) <= 1
     THEN /\ RejectChange(h, "change", req[h].actor, req[h].version)
          /\ Done(h)
          /\ UNCHANGED locked
     ELSE /\ LockRows(h)
          /\ req' = [req EXCEPT ![h].at = "write"]
          /\ UNCHANGED audits
  /\ UNCHANGED <<actors, sessions>>

AtAnyVersion(h) == TRUE                 \* mutant: the UPDATE names no version
AtVersion(h) == actors[req[h].actor].version = req[h].version

(* replace_roles: UPDATE ... WHERE version = expected waits for the row; a   *)
(* lost race is audited; a reused intent rolls everything back.              *)
WriteRoles(h) ==
  LET t == req[h].actor IN
  /\ req[h].at = "write"
  /\ locked[t] \in {Absent, h}
  /\ IF AtVersion(h) /\ Fresh(req[h].intent)
     THEN /\ actors' = [actors EXCEPT ![t].version = @ + 1, ![t].roles = req[h].grant]
          /\ AuditSuccess("change", t, req[h].version + 1, req[h].grant, req[h].intent)
     ELSE /\ IF AtVersion(h) THEN UNCHANGED audits
             ELSE RejectChange(h, "change", t, req[h].version)
          /\ UNCHANGED actors
  /\ Unlock(h)
  /\ Done(h)
  /\ UNCHANGED sessions

(* The process dies or the connection drops: the transaction is rolled back. *)
Abandon(h) ==
  /\ req[h].at # "idle"
  /\ Unlock(h)
  /\ Done(h)
  /\ UNCHANGED <<actors, sessions, audits>>

AdminNext ==
  \/ \E s \in SessionIds : Expire(s)
  \/ \E h \in Threads :
       \/ BeginBootstrap(h)
       \/ \E a \in ActorIds : Bootstrap(h, a) \/ BeginLogin(h, a)
       \/ \E s \in SessionIds : Login(h, s) \/ Authenticate(h, s)
       \/ AuthenticateRoles(h) \/ Read(h) \/ Revoke(h)
       \/ \E a \in ActorIds, l \in Logins, roles \in RoleSets, i \in Intents :
            CreateActor(h, a, l, roles, i)
       \/ \E t \in ActorIds, v \in Versions, grant \in RoleSets, i \in Intents :
            BeginChange(h, t, v, grant, i)
       \/ ReadTargetRoles(h) \/ CountSecurityAdmins(h) \/ WriteRoles(h)
       \/ Abandon(h)

AdminSpec == AdminInit /\ [][AdminNext]_adminVars

-------------------------------------------------------------------------------
(* change_roles never removes the last admin_security, also when two         *)
(* administrators remove each other at the same time.                        *)
SecurityAdminRemains == Existing # {} => SecurityAdmins # {}

Changes(a) == {e \in audits : e.succeeded /\ e.target = a}

(* Processes that start together on an empty database create one initial     *)
(* administrator between them.                                               *)
OneInitialAdmin ==
  \A e, f \in audits : e.action = "boot" /\ f.action = "boot" => e = f

(* What a principal may do is what its actor was allowed at the              *)
(* session_version its session was issued for, although row and roles are    *)
(* read by two statements and roles can change between them.                 *)
PrincipalsMatchSessions ==
  \A h \in Threads : req[h].at = "authed" =>
    LET s == sessions[req[h].session] IN
    \E e \in Changes(s.actor) : e.revision = s.version /\ e.roles = req[h].roles

(* The audit log can rebuild every actor: each revision of its roles has     *)
(* exactly one succeeded event, and the last one names the roles it has; one *)
(* administrator was not created by another, and no principal has other       *)
(* roles than the log tells of.                                              *)
AuditTellsHistory ==
  /\ OneInitialAdmin
  /\ PrincipalsMatchSessions
  /\ \A a \in Existing :
       /\ \A v \in 1 .. actors[a].version : \E e \in Changes(a) : e.revision = v
       /\ \A e, f \in Changes(a) : e.revision = f.revision => e = f
       /\ \A e \in Changes(a) :
            /\ e.revision <= actors[a].version
            /\ e.revision = actors[a].version => e.roles = actors[a].roles
===============================================================================
