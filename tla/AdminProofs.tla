------------------------------ MODULE AdminProofs ------------------------------
(***************************************************************************)
(* AdminIdentity keeps an administrator with admin_security, and an audit   *)
(* log that tells what every actor may do, for any actors, roles, sessions *)
(* and threads.                                                            *)
(***************************************************************************)
EXTENDS AdminIdentity, FiniteSetTheorems, TLAPS

(* A request is about a session and an actor that are there.                 *)
Known ==
  /\ \A s \in SessionIds : sessions[s] # Absent => sessions[s].actor \in Existing
  /\ \A h \in Threads :
       /\ req[h].at \in {"auth", "authed"} =>
            req[h].session \in SessionIds /\ sessions[req[h].session] # Absent
       /\ req[h].at \in {"login", "roles", "count", "write"} => req[h].actor \in Existing
       /\ req[h].at \in {"roles", "count", "write"} =>
            req[h].version < MaxVersion /\ req[h].grant \in RoleSets

(* Rows are locked by one transaction that has counted, and are still rows of *)
(* security administrators.                                                  *)
Held ==
  \A a \in ActorIds : locked[a] # Absent =>
    a \in SecurityAdmins /\ req[locked[a]].at = "write"
OneHolder ==
  \A a, b \in ActorIds : locked[a] # Absent /\ locked[b] # Absent => locked[a] = locked[b]

(* What a change has read is what is there, unless the version moved on.      *)
Current(h) == req[h].version = actors[req[h].actor].version
Remembered ==
  \A h \in Threads :
    /\ req[h].at \in {"roles", "count", "write"} => req[h].version <= actors[req[h].actor].version
    /\ req[h].at \in {"count", "write"} /\ Current(h) => req[h].seen = actors[req[h].actor].roles

(* A transaction that takes admin_security from an actor holds the row of     *)
(* another one who has it.                                                   *)
Takes(h) == req[h].at = "write" /\ Security \in req[h].seen /\ Security \notin req[h].grant
Backed ==
  \A h \in Threads : Takes(h) => \E b \in ActorIds : b # req[h].actor /\ locked[b] = h

AdminInv == AdminTypeOK /\ Known /\ Held /\ OneHolder /\ Remembered /\ Backed /\ SecurityAdminRemains

-------------------------------------------------------------------------------
(* At first there is nothing.                                                *)
LEMMA InitHolds == AdminInit => AdminInv
<1> SUFFICES ASSUME AdminInit PROVE AdminInv
  OBVIOUS
<1> USE AdminAssumption DEF AdminInit
<1>1. AdminTypeOK
  BY DEF AdminTypeOK, Request, Idle, Stages, Versions
<1>2. Existing = {}
  BY DEF Existing
<1>3. \A h \in Threads : req[h].at = "idle"
  BY DEF Idle
<1> QED
  BY <1>1, <1>2, <1>3 DEF AdminInv, Known, Held, OneHolder, Remembered, Backed, Takes, SecurityAdminRemains

(* Rows of sessions and actors are kept in their place; a new actor disturbs  *)
(* none that is there.                                                       *)
LEMMA ActorAdded ==
  ASSUME AdminInv, NEW a \in ActorIds, NEW l \in Logins, NEW roles \in RoleSets,
         AddActor(a, l, roles)
  PROVE  /\ actors' \in [ActorIds -> ActorRow \cup {Absent}]
         /\ Existing' = Existing \cup {a}
         /\ a \notin Existing
         /\ \A b \in Existing : actors'[b] = actors[b]
         /\ SecurityAdmins \subseteq SecurityAdmins'
         /\ Security \in roles => a \in SecurityAdmins'
<1> USE AdminAssumption DEF AdminInv, AdminTypeOK
<1> DEFINE row == [login |-> l, version |-> 1, roles |-> roles]
<1>1. row \in ActorRow /\ row # Absent
  BY DEF ActorRow, Versions
<1>2. actors' = [actors EXCEPT ![a] = row] /\ actors[a] = Absent
  BY DEF AddActor
<1>3. actors' \in [ActorIds -> ActorRow \cup {Absent}]
  BY <1>1, <1>2
<1>4. Existing' = Existing \cup {a} /\ a \notin Existing
  BY <1>1, <1>2 DEF Existing
<1>5. \A b \in Existing : actors'[b] = actors[b]
  BY <1>2 DEF Existing
<1>6. actors'[a].roles = roles
  BY <1>2
<1>7. SecurityAdmins \subseteq SecurityAdmins'
  BY <1>4, <1>5 DEF SecurityAdmins
<1>8. Security \in roles => a \in SecurityAdmins'
  BY <1>4, <1>6 DEF SecurityAdmins
<1> QED
  BY <1>3, <1>4, <1>5, <1>7, <1>8

(* A step that leaves actors and locks alone, and brings one request to a     *)
(* stage where it changes nothing, keeps all but types and knowledge.         *)
LEMMA Elsewhere ==
  ASSUME AdminInv, UNCHANGED <<actors, locked>>, NEW h \in Threads,
         req[h].at # "write", NEW q \in Request, req' = [req EXCEPT ![h] = q],
         q.at \notin {"roles", "count", "write"}
  PROVE  Held' /\ OneHolder' /\ Remembered' /\ Backed' /\ SecurityAdminRemains' /\ Existing' = Existing
<1> USE DEF AdminInv, AdminTypeOK
<1>1. Existing' = Existing /\ SecurityAdmins' = SecurityAdmins
  BY DEF Existing, SecurityAdmins
<1>2. \A g \in Threads \ {h} : req'[g] = req[g]
  OBVIOUS
<1>3. req'[h] = q
  OBVIOUS
<1>4. Held'
  BY <1>1, <1>2 DEF Held
<1>5. Remembered'
  BY <1>2, <1>3 DEF Remembered, Current
<1>6. Backed'
  BY <1>2, <1>3 DEF Backed, Takes
<1>7. SecurityAdminRemains'
  BY <1>1 DEF SecurityAdminRemains
<1> QED
  BY <1>1, <1>4, <1>5, <1>6, <1>7 DEF OneHolder

(* Sessions stay those of actors that are there.                              *)
SessionsStay ==
  /\ sessions' \in [SessionIds -> SessionRow \cup {Absent}]
  /\ \A s \in SessionIds :
       /\ sessions[s] # Absent => sessions'[s] # Absent
       /\ sessions'[s] # Absent => sessions'[s].actor \in Existing

LEMMA Quiet ==
  ASSUME AdminInv, UNCHANGED <<actors, locked>>, NEW h \in Threads,
         req[h].at # "write", NEW q \in Request, req' = [req EXCEPT ![h] = q],
         q.at \notin {"roles", "count", "write"},
         q.at \in {"auth", "authed"} => q.session \in SessionIds /\ sessions[q.session] # Absent,
         q.at = "login" => q.actor \in Existing,
         SessionsStay, audits' \subseteq AuditRow
  PROVE  AdminInv'
<1>1. Held' /\ OneHolder' /\ Remembered' /\ Backed' /\ SecurityAdminRemains' /\ Existing' = Existing
  BY Elsewhere
<1>2. AdminTypeOK'
  BY DEF AdminInv, AdminTypeOK, SessionsStay
<1>3. \A g \in Threads : req'[g] = IF g = h THEN q ELSE req[g]
  BY DEF AdminInv, AdminTypeOK
<1>4. Known'
  BY <1>1, <1>3 DEF AdminInv, Known, SessionsStay
<1> QED
  BY <1>1, <1>2, <1>4 DEF AdminInv

LEMMA IdleIsRequest == Idle \in Request /\ Idle.at = "idle"
  BY AdminAssumption DEF Idle, Request, Stages, Versions

(* A request that ends without having read for a change disturbs nothing.     *)
LEMMA Ended ==
  ASSUME AdminInv, UNCHANGED <<actors, locked>>, NEW h \in Threads,
         req[h].at # "write", Done(h), SessionsStay, audits' \subseteq AuditRow
  PROVE  AdminInv'
  BY IdleIsRequest, Quiet DEF Done

LEMMA SameSessions == AdminInv /\ UNCHANGED sessions => SessionsStay
  BY DEF AdminInv, AdminTypeOK, Known, SessionsStay

(* A transaction that ends without a write to the actors releases its rows.    *)
LEMMA RolledBack ==
  ASSUME AdminInv, UNCHANGED <<actors, sessions>>, NEW h \in Threads,
         Unlock(h), Done(h), audits' \subseteq AuditRow
  PROVE  AdminInv'
<1> USE AdminAssumption, IdleIsRequest DEF AdminInv, AdminTypeOK
<1>1. Existing' = Existing /\ SecurityAdmins' = SecurityAdmins
  BY DEF Existing, SecurityAdmins
<1>2. \A g \in Threads : req'[g] = IF g = h THEN Idle ELSE req[g]
  BY DEF Done
<1>3. \A a \in ActorIds : locked'[a] = IF locked[a] = h THEN Absent ELSE locked[a]
  BY DEF Unlock
<1>4. AdminTypeOK'
  BY DEF Unlock, Done
<1>5. Known'
  BY <1>1, <1>2 DEF Known
<1>6. Held'
  BY <1>1, <1>2, <1>3 DEF Held
<1>7. Remembered'
  BY <1>2 DEF Remembered, Current
<1>8. Backed'
  BY <1>2, <1>3 DEF Backed, Takes
<1>9. OneHolder'
  BY <1>3 DEF OneHolder
<1> QED
  BY <1>1, <1>4, <1>5, <1>6, <1>7, <1>8, <1>9 DEF SecurityAdminRemains

(* A new actor, where one with admin_security is there or it is one.           *)
LEMMA Grown ==
  ASSUME AdminInv, NEW a \in ActorIds, NEW l \in Logins, NEW roles \in RoleSets,
         AddActor(a, l, roles), NEW h \in Threads, req[h].at # "write", Done(h),
         UNCHANGED <<sessions, locked>>, audits' \subseteq AuditRow,
         Security \in roles \/ Existing # {}
  PROVE  AdminInv'
<1> USE IdleIsRequest DEF AdminInv, AdminTypeOK
<1>1. /\ actors' \in [ActorIds -> ActorRow \cup {Absent}]
      /\ Existing' = Existing \cup {a}
      /\ \A b \in Existing : actors'[b] = actors[b]
      /\ SecurityAdmins \subseteq SecurityAdmins'
      /\ Security \in roles => a \in SecurityAdmins'
  BY ActorAdded
<1>2. \A g \in Threads : req'[g] = IF g = h THEN Idle ELSE req[g]
  BY DEF Done
<1>3. AdminTypeOK'
  BY <1>1 DEF Done
<1>4. Known'
  BY <1>1, <1>2 DEF Known
<1>5. Held'
  <2> SUFFICES ASSUME NEW b \in ActorIds, locked'[b] # Absent
               PROVE  b \in SecurityAdmins' /\ req'[locked'[b]].at = "write"
    BY DEF Held
  <2>1. b \in SecurityAdmins /\ req[locked[b]].at = "write" /\ locked[b] \in Threads
    BY DEF Held
  <2> QED
    BY <1>1, <1>2, <2>1
<1>6. Remembered'
  BY <1>1, <1>2 DEF Remembered, Current, Known
<1>7. Backed'
  BY <1>2 DEF Backed, Takes
<1>8. SecurityAdminRemains'
  BY <1>1 DEF SecurityAdminRemains
<1> QED
  BY <1>3, <1>4, <1>5, <1>6, <1>7, <1>8 DEF OneHolder

-------------------------------------------------------------------------------
(* A security administrator whose row is counted with others is not alone.     *)
LEMMA AnotherOne ==
  ASSUME AdminInv, Cardinality(SecurityAdmins) > 1, NEW t
  PROVE  \E b \in SecurityAdmins : b # t
<1> SUFFICES ASSUME SecurityAdmins \subseteq {t} PROVE FALSE
  OBVIOUS
<1>1. IsFiniteSet({t}) /\ Cardinality({t}) = 1
  BY FS_Singleton
<1>2. Cardinality(SecurityAdmins) <= 1 /\ Cardinality(SecurityAdmins) \in Nat
  BY <1>1, FS_Subset, FS_CardinalityType
<1> QED
  BY <1>2

(* What is added to the log is a row of it.                                    *)
LEMMA Rejected ==
  ASSUME AdminInv, NEW h \in Threads, NEW a \in ActorIds \cup {Absent}, NEW v \in Versions,
         RejectChange(h, "change", a, v)
  PROVE  audits' \subseteq AuditRow
<1> DEFINE e == [action |-> "change", target |-> a, revision |-> v, roles |-> {},
                 intent |-> req[h].intent, succeeded |-> FALSE]
<1>1. req[h].intent \in Intents \cup {Absent}
  BY DEF AdminInv, AdminTypeOK, Request
<1>2. e \in AuditRow
  BY <1>1 DEF AuditRow
<1>3. audits' = audits \cup {e} \/ audits' = audits
  BY DEF RejectChange
<1> QED
  BY <1>2, <1>3 DEF AdminInv, AdminTypeOK

LEMMA Succeeded ==
  ASSUME AdminInv, NEW action \in {"boot", "create", "change"}, NEW a \in ActorIds,
         NEW v \in Versions, NEW roles \in SUBSET Roles, NEW i \in Intents \cup {Absent},
         AuditSuccess(action, a, v, roles, i)
  PROVE  audits' \subseteq AuditRow
<1> DEFINE e == [action |-> action, target |-> a, revision |-> v, roles |-> roles,
                 intent |-> i, succeeded |-> TRUE]
<1>1. e \in AuditRow
  BY DEF AuditRow
<1>2. audits' = audits \cup {e}
  BY DEF AuditSuccess
<1> QED
  BY <1>1, <1>2 DEF AdminInv, AdminTypeOK

(* Counting waits until no other removal holds a row, and then holds them.     *)
LEMMA Counted ==
  ASSUME AdminInv, NEW h \in Threads, CountSecurityAdmins(h)
  PROVE  AdminInv'
<1> USE AdminAssumption DEF AdminInv, AdminTypeOK
<1>1. req[h].at = "count" /\ UNCHANGED <<actors, sessions>> /\ req[h] \in Request
  BY DEF CountSecurityAdmins
<1>2. CASE Cardinality(SecurityAdmins) <= 1
  <2>1. Done(h) /\ UNCHANGED locked /\ RejectChange(h, "change", req[h].actor, req[h].version)
    BY <1>2 DEF CountSecurityAdmins
  <2>2. audits' \subseteq AuditRow
    <3>1. req[h].actor \in ActorIds \cup {Absent} /\ req[h].version \in Versions
      BY <1>1 DEF Request
    <3> QED
      BY <2>1, <3>1, Rejected
  <2> QED
    BY <1>1, <2>1, <2>2, SameSessions, Ended
<1>3. CASE ~ (Cardinality(SecurityAdmins) <= 1)
  <2> DEFINE q == [req[h] EXCEPT !.at = "write"]
  <2>1. /\ RowsFree /\ LockRows(h) /\ UNCHANGED audits
        /\ req' = [req EXCEPT ![h].at = "write"]
    BY <1>3 DEF CountSecurityAdmins
  <2>2. q \in Request
    BY <1>1 DEF Request, Stages
  <2>3. \A g \in Threads : req'[g] = IF g = h THEN q ELSE req[g]
    BY <2>1
  <2>4. /\ q.at = "write" /\ q.actor = req[h].actor /\ q.seen = req[h].seen
        /\ q.version = req[h].version /\ q.grant = req[h].grant
    BY <1>1 DEF Request
  <2>5. Existing' = Existing /\ SecurityAdmins' = SecurityAdmins
    BY <1>1 DEF Existing, SecurityAdmins
  <2>6. \A a \in ActorIds : locked'[a] = IF a \in SecurityAdmins THEN h ELSE Absent
    BY <2>1 DEF LockRows, RowsFree, Held
  <2>7. AdminTypeOK'
    <3>1. locked' \in [ActorIds -> Threads \cup {Absent}]
      BY <2>1 DEF LockRows
    <3>2. req' \in [Threads -> Request]
      BY <2>1, <2>2
    <3> QED
      BY <1>1, <2>1, <3>1, <3>2
  <2>8. Known'
    BY <1>1, <2>3, <2>4, <2>5 DEF Known
  <2>9. Held'
    BY <2>3, <2>4, <2>5, <2>6 DEF Held
  <2>10. Remembered'
    <3> SUFFICES ASSUME NEW g \in Threads
        PROVE /\ req'[g].at \in {"roles", "count", "write"} =>
                   req'[g].version <= actors'[req'[g].actor].version
              /\ req'[g].at \in {"count", "write"} /\ Current(g)' =>
                   req'[g].seen = actors'[req'[g].actor].roles
      BY DEF Remembered
    <3>1. /\ req'[g].actor = req[g].actor /\ req'[g].version = req[g].version
          /\ req'[g].seen = req[g].seen
          /\ req'[g].at \in {"roles", "count", "write"} =>
               req[g].at \in {"roles", "count", "write"}
          /\ req'[g].at \in {"count", "write"} => req[g].at \in {"count", "write"}
      BY <1>1, <2>3, <2>4
    <3>2. Current(g)' <=> Current(g)
      BY <1>1, <3>1 DEF Current
    <3> QED
      BY <1>1, <3>1, <3>2 DEF Remembered
  <2>11. Backed'
    <3> SUFFICES ASSUME NEW g \in Threads, Takes(g)'
                 PROVE  \E b \in ActorIds : b # req'[g].actor /\ locked'[b] = g
      BY DEF Backed
    <3>1. CASE g = h
      <4>1. Cardinality(SecurityAdmins) \in Nat
        <5>1. SecurityAdmins \subseteq ActorIds
          BY DEF SecurityAdmins, Existing
        <5> QED
          BY <5>1, FS_Subset, FS_CardinalityType
      <4>2. Cardinality(SecurityAdmins) > 1
        BY <1>3, <4>1
      <4>3. PICK b \in SecurityAdmins : b # req'[g].actor
        BY <4>2, AnotherOne
      <4> QED
        BY <3>1, <4>3, <2>6 DEF SecurityAdmins, Existing
    <3>2. CASE g # h
      <4>1. Takes(g)
        BY <3>2, <2>3 DEF Takes
      <4>2. PICK b \in ActorIds : locked[b] = g
        BY <4>1 DEF Backed
      <4>3. b \in SecurityAdmins
        BY <4>2 DEF Held
      <4> QED
        BY <2>1, <4>2, <4>3 DEF RowsFree
    <3> QED
      BY <3>1, <3>2
  <2> QED
    BY <2>5, <2>6, <2>7, <2>8, <2>9, <2>10, <2>11 DEF SecurityAdminRemains, OneHolder
<1> QED
  BY <1>2, <1>3

(* The write takes nothing from rows that others hold, and moves the version    *)
(* that others have read.                                                      *)
LEMMA Written ==
  ASSUME AdminInv, NEW h \in Threads, WriteRoles(h)
  PROVE  AdminInv'
<1> USE AdminAssumption, IdleIsRequest DEF AdminInv, AdminTypeOK
<1> DEFINE t == req[h].actor
<1>1. /\ req[h].at = "write" /\ locked[t] \in {Absent, h} /\ Unlock(h) /\ Done(h)
      /\ UNCHANGED sessions
  BY DEF WriteRoles
<1>2. /\ t \in Existing /\ t \in ActorIds /\ actors[t] \in ActorRow /\ req[h] \in Request
      /\ req[h].version < MaxVersion /\ req[h].grant \in RoleSets
  BY <1>1 DEF Known, Existing
<1>3. CASE ~ (AtVersion(h) /\ Fresh(req[h].intent))
  <2>1. /\ UNCHANGED actors
        /\ IF AtVersion(h) THEN UNCHANGED audits
           ELSE RejectChange(h, "change", t, req[h].version)
    BY <1>3 DEF WriteRoles
  <2>2. audits' \subseteq AuditRow
    <3>1. req[h].version \in Versions
      BY <1>2 DEF Request
    <3> QED
      BY <1>2, <2>1, <3>1, Rejected
  <2> QED
    BY <1>1, <2>1, <2>2, RolledBack
<1>4. CASE AtVersion(h) /\ Fresh(req[h].intent)
  <2> DEFINE row == [actors[t] EXCEPT !.version = @ + 1, !.roles = req[h].grant]
  <2>1. /\ actors' = [actors EXCEPT ![t].version = @ + 1, ![t].roles = req[h].grant]
        /\ AuditSuccess("change", t, req[h].version + 1, req[h].grant, req[h].intent)
    BY <1>4 DEF WriteRoles
  <2>2. Current(h) /\ actors[t].version + 1 \in Versions /\ actors[t].version \in Nat
    BY <1>2, <1>4 DEF AtVersion, Current, Versions, Request
  <2>3. /\ row \in ActorRow /\ row # Absent /\ row.version = actors[t].version + 1
        /\ row.roles = req[h].grant
    BY <1>2, <2>2 DEF ActorRow
  <2>4. \A a \in ActorIds : actors'[a] = IF a = t THEN row ELSE actors[a]
    BY <1>2, <2>1
  <2>5. actors' \in [ActorIds -> ActorRow \cup {Absent}]
    BY <2>1, <2>3
  <2>6. \A g \in Threads : req'[g] = IF g = h THEN Idle ELSE req[g]
    BY <1>1 DEF Done
  <2>7. \A a \in ActorIds : locked'[a] = IF locked[a] = h THEN Absent ELSE locked[a]
    BY <1>1 DEF Unlock
  <2>8. Existing' = Existing
    BY <1>2, <2>3, <2>4 DEF Existing
  <2>9. \A a \in ActorIds \ {t} : a \in SecurityAdmins => a \in SecurityAdmins'
    BY <2>4, <2>8 DEF SecurityAdmins, Existing
  <2>10. AdminTypeOK'
    <3>1. audits' \subseteq AuditRow
      <4>1. req[h].version + 1 \in Versions /\ req[h].intent \in Intents \cup {Absent}
        BY <1>2, <2>2 DEF Current, Request
      <4>2. req[h].grant \in SUBSET Roles
        BY <1>2 DEF RoleSets
      <4> QED
        BY <1>2, <2>1, <4>1, <4>2, Succeeded
    <3>2. locked' \in [ActorIds -> Threads \cup {Absent}] /\ req' \in [Threads -> Request]
      BY <1>1 DEF Unlock, Done
    <3> QED
      BY <1>1, <2>5, <3>1, <3>2
  <2>11. Known'
    BY <1>1, <2>6, <2>8 DEF Known
  <2>12. Held'
    <3> SUFFICES ASSUME NEW a \in ActorIds, locked'[a] # Absent
                 PROVE  a \in SecurityAdmins' /\ req'[locked'[a]].at = "write"
      BY DEF Held
    <3>1. locked[a] # h /\ locked'[a] = locked[a] /\ locked[a] \in Threads
      BY <2>7
    <3>2. a # t
      BY <1>1, <3>1, <2>7
    <3>3. a \in SecurityAdmins /\ req[locked[a]].at = "write"
      BY <3>1, <2>7 DEF Held
    <3> QED
      BY <3>1, <3>2, <3>3, <2>6, <2>9
  <2>13. Remembered'
    <3> SUFFICES ASSUME NEW g \in Threads, g # h
        PROVE /\ req'[g].at \in {"roles", "count", "write"} =>
                   req'[g].version <= actors'[req'[g].actor].version
              /\ req'[g].at \in {"count", "write"} /\ Current(g)' =>
                   req'[g].seen = actors'[req'[g].actor].roles
      BY <2>6 DEF Remembered
    <3>1. req'[g] = req[g] /\ req[g] \in Request /\ req[g].version \in Nat
      BY <2>6 DEF Request, Versions
    <3>2. CASE req[g].at \in {"roles", "count", "write"}
      <4>1. req[g].actor \in ActorIds /\ req[g].version <= actors[req[g].actor].version
        BY <3>2 DEF Known, Remembered, Existing
      <4>2. CASE req[g].actor = t
        <5>1. actors'[t].version = actors[t].version + 1
          BY <1>2, <2>3, <2>4
        <5> QED
          BY <4>1, <4>2, <5>1, <3>1, <2>2 DEF Current
      <4>3. CASE req[g].actor # t
        <5>1. actors'[req[g].actor] = actors[req[g].actor]
          BY <4>1, <4>3, <2>4
        <5> QED
          BY <4>1, <5>1, <3>1 DEF Remembered, Current
      <4> QED
        BY <4>2, <4>3
    <3> QED
      BY <3>1, <3>2
  <2>14. Backed'
    BY <2>6, <2>7 DEF Backed, Takes
  <2>15. SecurityAdmins' # {}
    <3>1. CASE Security \in req[h].grant
      BY <3>1, <1>2, <2>3, <2>4, <2>8 DEF SecurityAdmins
    <3>2. CASE Security \notin req[h].grant /\ Security \in req[h].seen
      <4>1. PICK b \in ActorIds : b # t /\ locked[b] = h
        BY <1>1, <3>2 DEF Backed, Takes
      <4>2. b \in SecurityAdmins
        BY <4>1 DEF Held
      <4> QED
        BY <4>1, <4>2, <2>9
    <3>3. CASE Security \notin req[h].seen
      <4>1. t \notin SecurityAdmins
        BY <1>1, <3>3, <2>2 DEF Remembered, SecurityAdmins
      <4>2. PICK b \in SecurityAdmins : TRUE
        BY <1>2 DEF SecurityAdminRemains
      <4> QED
        BY <4>1, <4>2, <2>9 DEF SecurityAdmins, Existing
    <3> QED
      BY <3>1, <3>2, <3>3
  <2>16. OneHolder'
    BY <2>7 DEF OneHolder
  <2> QED
    BY <2>10, <2>11, <2>12, <2>13, <2>14, <2>15, <2>16 DEF SecurityAdminRemains
<1> QED
  BY <1>3, <1>4

-------------------------------------------------------------------------------
(* The first administrator of a starting process.                              *)
LEMMA Bootstrapped ==
  ASSUME AdminInv, NEW h \in Threads, NEW a \in ActorIds, Bootstrap(h, a)
  PROVE  AdminInv'
<1> USE AdminAssumption
<1>1. req[h].at = "boot" /\ Done(h) /\ UNCHANGED <<sessions, locked>>
  BY DEF Bootstrap
<1>2. CASE LoginFree(BootLogin)
  <2>1. AddActor(a, BootLogin, Roles) /\ AuditSuccess("boot", a, 1, Roles, Absent)
    BY <1>2 DEF Bootstrap
  <2>2. Roles \in RoleSets /\ 1 \in Versions
    BY DEF RoleSets, Versions
  <2>3. audits' \subseteq AuditRow
    BY <2>1, <2>2, Succeeded
  <2> QED
    BY <1>1, <2>1, <2>2, <2>3, Grown
<1>3. CASE ~ LoginFree(BootLogin)
  <2>1. UNCHANGED <<actors, audits>>
    BY <1>3 DEF Bootstrap
  <2> QED
    BY <1>1, <2>1, SameSessions, Ended DEF AdminInv, AdminTypeOK
<1> QED
  BY <1>2, <1>3

(* A new session is one of the actor whose password was checked.               *)
LEMMA LoggedIn ==
  ASSUME AdminInv, NEW h \in Threads, NEW s \in SessionIds, Login(h, s)
  PROVE  AdminInv'
<1> USE AdminAssumption DEF AdminInv, AdminTypeOK
<1> DEFINE row == [actor |-> req[h].actor, version |-> req[h].version,
                   issued |-> actors[req[h].actor].roles, over |-> FALSE]
<1>1. /\ req[h].at = "login" /\ Done(h) /\ UNCHANGED <<actors, audits, locked>>
      /\ sessions' = [sessions EXCEPT ![s] = row]
  BY DEF Login
<1>2. req[h].actor \in Existing /\ req[h] \in Request
  BY <1>1 DEF Known
<1>3. actors[req[h].actor] \in ActorRow
  BY <1>2 DEF Existing
<1>4. row \in SessionRow
  BY <1>2, <1>3 DEF SessionRow, ActorRow, Request, Existing
<1>5. row # Absent /\ row.actor = req[h].actor
  BY <1>4
<1>6. SessionsStay
  BY <1>1, <1>2, <1>4, <1>5 DEF SessionsStay, Known
<1> QED
  BY <1>1, <1>6, Ended

(* Revoking or letting expire a session leaves it the session of its actor.     *)
LEMMA SessionOver ==
  ASSUME AdminInv, NEW s \in SessionIds, sessions[s] # Absent,
         sessions' = [sessions EXCEPT ![s].over = TRUE]
  PROVE  SessionsStay
<1> USE AdminAssumption DEF AdminInv, AdminTypeOK
<1> DEFINE row == [sessions[s] EXCEPT !.over = TRUE]
<1>1. row \in SessionRow /\ row.actor = sessions[s].actor
  BY DEF SessionRow
<1>2. row # Absent
  BY <1>1
<1>3. \A r \in SessionIds : sessions'[r] = IF r = s THEN row ELSE sessions[r]
  OBVIOUS
<1> QED
  BY <1>1, <1>2, <1>3 DEF SessionsStay, Known

LEMMA Expired ==
  ASSUME AdminInv, NEW s \in SessionIds, Expire(s)
  PROVE  AdminInv'
<1>1. UNCHANGED <<actors, audits, locked, req>> /\ SessionsStay
  BY SessionOver DEF Expire
<1>2. Existing' = Existing /\ SecurityAdmins' = SecurityAdmins
  BY <1>1 DEF Existing, SecurityAdmins
<1>3. AdminTypeOK' /\ Known'
  BY <1>1, <1>2 DEF AdminInv, AdminTypeOK, Known, SessionsStay
<1>4. Held' /\ OneHolder' /\ Remembered' /\ Backed' /\ SecurityAdminRemains'
  BY <1>1, <1>2 DEF AdminInv, Held, OneHolder, Remembered, Current, Backed, Takes, SecurityAdminRemains
<1> QED
  BY <1>3, <1>4 DEF AdminInv

(* Requests that read, up to the principal and its answer.                     *)
LEMMA Requested ==
  ASSUME AdminInv, NEW h \in Threads,
         \/ BeginBootstrap(h) \/ \E a \in ActorIds : BeginLogin(h, a)
         \/ \E s \in SessionIds : Authenticate(h, s)
         \/ AuthenticateRoles(h) \/ Read(h) \/ Revoke(h)
  PROVE  AdminInv'
<1> USE AdminAssumption, SameSessions, IdleIsRequest DEF AdminInv, AdminTypeOK
<1>1. CASE BeginBootstrap(h)
  <2> DEFINE q == [Idle EXCEPT !.at = "boot"]
  <2>1. q \in Request /\ q.at = "boot"
    BY DEF Request, Stages
  <2> QED
    BY <1>1, <2>1, Quiet DEF BeginBootstrap
<1>2. ASSUME NEW a \in ActorIds, BeginLogin(h, a) PROVE AdminInv'
  <2> DEFINE q == [Idle EXCEPT !.at = "login", !.actor = a, !.version = actors[a].version]
  <2>1. a \in Existing /\ actors[a] \in ActorRow /\ req[h].at = "idle"
        /\ UNCHANGED <<actors, sessions, audits, locked>> /\ req' = [req EXCEPT ![h] = q]
    BY <1>2 DEF BeginLogin, Existing
  <2>2. q \in Request /\ q.at = "login" /\ q.actor = a
    BY <2>1 DEF Request, Stages, ActorRow
  <2> HIDE DEF q
  <2> QED
    BY <2>1, <2>2, Quiet
<1>3. ASSUME NEW s \in SessionIds, Authenticate(h, s) PROVE AdminInv'
  <2> DEFINE q == [Idle EXCEPT !.at = "auth", !.session = s]
  <2>1. q \in Request /\ q.at = "auth" /\ q.session = s
    BY DEF Request, Stages
  <2> QED
    BY <1>3, <2>1, Quiet DEF Authenticate
<1>4. CASE AuthenticateRoles(h)
  <2> DEFINE s == req[h].session
             q == [req[h] EXCEPT !.at = "authed", !.roles = actors[sessions[s].actor].roles]
  <2>1. /\ req[h].at = "auth" /\ s \in SessionIds /\ sessions[s] # Absent
        /\ req[h] \in Request /\ UNCHANGED <<actors, sessions, audits, locked>>
    BY <1>4 DEF AuthenticateRoles, Known
  <2>2. actors[sessions[s].actor] \in ActorRow
    BY <2>1 DEF Known, Existing
  <2>3. q \in Request /\ q.at = "authed" /\ q.session = s
    BY <2>1, <2>2 DEF Request, Stages, ActorRow, RoleSets
  <2>4. CASE SameRoles(s)
    <3>1. req' = [req EXCEPT ![h] = q]
      BY <1>4, <2>4 DEF AuthenticateRoles
    <3> HIDE DEF q
    <3> QED
      BY <2>1, <2>3, <3>1, Quiet
  <2>5. CASE ~ SameRoles(s)
    BY <1>4, <2>1, <2>5, Ended DEF AuthenticateRoles
  <2> QED
    BY <2>4, <2>5
<1>5. CASE Read(h)
  BY <1>5, Ended DEF Read
<1>6. CASE Revoke(h)
  <2>1. req[h].session \in SessionIds /\ sessions[req[h].session] # Absent
    BY <1>6 DEF Revoke, Known
  <2>2. SessionsStay
    BY <1>6, <2>1, SessionOver DEF Revoke
  <2> QED
    BY <1>6, <2>2, Ended DEF Revoke
<1> QED
  BY <1>1, <1>2, <1>3, <1>4, <1>5, <1>6

(* An actor is created by a principal: there is a security administrator.       *)
LEMMA Created ==
  ASSUME AdminInv, NEW h \in Threads, NEW a \in ActorIds, NEW l \in Logins,
         NEW roles \in RoleSets, NEW i \in Intents, CreateActor(h, a, l, roles, i)
  PROVE  AdminInv'
<1> USE AdminAssumption
<1>1. req[h].at = "authed" /\ Done(h) /\ UNCHANGED <<sessions, locked>>
  BY DEF CreateActor
<1>2. Existing # {}
  BY <1>1 DEF AdminInv, Known
<1>3. 1 \in Versions
  BY DEF Versions
<1>4. CASE MayWriteRoles(req[h].roles)
  <2>1. AddActor(a, l, roles) /\ AuditSuccess("create", a, 1, roles, i)
    BY <1>4 DEF CreateActor
  <2>2. audits' \subseteq AuditRow
    BY <1>3, <2>1, Succeeded DEF RoleSets
  <2> QED
    BY <1>1, <1>2, <2>1, <2>2, Grown
<1>5. CASE ~ MayWriteRoles(req[h].roles)
  <2> DEFINE e == [action |-> "create", target |-> Absent, revision |-> 1,
                   roles |-> {}, intent |-> i, succeeded |-> FALSE]
  <2>1. UNCHANGED actors /\ audits' = audits \cup {e}
    BY <1>5 DEF CreateActor
  <2>2. e \in AuditRow
    BY <1>3 DEF AuditRow
  <2> QED
    BY <1>1, <2>1, <2>2, SameSessions, Ended DEF AdminInv, AdminTypeOK
<1> QED
  BY <1>4, <1>5

(* A request that begins or goes on reading for a change, and is not yet about  *)
(* to take admin_security, keeps what it knows of its target.                   *)
LEMMA ReadsOn ==
  ASSUME AdminInv, UNCHANGED <<actors, sessions, locked>>, NEW h \in Threads,
         req[h].at # "write", NEW q \in Request, req' = [req EXCEPT ![h] = q],
         q.at \in {"roles", "count", "write"}, q.actor \in Existing,
         q.version < MaxVersion, q.grant \in RoleSets,
         q.version <= actors[q.actor].version,
         q.at \in {"count", "write"} => q.seen = actors[q.actor].roles,
         ~ (q.at = "write" /\ Security \in q.seen /\ Security \notin q.grant),
         audits' \subseteq AuditRow
  PROVE  AdminInv'
<1> USE DEF AdminInv, AdminTypeOK
<1>1. Existing' = Existing /\ SecurityAdmins' = SecurityAdmins
  BY DEF Existing, SecurityAdmins
<1>2. \A g \in Threads : req'[g] = IF g = h THEN q ELSE req[g]
  OBVIOUS
<1>3. AdminTypeOK'
  OBVIOUS
<1>4. Known'
  BY <1>1, <1>2 DEF Known
<1>5. Held'
  <2> SUFFICES ASSUME NEW a \in ActorIds, locked[a] # Absent
               PROVE  a \in SecurityAdmins /\ req'[locked[a]].at = "write"
    BY <1>1 DEF Held
  <2>1. a \in SecurityAdmins /\ locked[a] \in Threads /\ req[locked[a]].at = "write"
    BY DEF Held
  <2> QED
    BY <1>2, <2>1
<1>6. Remembered'
  BY <1>2 DEF Remembered, Current
<1>7. Backed'
  <2> SUFFICES ASSUME NEW g \in Threads, Takes(g)'
               PROVE  \E b \in ActorIds : b # req'[g].actor /\ locked[b] = g
    BY DEF Backed
  <2>1. g # h /\ Takes(g) /\ req'[g] = req[g]
    BY <1>2 DEF Takes
  <2> QED
    BY <2>1 DEF Backed
<1> QED
  BY <1>1, <1>3, <1>4, <1>5, <1>6, <1>7 DEF SecurityAdminRemains, OneHolder

LEMMA ChangeBegun ==
  ASSUME AdminInv, NEW h \in Threads, NEW t \in ActorIds, NEW v \in Versions,
         NEW grant \in RoleSets, NEW i \in Intents, BeginChange(h, t, v, grant, i)
  PROVE  AdminInv'
<1> USE DEF AdminInv, AdminTypeOK
<1>1. /\ req[h].at = "authed" /\ t \in Existing /\ v <= actors[t].version
      /\ v < MaxVersion /\ UNCHANGED <<actors, sessions, locked>> /\ req[h] \in Request
      /\ actors[t] \in ActorRow
  BY AdminAssumption DEF BeginChange, Existing, ActorRow, Versions
<1>2. CASE MayWriteRoles(req[h].roles) /\ actors[t].version = v
  <2> DEFINE q == [req[h] EXCEPT !.at = "roles", !.actor = t, !.version = v,
                                 !.grant = grant, !.intent = i]
  <2>1. req' = [req EXCEPT ![h] = q] /\ UNCHANGED audits
    BY <1>2 DEF BeginChange
  <2>2. /\ q \in Request /\ q.at = "roles" /\ q.actor = t /\ q.version = v
        /\ q.grant = grant
    BY <1>1 DEF Request, Stages, RoleSets
  <2> HIDE DEF q
  <2> QED
    BY <1>1, <1>2, <2>1, <2>2, ReadsOn
<1>3. CASE ~ (MayWriteRoles(req[h].roles) /\ actors[t].version = v)
  <2> DEFINE e == [action |-> "change", target |-> t, revision |-> actors[t].version,
                   roles |-> {}, intent |-> i, succeeded |-> FALSE]
  <2>1. audits' = audits \cup {e} /\ Done(h)
    BY <1>3 DEF BeginChange
  <2>2. e \in AuditRow
    BY <1>1 DEF AuditRow, ActorRow
  <2> QED
    BY <1>1, <2>1, <2>2, SameSessions, Ended
<1> QED
  BY <1>2, <1>3

LEMMA TargetRead ==
  ASSUME AdminInv, NEW h \in Threads, ReadTargetRoles(h)
  PROVE  AdminInv'
<1> USE DEF AdminInv, AdminTypeOK
<1> DEFINE seen == actors[req[h].actor].roles
           q == [req[h] EXCEPT !.seen = seen,
                   !.at = IF Security \in seen /\ Security \notin req[h].grant
                          THEN "count" ELSE "write"]
<1>1. /\ req[h].at = "roles" /\ req' = [req EXCEPT ![h] = q] /\ req[h] \in Request
      /\ UNCHANGED <<actors, sessions, audits, locked>>
  BY DEF ReadTargetRoles
<1>2. /\ req[h].actor \in Existing /\ req[h].version < MaxVersion
      /\ req[h].grant \in RoleSets /\ req[h].version <= actors[req[h].actor].version
  BY <1>1 DEF Known, Remembered
<1>3. actors[req[h].actor] \in ActorRow
  BY <1>2 DEF Existing
<1>4. /\ q \in Request /\ q.at \in {"count", "write"} /\ q.actor = req[h].actor
      /\ q.version = req[h].version /\ q.grant = req[h].grant /\ q.seen = seen
      /\ q.at = "write" => ~ (Security \in seen /\ Security \notin req[h].grant)
  BY <1>1, <1>3 DEF Request, Stages, ActorRow, RoleSets
<1> HIDE DEF q
<1> QED
  BY <1>1, <1>2, <1>4, ReadsOn

LEMMA Preserved == AdminInv /\ [AdminNext]_adminVars => AdminInv'
<1> SUFFICES ASSUME AdminInv, [AdminNext]_adminVars PROVE AdminInv'
  OBVIOUS
<1>1. ASSUME NEW s \in SessionIds, Expire(s) PROVE AdminInv'
  BY <1>1, Expired
<1>2. ASSUME NEW h \in Threads, NEW a \in ActorIds, Bootstrap(h, a) PROVE AdminInv'
  BY <1>2, Bootstrapped
<1>3. ASSUME NEW h \in Threads, NEW s \in SessionIds, Login(h, s) PROVE AdminInv'
  BY <1>3, LoggedIn
<1>4. ASSUME NEW h \in Threads,
             \/ BeginBootstrap(h) \/ \E a \in ActorIds : BeginLogin(h, a)
             \/ \E s \in SessionIds : Authenticate(h, s)
             \/ AuthenticateRoles(h) \/ Read(h) \/ Revoke(h)
      PROVE AdminInv'
  BY <1>4, Requested
<1>5. ASSUME NEW h \in Threads, NEW a \in ActorIds, NEW l \in Logins, NEW roles \in RoleSets,
             NEW i \in Intents, CreateActor(h, a, l, roles, i)
      PROVE AdminInv'
  BY <1>5, Created
<1>6. ASSUME NEW h \in Threads, NEW t \in ActorIds, NEW v \in Versions, NEW grant \in RoleSets,
             NEW i \in Intents, BeginChange(h, t, v, grant, i)
      PROVE AdminInv'
  BY <1>6, ChangeBegun
<1>7. ASSUME NEW h \in Threads, ReadTargetRoles(h) PROVE AdminInv'
  BY <1>7, TargetRead
<1>8. ASSUME NEW h \in Threads, CountSecurityAdmins(h) PROVE AdminInv'
  BY <1>8, Counted
<1>9. ASSUME NEW h \in Threads, WriteRoles(h) PROVE AdminInv'
  BY <1>9, Written
<1>10. ASSUME NEW h \in Threads, Abandon(h) PROVE AdminInv'
  BY <1>10, RolledBack DEF Abandon, AdminInv, AdminTypeOK
<1>11. CASE UNCHANGED adminVars
  BY <1>11 DEF adminVars, AdminInv, AdminTypeOK, Known, Held, OneHolder, Remembered, Current, Backed,
     Takes, SecurityAdminRemains, Existing, SecurityAdmins
<1> QED
  BY <1>1, <1>2, <1>3, <1>4, <1>5, <1>6, <1>7, <1>8, <1>9, <1>10, <1>11 DEF AdminNext

-------------------------------------------------------------------------------
(* The log, the rows and the principals tell the same.  An actor that is not    *)
(* there is not in the log, and the configured login is taken once it was used. *)
Unlogged == \A a \in ActorIds : actors[a] = Absent => Changes(a) = {}
BootLogged ==
  \A e \in audits : e.action = "boot" =>
    e.target \in Existing /\ actors[e.target].login = BootLogin
ActorLogged(a) ==
  /\ \A v \in 1 .. actors[a].version : \E e \in Changes(a) : e.revision = v
  /\ \A e, f \in Changes(a) : e.revision = f.revision => e = f
  /\ \A e \in Changes(a) :
       /\ e.revision <= actors[a].version
       /\ e.revision = actors[a].version => e.roles = actors[a].roles

(* A login reads the actor and then its roles: a session of the version that is *)
(* current was issued the current roles; one torn between two versions is of a   *)
(* past one, which no request is admitted with.                                *)
SessionLogged(s) ==
  LET a == sessions[s].actor IN
  /\ sessions[s].version <= actors[a].version
  /\ sessions[s].version = actors[a].version => sessions[s].issued = actors[a].roles
Witnessed(s) ==
  \E e \in Changes(sessions[s].actor) :
    e.revision = sessions[s].version /\ e.roles = sessions[s].issued
RequestLogged(h) ==
  /\ req[h].at = "login" => req[h].version <= actors[req[h].actor].version
  /\ req[h].at \in {"auth", "authed"} => Witnessed(req[h].session)
  /\ req[h].at = "authed" => req[h].roles = sessions[req[h].session].issued

SessionsLogged == \A s \in SessionIds : sessions[s] # Absent => SessionLogged(s)
RequestsLogged == \A h \in Threads : RequestLogged(h)
LogInv ==
  /\ Unlogged
  /\ BootLogged
  /\ OneInitialAdmin
  /\ \A a \in Existing : ActorLogged(a)
  /\ SessionsLogged
  /\ RequestsLogged

LEMMA LogBegins == AdminInit => LogInv
<1> SUFFICES ASSUME AdminInit PROVE LogInv
  OBVIOUS
<1>1. Existing = {} /\ audits = {}
  BY DEF AdminInit, Existing
<1>2. \A a : Changes(a) = {}
  BY <1>1 DEF Changes
<1>3. \A h \in Threads : req[h].at = "idle"
  BY DEF AdminInit, Idle
<1>4. SessionsLogged
  BY DEF AdminInit, SessionsLogged
<1> QED
  BY <1>1, <1>2, <1>3, <1>4 DEF LogInv, Unlogged, BootLogged, OneInitialAdmin, RequestsLogged,
     RequestLogged

(* Whatever a step does, versions do not go back, roles change with them, and    *)
(* sessions and the log keep what they hold.                                   *)
Onward ==
  /\ \A a \in Existing :
       /\ a \in Existing'
       /\ actors[a].version <= actors'[a].version
       /\ actors'[a].version = actors[a].version => actors'[a].roles = actors[a].roles
  /\ \A s \in SessionIds : sessions[s] # Absent =>
       /\ sessions'[s] # Absent
       /\ sessions'[s].actor = sessions[s].actor
       /\ sessions'[s].version = sessions[s].version
       /\ sessions'[s].issued = sessions[s].issued
  /\ audits \subseteq audits'

(* Then old sessions and waiting requests stay as the log tells.                *)
LEMMA SessionStaysLogged ==
  ASSUME AdminInv, LogInv, AdminInv', Onward, NEW s \in SessionIds, sessions[s] # Absent
  PROVE  SessionLogged(s)' /\ (Witnessed(s) => Witnessed(s)')
<1> DEFINE a == sessions[s].actor
<1>1. a \in Existing /\ a \in ActorIds /\ sessions[s] \in SessionRow
  BY DEF AdminInv, AdminTypeOK, Known, Existing
<1>2. /\ sessions'[s].actor = a /\ sessions'[s].version = sessions[s].version
      /\ sessions'[s].issued = sessions[s].issued
      /\ actors[a].version <= actors'[a].version
      /\ actors'[a].version = actors[a].version => actors'[a].roles = actors[a].roles
  BY <1>1 DEF Onward
<1>3. actors[a].version \in Nat /\ actors'[a].version \in Nat /\ sessions[s].version \in Nat
  BY <1>1, AdminAssumption DEF Onward, AdminInv, AdminTypeOK, Existing, ActorRow, SessionRow, Versions
<1>4. SessionLogged(s)
  BY DEF LogInv, SessionsLogged
<1>5. SessionLogged(s)'
  BY <1>2, <1>3, <1>4 DEF SessionLogged
<1>6. Changes(a) \subseteq Changes(a)'
  BY DEF Onward, Changes
<1>7. Witnessed(s) => Witnessed(s)'
  BY <1>2, <1>6 DEF Witnessed
<1> QED
  BY <1>5, <1>7

LEMMA RequestStaysLogged ==
  ASSUME AdminInv, LogInv, AdminInv', Onward, NEW h \in Threads, req'[h] = req[h]
  PROVE  RequestLogged(h)'
<1>1. RequestLogged(h)
  BY DEF LogInv, RequestsLogged
<1>2. ASSUME req[h].at = "login" PROVE req[h].version <= actors'[req[h].actor].version
  <2> DEFINE a == req[h].actor
  <2>1. a \in Existing /\ a \in ActorIds /\ req[h] \in Request
    BY <1>2 DEF AdminInv, AdminTypeOK, Known, Existing
  <2>2. actors[a].version <= actors'[a].version /\ req[h].version <= actors[a].version
    BY <1>1, <1>2, <2>1 DEF Onward, RequestLogged
  <2>3. actors[a].version \in Nat /\ actors'[a].version \in Nat /\ req[h].version \in Nat
    BY <2>1, AdminAssumption DEF Onward, AdminInv, AdminTypeOK, Existing, ActorRow, Request, Versions
  <2> QED
    BY <2>2, <2>3
<1>3. ASSUME req[h].at \in {"auth", "authed"}
      PROVE  /\ Witnessed(req[h].session)'
             /\ req[h].at = "authed" => req[h].roles = sessions'[req[h].session].issued
  <2>1. PICK s \in SessionIds : s = req[h].session /\ sessions[s] # Absent
    BY <1>3 DEF AdminInv, Known
  <2>2. Witnessed(s) /\ (req[h].at = "authed" => req[h].roles = sessions[s].issued)
    BY <1>1, <1>3, <2>1 DEF RequestLogged
  <2>3. Witnessed(s)' /\ sessions'[s].issued = sessions[s].issued
    BY <2>1, <2>2, SessionStaysLogged DEF Onward
  <2>4. req'[h].session = s
    BY <2>1
  <2> QED
    BY <2>2, <2>3, <2>4 DEF Witnessed
<1> QED
  BY <1>2, <1>3 DEF RequestLogged, Witnessed

(* A step that adds to the log nothing but failures tells of no actor anew.      *)
NoNews ==
  /\ UNCHANGED actors
  /\ audits \subseteq audits'
  /\ \A e \in audits' : e \in audits \/ (~ e.succeeded /\ e.action # "boot")

LEMMA NothingNew ==
  ASSUME AdminInv, LogInv, NoNews
  PROVE  /\ Unlogged' /\ BootLogged' /\ OneInitialAdmin'
         /\ \A a \in Existing' : ActorLogged(a)'
         /\ Existing' = Existing
         /\ \A a : Changes(a)' = Changes(a)
<1>1. Existing' = Existing
  BY DEF NoNews, Existing
<1>2. \A a : Changes(a)' = Changes(a)
  BY DEF NoNews, Changes
<1>3. Unlogged'
  BY <1>2 DEF LogInv, Unlogged, NoNews
<1>4. BootLogged' /\ OneInitialAdmin'
  BY <1>1 DEF LogInv, BootLogged, OneInitialAdmin, NoNews
<1>5. \A a \in Existing' : ActorLogged(a)'
  BY <1>1, <1>2 DEF LogInv, ActorLogged, NoNews
<1> QED
  BY <1>1, <1>2, <1>3, <1>4, <1>5

(* Most steps: no news, the old sessions, and a request that may go on as long   *)
(* as what it knows is in the log.                                             *)
LEMMA LogKept ==
  ASSUME AdminInv, LogInv, AdminInv', NoNews, Onward, NEW h \in Threads,
         \A g \in Threads \ {h} : req'[g] = req[g],
         RequestLogged(h)',
         \A s \in SessionIds : sessions[s] = Absent /\ sessions'[s] # Absent => SessionLogged(s)'
  PROVE  LogInv'
<1>1. SessionsLogged'
  BY SessionStaysLogged DEF SessionsLogged
<1>2. RequestsLogged'
  <2> SUFFICES ASSUME NEW g \in Threads PROVE RequestLogged(g)'
    BY DEF RequestsLogged
  <2>1. CASE g = h
    BY <2>1
  <2>2. CASE g # h
    BY <2>2, RequestStaysLogged
  <2> QED
    BY <2>1, <2>2
<1> QED
  BY <1>1, <1>2, NothingNew DEF LogInv

LEMMA VersionsAreNumbers == AdminInv => \A a \in Existing : actors[a].version \in Nat
  BY AdminAssumption DEF AdminInv, AdminTypeOK, Existing, ActorRow, Versions

LEMMA RowsStay == AdminInv /\ UNCHANGED actors /\ UNCHANGED sessions /\ audits \subseteq audits' => Onward
<1> SUFFICES ASSUME AdminInv, UNCHANGED actors, UNCHANGED sessions, audits \subseteq audits'
             PROVE  Onward
  OBVIOUS
<1>1. \A a \in Existing : actors[a].version \in Nat
  BY VersionsAreNumbers
<1> QED
  BY <1>1 DEF Onward, Existing

(* A request that ends, or goes on as no login and no principal.                *)
LEMMA Unprincipled ==
  ASSUME AdminInv, LogInv, AdminInv', NoNews, UNCHANGED sessions, NEW h \in Threads,
         \A g \in Threads \ {h} : req'[g] = req[g],
         req'[h].at \notin {"login", "auth", "authed"}
  PROVE  LogInv'
<1>1. Onward
  BY RowsStay DEF NoNews
<1>2. RequestLogged(h)'
  BY DEF RequestLogged
<1> QED
  BY <1>1, <1>2, LogKept

LEMMA DoneIsIdle ==
  ASSUME AdminInv, NEW h \in Threads, Done(h)
  PROVE  req'[h].at = "idle" /\ \A g \in Threads \ {h} : req'[g] = req[g]
  BY IdleIsRequest DEF Done, AdminInv, AdminTypeOK

(* A failure is audited at most.                                                *)
LEMMA RejectionIsNoNews ==
  ASSUME UNCHANGED actors, NEW h, NEW a, NEW v, RejectChange(h, "change", a, v)
  PROVE  NoNews
  BY DEF RejectChange, NoNews

(* The session of a login: what was read of the actor may be of the past.        *)
LEMMA LoginIsLogged ==
  ASSUME AdminInv, LogInv, AdminInv', NEW h \in Threads, NEW s \in SessionIds, Login(h, s)
  PROVE  LogInv'
<1> USE DEF AdminInv, AdminTypeOK
<1> DEFINE a == req[h].actor
           row == [actor |-> a, version |-> req[h].version, issued |-> actors[a].roles,
                   over |-> FALSE]
<1>1. /\ req[h].at = "login" /\ Done(h) /\ UNCHANGED <<actors, audits, locked>>
      /\ sessions[s] = Absent /\ sessions' = [sessions EXCEPT ![s] = row]
  BY DEF Login
<1>2. \A r \in SessionIds : sessions'[r] = IF r = s THEN row ELSE sessions[r]
  BY <1>1
<1>3. NoNews
  BY <1>1 DEF NoNews
<1>4. Onward
  <2>1. \A b \in Existing : b \in Existing' /\ actors[b].version \in Nat
    BY <1>1, VersionsAreNumbers DEF Existing
  <2> QED
    BY <1>1, <1>2, <2>1 DEF Onward
<1>5. req[h].version <= actors[a].version
  BY <1>1 DEF LogInv, RequestsLogged, RequestLogged
<1>6. SessionLogged(s)'
  BY <1>1, <1>2, <1>5 DEF SessionLogged
<1>7. \A r \in SessionIds : sessions[r] = Absent /\ sessions'[r] # Absent => SessionLogged(r)'
  BY <1>2, <1>6
<1>8. RequestLogged(h)'
  BY <1>1, DoneIsIdle DEF RequestLogged
<1> QED
  BY <1>1, <1>3, <1>4, <1>7, <1>8, DoneIsIdle, LogKept

LEMMA OverIsLogged ==
  ASSUME AdminInv, NEW s \in SessionIds, sessions[s] # Absent,
         sessions' = [sessions EXCEPT ![s].over = TRUE], UNCHANGED <<actors, audits>>
  PROVE  /\ Onward /\ NoNews
         /\ \A r \in SessionIds : sessions[r] = Absent => sessions'[r] = Absent
<1> DEFINE row == [sessions[s] EXCEPT !.over = TRUE]
<1>1. /\ row \in SessionRow /\ row.actor = sessions[s].actor
      /\ row.version = sessions[s].version /\ row.issued = sessions[s].issued
  BY DEF AdminInv, AdminTypeOK, SessionRow
<1>2. row # Absent
  BY <1>1, AdminAssumption
<1>3. \A r \in SessionIds : sessions'[r] = IF r = s THEN row ELSE sessions[r]
  BY DEF AdminInv, AdminTypeOK
<1> HIDE DEF row
<1>4. \A b \in Existing : b \in Existing' /\ actors[b].version \in Nat
  BY VersionsAreNumbers DEF Existing
<1>5. \A r \in SessionIds : sessions[r] # Absent =>
        /\ sessions'[r] # Absent
        /\ sessions'[r].actor = sessions[r].actor
        /\ sessions'[r].version = sessions[r].version
        /\ sessions'[r].issued = sessions[r].issued
  BY <1>1, <1>2, <1>3
<1>6. Onward
  BY <1>4, <1>5 DEF Onward
<1>7. \A r \in SessionIds : sessions[r] = Absent => sessions'[r] = Absent
  BY <1>3
<1> QED
  BY <1>6, <1>7 DEF NoNews

(* Requests from the login to the answer.                                       *)
LEMMA RequestIsLogged ==
  ASSUME AdminInv, LogInv, AdminInv', NEW h \in Threads,
         \/ BeginBootstrap(h) \/ \E a \in ActorIds : BeginLogin(h, a)
         \/ \E s \in SessionIds : Authenticate(h, s)
         \/ AuthenticateRoles(h) \/ Read(h) \/ Revoke(h)
  PROVE  LogInv'
<1> USE DEF AdminInv, AdminTypeOK
<1>1. CASE BeginBootstrap(h)
  <2>1. /\ UNCHANGED <<actors, sessions, audits>>
        /\ req' = [req EXCEPT ![h] = [Idle EXCEPT !.at = "boot"]]
    BY <1>1 DEF BeginBootstrap
  <2>2. req'[h].at = "boot" /\ \A g \in Threads \ {h} : req'[g] = req[g]
    BY <2>1 DEF Idle
  <2>3. NoNews
    BY <2>1 DEF NoNews
  <2> QED
    BY <2>1, <2>2, <2>3, Unprincipled
<1>2. ASSUME NEW a \in ActorIds, BeginLogin(h, a) PROVE LogInv'
  <2> DEFINE q == [Idle EXCEPT !.at = "login", !.actor = a, !.version = actors[a].version]
  <2>1. /\ a \in Existing /\ UNCHANGED <<actors, sessions, audits>>
        /\ req' = [req EXCEPT ![h] = q]
    BY <1>2 DEF BeginLogin
  <2>2. q.at = "login" /\ q.actor = a /\ q.version = actors[a].version
    BY DEF Idle
  <2>3. req'[h] = q /\ \A g \in Threads \ {h} : req'[g] = req[g]
    BY <2>1
  <2> HIDE DEF q
  <2>4. actors[a].version \in Nat
    BY <2>1 DEF Existing, ActorRow, Versions
  <2>5. RequestLogged(h)'
    BY <2>1, <2>2, <2>3, <2>4 DEF RequestLogged
  <2>6. NoNews /\ Onward
    BY <2>1, RowsStay DEF NoNews
  <2> QED
    BY <2>1, <2>3, <2>5, <2>6, LogKept
<1>3. ASSUME NEW s \in SessionIds, Authenticate(h, s) PROVE LogInv'
  <2> DEFINE q == [Idle EXCEPT !.at = "auth", !.session = s]
             a == sessions[s].actor
  <2>1. /\ sessions[s] # Absent /\ actors[a].version = sessions[s].version
        /\ UNCHANGED <<actors, sessions, audits>> /\ req' = [req EXCEPT ![h] = q]
    BY <1>3 DEF Authenticate
  <2>2. q.at = "auth" /\ q.session = s
    BY DEF Idle
  <2>3. req'[h] = q /\ \A g \in Threads \ {h} : req'[g] = req[g]
    BY <2>1
  <2> HIDE DEF q
  <2>4. a \in Existing /\ sessions[s].issued = actors[a].roles
    BY <2>1 DEF Known, LogInv, SessionsLogged, SessionLogged
  <2>5. actors[a].version \in 1 .. actors[a].version
    BY <2>4, AdminAssumption DEF Existing, ActorRow, Versions
  <2>6. ActorLogged(a)
    BY <2>4 DEF LogInv
  <2>7. PICK e \in Changes(a) : e.revision = actors[a].version
    BY <2>5, <2>6 DEF ActorLogged
  <2>8. e.roles = actors[a].roles
    BY <2>6, <2>7 DEF ActorLogged
  <2>9. Witnessed(s)
    BY <2>1, <2>4, <2>7, <2>8 DEF Witnessed
  <2>10. NoNews /\ Onward
    BY <2>1, RowsStay DEF NoNews
  <2>11. Witnessed(s)'
    BY <2>1, <2>9, <2>10, SessionStaysLogged
  <2>12. RequestLogged(h)'
    BY <2>2, <2>3, <2>11 DEF RequestLogged, Witnessed
  <2> QED
    BY <2>1, <2>3, <2>10, <2>12, LogKept
<1>4. CASE AuthenticateRoles(h)
  <2> DEFINE q == [req[h] EXCEPT !.at = "authed", !.roles = actors[sessions[req[h].session].actor].roles]
  <2>1. req[h].at = "auth" /\ UNCHANGED <<actors, sessions, audits>> /\ req[h] \in Request
    BY <1>4 DEF AuthenticateRoles
  <2>2. NoNews /\ Onward
    BY <2>1, RowsStay DEF NoNews
  <2>3. CASE SameRoles(req[h].session)
    <3>1. PICK s \in SessionIds : s = req[h].session /\ sessions[s] # Absent
      BY <2>1 DEF Known
    <3>2. Witnessed(s)
      BY <2>1, <3>1 DEF LogInv, RequestsLogged, RequestLogged
    <3>3. req' = [req EXCEPT ![h] = q]
      BY <1>4, <2>3 DEF AuthenticateRoles
    <3>4. q.at = "authed" /\ q.session = s /\ q.roles = sessions[s].issued
      BY <2>1, <2>3, <3>1 DEF Request, SameRoles
    <3>5. req'[h] = q /\ \A g \in Threads \ {h} : req'[g] = req[g]
      BY <3>3
    <3> HIDE DEF q
    <3>6. Witnessed(s)'
      BY <2>2, <3>1, <3>2, SessionStaysLogged
    <3>7. RequestLogged(h)'
      BY <2>1, <3>4, <3>5, <3>6 DEF RequestLogged, Witnessed
    <3> QED
      BY <2>1, <2>2, <3>5, <3>7, LogKept
  <2>4. CASE ~ SameRoles(req[h].session)
    BY <1>4, <2>1, <2>2, <2>4, DoneIsIdle, Unprincipled DEF AuthenticateRoles
  <2> QED
    BY <2>3, <2>4
<1>5. CASE Read(h)
  BY <1>5, DoneIsIdle, Unprincipled DEF Read, NoNews
<1>6. CASE Revoke(h)
  <2>1. PICK s \in SessionIds : s = req[h].session /\ sessions[s] # Absent
    BY <1>6 DEF Revoke, Known
  <2>2. /\ sessions' = [sessions EXCEPT ![s].over = TRUE] /\ Done(h)
        /\ UNCHANGED <<actors, audits>>
    BY <1>6, <2>1 DEF Revoke
  <2>3. /\ Onward /\ NoNews
        /\ \A r \in SessionIds : sessions[r] = Absent => sessions'[r] = Absent
    BY <2>1, <2>2, OverIsLogged
  <2>4. RequestLogged(h)'
    BY <2>2, DoneIsIdle DEF RequestLogged
  <2> QED
    BY <2>2, <2>3, <2>4, DoneIsIdle, LogKept
<1> QED
  BY <1>1, <1>2, <1>3, <1>4, <1>5, <1>6

LEMMA ExpiryIsLogged ==
  ASSUME AdminInv, LogInv, AdminInv', NEW s \in SessionIds, Expire(s)
  PROVE  LogInv'
<1>1. /\ Onward /\ NoNews
      /\ \A r \in SessionIds : sessions[r] = Absent => sessions'[r] = Absent
  BY OverIsLogged DEF Expire
<1>2. SessionsLogged'
  BY <1>1, SessionStaysLogged DEF SessionsLogged
<1>3. RequestsLogged'
  BY <1>1, RequestStaysLogged DEF RequestsLogged, Expire
<1> QED
  BY <1>1, <1>2, <1>3, NothingNew DEF LogInv
(* The event of a new actor is the first that the log has of it.                 *)
LEMMA AdditionIsLogged ==
  ASSUME AdminInv, LogInv, AdminInv', NEW h \in Threads, NEW a \in ActorIds, NEW l \in Logins,
         NEW roles \in RoleSets, NEW action, NEW i,
         AddActor(a, l, roles), AuditSuccess(action, a, 1, roles, i), Done(h),
         UNCHANGED sessions,
         action = "boot" => l = BootLogin /\ LoginFree(BootLogin)
  PROVE  LogInv'
<1> DEFINE e == [action |-> action, target |-> a, revision |-> 1, roles |-> roles,
                 intent |-> i, succeeded |-> TRUE]
<1>1. /\ Existing' = Existing \cup {a} /\ a \notin Existing
      /\ \A b \in Existing : actors'[b] = actors[b]
  BY ActorAdded
<1>2. /\ actors'[a].login = l /\ actors'[a].version = 1 /\ actors'[a].roles = roles
      /\ actors[a] = Absent
  BY DEF AddActor, AdminInv, AdminTypeOK
<1>3. audits' = audits \cup {e}
  BY DEF AuditSuccess
<1>4. /\ e.target = a /\ e.action = action /\ e.revision = 1 /\ e.roles = roles
      /\ e.succeeded
  OBVIOUS
<1> HIDE DEF e
<1>5. Changes(a)' = {e}
  <2>1. Changes(a) = {}
    BY <1>2 DEF LogInv, Unlogged
  <2> QED
    BY <1>3, <1>4, <2>1 DEF Changes
<1>6. \A b : b # a => Changes(b)' = Changes(b)
  BY <1>3, <1>4 DEF Changes
<1>7. Unlogged'
  <2> SUFFICES ASSUME NEW b \in ActorIds, actors'[b] = Absent PROVE Changes(b)' = {}
    BY DEF Unlogged
  <2>1. b # a /\ actors[b] = Absent
    BY <1>1 DEF Existing
  <2> QED
    BY <1>6, <2>1 DEF LogInv, Unlogged
<1>8. BootLogged' /\ OneInitialAdmin'
  <2>1. BootLogged'
    BY <1>1, <1>2, <1>3, <1>4 DEF LogInv, BootLogged
  <2>2. ASSUME action = "boot" PROVE \A f \in audits : f.action # "boot"
    BY <2>2 DEF LogInv, BootLogged, LoginFree
  <2>3. OneInitialAdmin'
    BY <1>3, <1>4, <2>2 DEF LogInv, OneInitialAdmin
  <2> QED
    BY <2>1, <2>3
<1>9. \A b \in Existing' : ActorLogged(b)'
  <2>1. ActorLogged(a)'
    <3>1. \A v \in 1 .. 1 : v = e.revision
      BY <1>4
    <3> QED
      BY <1>2, <1>4, <1>5, <3>1 DEF ActorLogged
  <2>2. ASSUME NEW b \in Existing PROVE ActorLogged(b)'
    <3>1. b # a /\ actors'[b] = actors[b] /\ ActorLogged(b)
      BY <1>1, <2>2 DEF LogInv
    <3>2. Changes(b)' = Changes(b)
      BY <1>6, <3>1
    <3> QED
      BY <3>1, <3>2 DEF ActorLogged
  <2> QED
    BY <1>1, <2>1, <2>2
<1>10. Onward
  <2>1. \A b \in Existing : actors[b].version \in Nat
    BY VersionsAreNumbers
  <2> QED
    BY <1>1, <1>3, <2>1 DEF Onward
<1>11. SessionsLogged'
  BY <1>10, SessionStaysLogged DEF SessionsLogged
<1>12. RequestsLogged'
  <2>1. RequestLogged(h)'
    BY DoneIsIdle DEF RequestLogged
  <2>2. \A g \in Threads \ {h} : RequestLogged(g)'
    BY <1>10, DoneIsIdle, RequestStaysLogged
  <2> QED
    BY <2>1, <2>2 DEF RequestsLogged
<1> QED
  BY <1>7, <1>8, <1>9, <1>11, <1>12 DEF LogInv

LEMMA NewActorIsLogged ==
  ASSUME AdminInv, LogInv, AdminInv', NEW h \in Threads, NEW a \in ActorIds,
         \/ Bootstrap(h, a)
         \/ \E l \in Logins, roles \in RoleSets, i \in Intents : CreateActor(h, a, l, roles, i)
  PROVE  LogInv'
<1>1. CASE Bootstrap(h, a)
  <2>1. Done(h) /\ UNCHANGED sessions
    BY <1>1 DEF Bootstrap
  <2>2. CASE LoginFree(BootLogin)
    <3>1. AddActor(a, BootLogin, Roles) /\ AuditSuccess("boot", a, 1, Roles, Absent)
      BY <1>1, <2>2 DEF Bootstrap
    <3>2. Roles \in RoleSets /\ BootLogin \in Logins
      BY AdminAssumption DEF RoleSets
    <3> QED
      BY <2>1, <2>2, <3>1, <3>2, AdditionIsLogged
  <2>3. CASE ~ LoginFree(BootLogin)
    <3>1. NoNews
      BY <1>1, <2>3 DEF Bootstrap, NoNews
    <3> QED
      BY <2>1, <3>1, DoneIsIdle, Unprincipled
  <2> QED
    BY <2>2, <2>3
<1>2. ASSUME NEW l \in Logins, NEW roles \in RoleSets, NEW i \in Intents,
             CreateActor(h, a, l, roles, i)
      PROVE LogInv'
  <2>1. Done(h) /\ UNCHANGED sessions
    BY <1>2 DEF CreateActor
  <2>2. CASE MayWriteRoles(req[h].roles)
    <3>1. AddActor(a, l, roles) /\ AuditSuccess("create", a, 1, roles, i)
      BY <1>2, <2>2 DEF CreateActor
    <3> QED
      BY <2>1, <3>1, AdditionIsLogged
  <2>3. CASE ~ MayWriteRoles(req[h].roles)
    <3>1. NoNews
      BY <1>2, <2>3 DEF CreateActor, NoNews
    <3> QED
      BY <2>1, <3>1, DoneIsIdle, Unprincipled
  <2> QED
    BY <2>2, <2>3
<1> QED
  BY <1>1, <1>2

(* A change of roles up to its write.                                           *)
LEMMA ChangeIsNotLogged ==
  ASSUME AdminInv, LogInv, AdminInv', NEW h \in Threads,
         \/ \E t \in ActorIds, v \in Versions, grant \in RoleSets, i \in Intents :
              BeginChange(h, t, v, grant, i)
         \/ ReadTargetRoles(h) \/ CountSecurityAdmins(h) \/ Abandon(h)
  PROVE  LogInv'
<1> USE DEF AdminInv, AdminTypeOK
<1>1. ASSUME NEW t \in ActorIds, NEW v \in Versions, NEW grant \in RoleSets, NEW i \in Intents,
             BeginChange(h, t, v, grant, i)
      PROVE LogInv'
  <2>1. UNCHANGED <<actors, sessions>> /\ req[h] \in Request
    BY <1>1 DEF BeginChange
  <2>2. CASE MayWriteRoles(req[h].roles) /\ actors[t].version = v
    <3>1. /\ NoNews
          /\ req' = [req EXCEPT ![h] = [req[h] EXCEPT !.at = "roles", !.actor = t, !.version = v,
                                                      !.grant = grant, !.intent = i]]
      BY <1>1, <2>2 DEF BeginChange, NoNews
    <3>2. req'[h].at = "roles" /\ \A g \in Threads \ {h} : req'[g] = req[g]
      BY <2>1, <3>1 DEF Request
    <3> QED
      BY <2>1, <3>1, <3>2, Unprincipled
  <2>3. CASE ~ (MayWriteRoles(req[h].roles) /\ actors[t].version = v)
    <3>1. Done(h) /\ UNCHANGED actors /\
          audits' = audits \cup {[action |-> "change", target |-> t,
               revision |-> actors[t].version, roles |-> {}, intent |-> i,
               succeeded |-> FALSE]}
      BY <1>1, <2>3 DEF BeginChange
    <3>2. NoNews
      BY <3>1 DEF NoNews
    <3> QED
      BY <2>1, <3>1, <3>2, DoneIsIdle, Unprincipled
  <2> QED
    BY <2>2, <2>3
<1>2. CASE ReadTargetRoles(h)
  <2>1. UNCHANGED <<actors, sessions>> /\ req[h] \in Request /\ NoNews
    BY <1>2 DEF ReadTargetRoles, NoNews
  <2>2. req'[h].at \in {"count", "write"} /\ \A g \in Threads \ {h} : req'[g] = req[g]
    BY <1>2, <2>1 DEF ReadTargetRoles, Request
  <2> QED
    BY <2>1, <2>2, Unprincipled
<1>3. CASE CountSecurityAdmins(h)
  <2>1. UNCHANGED <<actors, sessions>> /\ req[h] \in Request
    BY <1>3 DEF CountSecurityAdmins
  <2>2. CASE Cardinality(SecurityAdmins) <= 1
    <3>1. Done(h) /\ RejectChange(h, "change", req[h].actor, req[h].version)
      BY <1>3, <2>2 DEF CountSecurityAdmins
    <3> QED
      BY <2>1, <3>1, DoneIsIdle, RejectionIsNoNews, Unprincipled
  <2>3. CASE ~ (Cardinality(SecurityAdmins) <= 1)
    <3>1. NoNews /\ req' = [req EXCEPT ![h].at = "write"]
      BY <1>3, <2>3 DEF CountSecurityAdmins, NoNews
    <3>2. req'[h].at = "write" /\ \A g \in Threads \ {h} : req'[g] = req[g]
      BY <2>1, <3>1 DEF Request
    <3> QED
      BY <2>1, <3>1, <3>2, Unprincipled
  <2> QED
    BY <2>2, <2>3
<1>4. CASE Abandon(h)
  BY <1>4, DoneIsIdle, Unprincipled DEF Abandon, NoNews
<1> QED
  BY <1>1, <1>2, <1>3, <1>4

(* The write is logged as the revision after the one it was asked for.           *)
LEMMA WriteIsLogged ==
  ASSUME AdminInv, LogInv, AdminInv', NEW h \in Threads, WriteRoles(h)
  PROVE  LogInv'
<1> USE DEF AdminInv, AdminTypeOK
<1>1. req[h].at = "write" /\ Done(h) /\ UNCHANGED sessions
  BY DEF WriteRoles
<1> PICK t \in Existing : t = req[h].actor
  BY <1>1 DEF Known
<1> PICK w \in Nat : w = actors[t].version
  BY VersionsAreNumbers
<1>2. t \in ActorIds /\ actors[t] \in ActorRow
  BY DEF Existing
<1>3. CASE AtVersion(h) /\ Fresh(req[h].intent)
  <2> DEFINE e == [action |-> "change", target |-> t, revision |-> w + 1,
                   roles |-> req[h].grant, intent |-> req[h].intent, succeeded |-> TRUE]
             row == [actors[t] EXCEPT !.version = @ + 1, !.roles = req[h].grant]
  <2>1. /\ actors' = [actors EXCEPT ![t] = row]
        /\ audits' = audits \cup {e}
    BY <1>3 DEF WriteRoles, AuditSuccess, AtVersion
  <2>2. \A a \in ActorIds : actors'[a] = IF a = t THEN row ELSE actors[a]
    BY <2>1
  <2>3. /\ row.login = actors[t].login /\ row.version = w + 1 /\ row.roles = req[h].grant
    BY <1>2 DEF ActorRow
  <2>4. /\ e.target = t /\ e.action = "change" /\ e.revision = w + 1 /\ e.succeeded
        /\ e.roles = req[h].grant
    OBVIOUS
  <2> HIDE DEF e, row
  <2>5. row # Absent
    <3>1. w = req[h].version /\ w < MaxVersion /\ req[h].grant \in RoleSets
      BY <1>1, <1>3 DEF Known, AtVersion
    <3>2. w + 1 \in Versions
      BY <3>1, AdminAssumption DEF Versions
    <3>3. row = [actors[t] EXCEPT !.version = w + 1, !.roles = req[h].grant]
      BY DEF row
    <3>4. row \in ActorRow
      BY <1>2, <3>1, <3>2, <3>3 DEF ActorRow
    <3> QED
      BY <3>4, AdminAssumption
  <2>6. Existing' = Existing
    BY <1>2, <2>2, <2>5 DEF Existing
  <2>7. Changes(t)' = Changes(t) \cup {e} /\ \A b : b # t => Changes(b)' = Changes(b)
    BY <2>1, <2>4 DEF Changes
  <2>8. Unlogged'
    <3> SUFFICES ASSUME NEW b \in ActorIds, actors'[b] = Absent PROVE Changes(b)' = {}
      BY DEF Unlogged
    <3>1. b # t /\ actors[b] = Absent
      BY <2>2, <2>5
    <3> QED
      BY <2>7, <3>1 DEF LogInv, Unlogged
  <2>9. BootLogged'
    <3> SUFFICES ASSUME NEW f \in audits', f.action = "boot"
                 PROVE  f.target \in Existing' /\ actors'[f.target].login = BootLogin
      BY DEF BootLogged
    <3>1. f \in audits
      BY <2>1, <2>4
    <3>2. f.target \in Existing /\ actors[f.target].login = BootLogin
      BY <3>1 DEF LogInv, BootLogged
    <3> QED
      BY <2>2, <2>3, <2>6, <3>2 DEF Existing
  <2>10. OneInitialAdmin'
    BY <2>1, <2>4 DEF LogInv, OneInitialAdmin
  <2>11. ASSUME NEW b \in Existing' PROVE ActorLogged(b)'
    <3>1. CASE b = t
      <4>1. ActorLogged(t)
        BY <1>2 DEF LogInv
      <4>2. actors'[t].version = w + 1 /\ actors'[t].roles = req[h].grant
        BY <1>2, <2>2, <2>3
      <4>3. \A f \in Changes(t) : f.revision \in Nat /\ f.revision <= w
        BY <4>1, AdminAssumption DEF ActorLogged, Changes, AuditRow, Versions
      <4>4. \A v \in 1 .. (w + 1) : \E f \in Changes(t)' : f.revision = v
        <5> SUFFICES ASSUME NEW v \in 1 .. (w + 1) PROVE \E f \in Changes(t)' : f.revision = v
          OBVIOUS
        <5>1. CASE v = w + 1
          BY <2>4, <2>7, <5>1
        <5>2. CASE v # w + 1
          <6>1. v \in 1 .. w
            BY <1>2, <5>2
          <6> QED
            BY <2>7, <4>1, <6>1 DEF ActorLogged
        <5> QED
          BY <5>1, <5>2
      <4>5. \A f, g \in Changes(t)' : f.revision = g.revision => f = g
        <5>1. \A f \in Changes(t) : f.revision # e.revision
          BY <1>2, <2>4, <4>3
        <5> QED
          BY <2>7, <4>1, <5>1 DEF ActorLogged
      <4>6. \A f \in Changes(t)' :
              /\ f.revision <= w + 1
              /\ f.revision = w + 1 => f.roles = req[h].grant
        BY <1>2, <2>4, <2>7, <4>3
      <4> QED
        BY <3>1, <4>2, <4>4, <4>5, <4>6 DEF ActorLogged
    <3>2. CASE b # t
      <4>1. ActorLogged(b) /\ actors'[b] = actors[b] /\ Changes(b)' = Changes(b)
        BY <2>2, <2>6, <2>7, <3>2 DEF LogInv, Existing
      <4> QED
        BY <4>1 DEF ActorLogged
    <3> QED
      BY <3>1, <3>2
  <2>12. Onward
    <3>1. \A b \in Existing :
            /\ b \in Existing'
            /\ actors[b].version <= actors'[b].version
            /\ actors'[b].version = actors[b].version => actors'[b].roles = actors[b].roles
      <4> SUFFICES ASSUME NEW b \in Existing
                   PROVE /\ actors[b].version <= actors'[b].version
                         /\ actors'[b].version = actors[b].version =>
                              actors'[b].roles = actors[b].roles
        BY <2>6
      <4>1. actors[b].version \in Nat /\ b \in ActorIds
        BY VersionsAreNumbers DEF Existing
      <4> QED
        BY <1>2, <2>2, <2>3, <4>1
    <3> QED
      BY <1>1, <2>1, <3>1 DEF Onward
  <2>13. SessionsLogged'
    BY <1>1, <2>12, SessionStaysLogged DEF SessionsLogged
  <2>14. RequestsLogged'
    <3>1. RequestLogged(h)'
      BY <1>1, DoneIsIdle DEF RequestLogged
    <3>2. \A g \in Threads \ {h} : RequestLogged(g)'
      BY <1>1, <2>12, DoneIsIdle, RequestStaysLogged
    <3> QED
      BY <3>1, <3>2 DEF RequestsLogged
  <2> QED
    BY <2>8, <2>9, <2>10, <2>11, <2>13, <2>14 DEF LogInv
<1>4. CASE ~ (AtVersion(h) /\ Fresh(req[h].intent))
  <2>1. NoNews
    BY <1>4, RejectionIsNoNews DEF WriteRoles, NoNews
  <2> QED
    BY <1>1, <2>1, DoneIsIdle, Unprincipled
<1> QED
  BY <1>3, <1>4

LEMMA LogPreserved ==
  ASSUME AdminInv, LogInv, AdminInv', [AdminNext]_adminVars
  PROVE  LogInv'
<1>1. ASSUME NEW s \in SessionIds, Expire(s) PROVE LogInv'
  BY <1>1, ExpiryIsLogged
<1>2. ASSUME NEW h \in Threads, NEW a \in ActorIds,
             \/ Bootstrap(h, a)
             \/ \E l \in Logins, roles \in RoleSets, i \in Intents : CreateActor(h, a, l, roles, i)
      PROVE LogInv'
  BY <1>2, NewActorIsLogged
<1>3. ASSUME NEW h \in Threads, NEW s \in SessionIds, Login(h, s) PROVE LogInv'
  BY <1>3, LoginIsLogged
<1>4. ASSUME NEW h \in Threads,
             \/ BeginBootstrap(h) \/ \E a \in ActorIds : BeginLogin(h, a)
             \/ \E s \in SessionIds : Authenticate(h, s)
             \/ AuthenticateRoles(h) \/ Read(h) \/ Revoke(h)
      PROVE LogInv'
  BY <1>4, RequestIsLogged
<1>5. ASSUME NEW h \in Threads,
             \/ \E t \in ActorIds, v \in Versions, grant \in RoleSets, i \in Intents :
                  BeginChange(h, t, v, grant, i)
             \/ ReadTargetRoles(h) \/ CountSecurityAdmins(h) \/ Abandon(h)
      PROVE LogInv'
  BY <1>5, ChangeIsNotLogged
<1>6. ASSUME NEW h \in Threads, WriteRoles(h) PROVE LogInv'
  BY <1>6, WriteIsLogged
<1>7. CASE UNCHANGED adminVars
  BY <1>7 DEF adminVars, LogInv, Unlogged, BootLogged, OneInitialAdmin, ActorLogged, SessionsLogged,
     SessionLogged, RequestsLogged, RequestLogged, Witnessed, Changes, Existing
<1> QED
  BY <1>1, <1>2, <1>3, <1>4, <1>5, <1>6, <1>7 DEF AdminNext

-------------------------------------------------------------------------------
(* Rows and requests keep to what the code writes, for all actors and threads.  *)
THEOREM AdminTypes == AdminSpec => []AdminTypeOK
<1>1. AdminInv => AdminTypeOK
  BY DEF AdminInv
<1> QED
  BY <1>1, InitHolds, Preserved, PTL DEF AdminSpec

(* However many administrators change each other's roles at the same time, one  *)
(* with admin_security remains: change_roles counts under the locks of the rows *)
(* it counts.                                                                  *)
THEOREM AnAdminRemains == AdminSpec => []SecurityAdminRemains
<1>1. AdminInv => SecurityAdminRemains
  BY DEF AdminInv
<1> QED
  BY <1>1, InitHolds, Preserved, PTL DEF AdminSpec

(* The audit log can rebuild every actor, revision by revision; processes that   *)
(* start together create one first administrator; and no principal has roles     *)
(* other than the log tells of, although its roles are read after its version.   *)
THEOREM LogTellsHistory == AdminSpec => []AuditTellsHistory
<1>1. ASSUME AdminInv, LogInv PROVE AuditTellsHistory
  <2>1. ASSUME NEW h \in Threads, req[h].at = "authed"
        PROVE  \E e \in Changes(sessions[req[h].session].actor) :
                 e.revision = sessions[req[h].session].version /\ e.roles = req[h].roles
    BY <1>1, <2>1 DEF LogInv, RequestsLogged, RequestLogged, Witnessed
  <2>2. PrincipalsMatchSessions
    BY <2>1 DEF PrincipalsMatchSessions
  <2> QED
    BY <1>1, <2>2 DEF AuditTellsHistory, LogInv, ActorLogged
<1>2. AdminInit => AdminInv /\ LogInv
  BY InitHolds, LogBegins
<1>3. AdminInv /\ LogInv /\ [AdminNext]_adminVars => (AdminInv /\ LogInv)'
  BY Preserved, LogPreserved
<1> QED
  BY <1>1, <1>2, <1>3, PTL DEF AdminSpec
===============================================================================
