----------------------------- MODULE RevisionChain -----------------------------
(***************************************************************************)
(* What the planning core promises about trips, without drafts, threads,   *)
(* solver runs or transactions: a generation is either published or        *)
(* rejected, once, and a trip grows as a chain.  A generation made from an *)
(* earlier one is published only while that one is still the trip's head;  *)
(* the test and the move of the head are one step.                         *)
(***************************************************************************)
CONSTANTS Generations, TripIds, None

ASSUME NoneIsNoGeneration == None \notin Generations

VARIABLES
  outcome,   (* of each generation: absent, open, published or rejected     *)
  parent,    (* the generation it was made from, None for a new trip        *)
  head       (* of each trip: its latest published generation               *)

vars == <<outcome, parent, head>>

TypeOK ==
  /\ outcome \in [Generations -> {"absent", "open", "published", "rejected"}]
  /\ parent \in [Generations -> Generations \cup {None}]
  /\ head \in [TripIds -> Generations \cup {None}]

Init ==
  /\ outcome = [i \in Generations |-> "absent"]
  /\ parent = [i \in Generations |-> None]
  /\ head = [t \in TripIds |-> None]

(* A generation is asked for: for a new trip, or on top of a published one.  *)
Ask(i, j) ==
  /\ outcome[i] = "absent"
  /\ j # None => outcome[j] = "published"
  /\ outcome' = [outcome EXCEPT ![i] = "open"]
  /\ parent' = [parent EXCEPT ![i] = j]
  /\ UNCHANGED head

Publish_Unchecked(i, t) ==            \* mutant: the head is not compared
  /\ outcome[i] = "open"
  /\ outcome' = [outcome EXCEPT ![i] = "published"]
  /\ head' = [head EXCEPT ![t] = i]
  /\ UNCHANGED parent

(* head[t] = parent[i] also says that a trip opens empty: both are None.     *)
Publish(i, t) ==
  /\ outcome[i] = "open"
  /\ head[t] = parent[i]
  /\ outcome' = [outcome EXCEPT ![i] = "published"]
  /\ head' = [head EXCEPT ![t] = i]
  /\ UNCHANGED parent

Reject(i) ==
  /\ outcome[i] = "open"
  /\ outcome' = [outcome EXCEPT ![i] = "rejected"]
  /\ UNCHANGED <<parent, head>>

Next ==
  \E i \in Generations :
    \/ \E j \in Generations \cup {None} : Ask(i, j)
    \/ \E t \in TripIds : Publish(i, t)
    \/ Reject(i)

Spec == Init /\ [][Next]_vars

-------------------------------------------------------------------------------
(* Two published generations never share a parent: replacing an attraction   *)
(* twice from one revision cannot fork the trip's history.                   *)
NoFork ==
  \A i, j \in Generations :
    outcome[i] = "published" /\ outcome[j] = "published"
      /\ parent[i] = parent[j] /\ parent[i] # None => i = j

(* The heads are the published generations nothing was published upon.       *)
HeadsAreTips ==
  \A i \in Generations :
    (\E t \in TripIds : head[t] = i) <=>
      /\ outcome[i] = "published"
      /\ ~ \E j \in Generations : outcome[j] = "published" /\ parent[j] = i

(* The two together: the history of every trip is one chain, and its head is *)
(* the end of it.                                                            *)
HistoryIsAChain == NoFork /\ HeadsAreTips
===============================================================================
