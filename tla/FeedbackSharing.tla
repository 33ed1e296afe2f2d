---------------------------- MODULE FeedbackSharing ----------------------------
(***************************************************************************)
(* Feedback on a revision or one of its nodes, and shares of a revision.   *)
(* A client sends one request under an intent of its choice and may send   *)
(* it again; the server looks for the intent, then (feedback) for the      *)
(* target, and inserts; unique keys decide between requests that overlap.  *)
(* A trip belongs to one principal; what it shows never changes, so a      *)
(* share's snapshot is a function of its revision.                         *)
(***************************************************************************)
EXTENDS Naturals, FiniteSets

CONSTANTS Clients, Principals, FeedbackIntents, Subjects, OwnerOf, Ratings, RowIds, NoRow

VARIABLES
  asks,      (* what each client sends                                      *)
  stage,     (* of its current attempt: new, found_nothing, answered        *)
  answer,    (* the answer to its last attempt                              *)
  rows,      (* feedbacks and plan_shares, by id                            *)
  drafts     (* drafts copied from shares: [owner, subject]                 *)

sharingVars == <<asks, stage, answer, rows, drafts>>

Kinds == {"feedback", "share"}
Asked == [kind : Kinds, principal : Principals, intent : FeedbackIntents,
        subject : Subjects, rating : Ratings]

ASSUME SharingAssumption ==
  /\ OwnerOf \in [Subjects -> Principals]   \* who planned the revision
  /\ NoRow \notin RowIds \cup Asked

Unknown == [kind |-> "none", row |-> NoRow]
Answers == [kind : {"created", "reused", "deduplicated"}, row : RowIds]
             \cup [kind : {"none", "not_found", "conflict"}, row : {NoRow}]

SharingTypeOK ==
  /\ asks \in [Clients -> Asked]
  /\ stage \in [Clients -> {"new", "found_nothing", "answered"}]
  /\ answer \in [Clients -> Answers]
  /\ rows \in [RowIds -> Asked \cup {NoRow}]
  /\ drafts \subseteq [owner : Principals, subject : Subjects]

SharingInit ==
  /\ asks \in [Clients -> Asked]
  /\ stage = [c \in Clients |-> "new"]
  /\ answer = [c \in Clients |-> Unknown]
  /\ rows = [r \in RowIds |-> NoRow]
  /\ drafts = {}

StoredRows(kind) == {r \in RowIds : rows[r] # NoRow /\ rows[r].kind = kind}
ByIntent(ask) == {r \in StoredRows(ask.kind) : rows[r].intent = ask.intent}
ByTarget(ask) ==
  {r \in StoredRows("feedback") : rows[r].subject = ask.subject
                                /\ rows[r].principal = ask.principal}

Answer(c, kind, row) ==
  /\ answer' = [answer EXCEPT ![c] = [kind |-> kind, row |-> row]]
  /\ stage' = [stage EXCEPT ![c] = "answered"]

SamePayload(row, ask) == row = ask

(* An intent seen before: of somebody else, for something else, or a retry.  *)
Replay(c, r) ==
  /\ stage[c] = "new"
  /\ r \in ByIntent(asks[c])
  /\ IF rows[r].principal # asks[c].principal THEN Answer(c, "not_found", NoRow)
     ELSE IF SamePayload(rows[r], asks[c]) THEN Answer(c, "reused", r)
     ELSE Answer(c, "conflict", NoRow)
  /\ UNCHANGED <<asks, rows, drafts>>

Owns(ask) == OwnerOf[ask.subject] = ask.principal

Targets(ask) == IF ask.kind = "feedback" THEN ByTarget(ask) ELSE {}

(* A new intent: on a trip of the principal's own, and the first on its      *)
(* target; otherwise the feedback that is there is the answer.               *)
Look(c) ==
  /\ stage[c] = "new"
  /\ ByIntent(asks[c]) = {}
  /\ IF ~ Owns(asks[c]) THEN Answer(c, "not_found", NoRow)
     ELSE IF Targets(asks[c]) # {}
     THEN \E r \in Targets(asks[c]) : Answer(c, "deduplicated", r)
     ELSE stage' = [stage EXCEPT ![c] = "found_nothing"] /\ UNCHANGED answer
  /\ UNCHANGED <<asks, rows, drafts>>

NoKey(ask) == TRUE                      \* mutant: the table has no unique keys
KeysFree(ask) == ByIntent(ask) = {} /\ Targets(ask) = {}

(* The insert: IntegrityError on either key is answered as an intent conflict. *)
Insert(c, r) ==
  /\ stage[c] = "found_nothing"
  /\ IF KeysFree(asks[c])
     THEN /\ rows[r] = NoRow
          /\ rows' = [rows EXCEPT ![r] = asks[c]]
          /\ Answer(c, "created", r)
     ELSE Answer(c, "conflict", NoRow) /\ UNCHANGED rows
  /\ UNCHANGED <<asks, drafts>>

(* The client did not get the answer, or the server died: it sends again.    *)
SendAgain(c) ==
  /\ stage[c] # "new"
  /\ stage' = [stage EXCEPT ![c] = "new"]
  /\ UNCHANGED <<asks, answer, rows, drafts>>

(* CopyPlanShareToDraft: anyone who holds the token of a share.              *)
Copy(p, r) ==
  /\ r \in StoredRows("share")
  /\ drafts' = drafts \cup {[owner |-> p, subject |-> rows[r].subject]}
  /\ UNCHANGED <<asks, stage, answer, rows>>

SharingNext ==
  \/ \E c \in Clients :
       \/ \E r \in RowIds : Replay(c, r) \/ Insert(c, r)
       \/ Look(c) \/ SendAgain(c)
  \/ \E p \in Principals, r \in RowIds : Copy(p, r)

SharingSpec == SharingInit /\ [][SharingNext]_sharingVars

-------------------------------------------------------------------------------
Named(c) == answer[c].kind \in {"created", "reused", "deduplicated"}

(* Attempts with one intent and one payload that were answered with a row were *)
(* answered with the same row, also when they overlapped; and a conflict is    *)
(* answered only when a row is stored under the intent or on the target.       *)
RetriesAgree ==
  \A c \in Clients :
    /\ Named(c) =>
         \A d \in Clients : Named(d) /\ asks[c] = asks[d] => answer[c].row = answer[d].row
    /\ answer[c].kind = "conflict" => ByIntent(asks[c]) \cup Targets(asks[c]) # {}

(* What the API contract promises of an intent that is sent again with the same *)
(* content: the original, never a conflict.  The code refuses the second of two *)
(* that overlapped; sent once more it is answered with the original.            *)
RepeatsGetTheOriginal ==
  \A c \in Clients : answer[c].kind = "conflict" =>
    \A r \in ByIntent(asks[c]) : ~ SamePayload(rows[r], asks[c])

(* Nobody reads, rates or shares a trip of somebody else, except through a   *)
(* share its owner made: every row is its owner's, every answer names a row  *)
(* of the one who asked, and what was copied had been shared.                *)
OnlyOwners ==
  /\ \A r \in RowIds : rows[r] # NoRow => OwnerOf[rows[r].subject] = rows[r].principal
  /\ \A c \in Clients : Named(c) => rows[answer[c].row].principal = asks[c].principal
  /\ \A d \in drafts : \E r \in StoredRows("share") : rows[r].subject = d.subject

(* One feedback per principal and target.                                    *)
OneFeedbackPerTarget ==
  \A r, q \in StoredRows("feedback") :
    rows[r].principal = rows[q].principal /\ rows[r].subject = rows[q].subject => r = q

(* Sent twice, also at the same time, is stored once; who gets a row gets the  *)
(* same; and it is its owner's.                                               *)
SharingIsSound == RetriesAgree /\ OneFeedbackPerTarget /\ OnlyOwners
===============================================================================
