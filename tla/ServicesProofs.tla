------------------------------ MODULE ServicesProofs ----------------------------
(***************************************************************************)
(* Four small parts of the backend, for any number of clients, workers and *)
(* generations: a trip's revisions never fork, feedback and shares stay    *)
(* sound, a provider's limits are kept by all processes together, and a    *)
(* request with a session of its own is stored whole.                      *)
(***************************************************************************)
EXTENDS RevisionChain, FeedbackSharing, ProviderGovernor, UnitOfWork, FiniteSetTheorems, TLAPS

-------------------------------------------------------------------------------
(* RevisionChain.                                                            *)

IsPublished(i) == outcome[i] = "published"

(* A head is a generation nobody has published upon, and no two trips share  *)
(* one; what has been asked for stands on something published.               *)
ChainInv ==
  /\ TypeOK
  /\ NoFork
  /\ HeadsAreTips
  /\ \A t, u \in TripIds : head[t] = head[u] /\ head[t] # None => t = u
  /\ \A i \in Generations : parent[i] # None => outcome[i] # "absent" /\ IsPublished(parent[i])

(* Nothing is published at first.                                            *)
LEMMA ChainInit == Init => ChainInv
  BY NoneIsNoGeneration DEF Init, ChainInv, TypeOK, NoFork, HeadsAreTips, IsPublished

(* Asking for a generation adds nothing published.                           *)
LEMMA AskKeeps ==
  ASSUME ChainInv, NEW i \in Generations, NEW j \in Generations \cup {None}, Ask(i, j)
  PROVE  ChainInv'
<1> USE DEF ChainInv, TypeOK, IsPublished
<1>1. /\ \A k \in Generations : IsPublished(k)' <=> IsPublished(k)
      /\ \A k \in Generations : IsPublished(k) => parent'[k] = parent[k]
      /\ UNCHANGED head
  BY DEF Ask
<1>2. TypeOK'
  BY DEF Ask
<1>3. NoFork' /\ HeadsAreTips'
  BY <1>1 DEF NoFork, HeadsAreTips
<1>4. \A k \in Generations : parent'[k] # None => outcome'[k] # "absent" /\ IsPublished(parent[k])' 
  BY DEF Ask
<1> QED
  BY <1>1, <1>2, <1>3, <1>4

(* Nor does a rejection.                                                     *)
LEMMA RejectKeeps ==
  ASSUME ChainInv, NEW i \in Generations, Reject(i)
  PROVE  ChainInv'
  BY DEF ChainInv, TypeOK, NoFork, HeadsAreTips, IsPublished, Reject

(* A publication replaces one head by a generation made from it.             *)
LEMMA PublishKeeps ==
  ASSUME ChainInv, NEW i \in Generations, NEW t \in TripIds, Publish(i, t)
  PROVE  ChainInv'
<1> USE DEF ChainInv, TypeOK, IsPublished
<1>1. TypeOK'
  BY DEF Publish
<1>2. /\ ~IsPublished(i) /\ head[t] = parent[i] /\ UNCHANGED parent
      /\ \A j \in Generations : IsPublished(j)' <=> IsPublished(j) \/ j = i
      /\ head'[t] = i /\ \A u \in TripIds : u # t => head'[u] = head[u]
  BY DEF Publish
<1>3. \A j \in Generations : parent[j] # i
  BY <1>2, NoneIsNoGeneration
<1>4. \A u \in TripIds : head[u] # i
  BY <1>2 DEF HeadsAreTips
<1>5. NoFork'
  BY <1>2 DEF NoFork, HeadsAreTips
<1>6. \A u, v \in TripIds : head'[u] = head'[v] /\ head'[u] # None => u = v
  BY <1>2, <1>4
<1>7. HeadsAreTips'
  BY <1>2, <1>3, <1>4, NoneIsNoGeneration DEF HeadsAreTips
<1>8. \A k \in Generations : parent'[k] # None => outcome'[k] # "absent" /\ outcome'[parent'[k]] = "published"
  BY <1>2 DEF Publish
<1> QED
  BY <1>1, <1>5, <1>6, <1>7, <1>8

(* The invariant of the chain is kept by every step.                         *)
LEMMA ChainNext == ChainInv /\ [Next]_vars => ChainInv'
<1> SUFFICES ASSUME ChainInv, [Next]_vars
             PROVE  ChainInv'
  OBVIOUS
<1>1. CASE UNCHANGED vars
  BY <1>1 DEF vars, ChainInv, TypeOK, NoFork, HeadsAreTips, IsPublished
<1> QED
  BY <1>1, AskKeeps, RejectKeeps, PublishKeeps DEF Next

(* Generations, parents and heads keep their types.                          *)
THEOREM ChainTypes == Spec => []TypeOK
<1>1. ChainInv => TypeOK
  BY DEF ChainInv
<1> QED
  BY <1>1, ChainInit, ChainNext, PTL DEF Spec

(* No two published generations have the same parent.                        *)
THEOREM ChainsDoNotFork == Spec => []NoFork
<1>1. ChainInv => NoFork
  BY DEF ChainInv
<1> QED
  BY <1>1, ChainInit, ChainNext, PTL DEF Spec

(* The head of a trip is its one published generation without a successor.   *)
THEOREM HeadsOfChains == Spec => []HeadsAreTips
<1>1. ChainInv => HeadsAreTips
  BY DEF ChainInv
<1> QED
  BY <1>1, ChainInit, ChainNext, PTL DEF Spec

(* So the history of every trip is one chain that ends in its head, for any  *)
(* generations and trips: what RevisionChain.HistoryIsAChain is run for.     *)
THEOREM HistoriesAreChains == Spec => []HistoryIsAChain
<1>1. ChainInv => HistoryIsAChain
  BY DEF ChainInv, HistoryIsAChain
<1> QED
  BY <1>1, ChainInit, ChainNext, PTL DEF Spec

-------------------------------------------------------------------------------
(* FeedbackSharing.                                                          *)

StoredIds == {r \in RowIds : rows[r] # NoRow}

(* Every row is its owner's, and so is an insert that is about to happen.     *)
RowsAreOwn ==
  /\ \A r \in StoredIds : Owns(rows[r])
  /\ \A c \in Clients : stage[c] = "found_nothing" => Owns(asks[c])

(* The two unique keys.                                                      *)
IntentIsKey ==
  \A r, q \in StoredIds :
    rows[r].kind = rows[q].kind /\ rows[r].intent = rows[q].intent => r = q

(* A row that was named in an answer is stored; it is the very row that was   *)
(* asked for, or, for feedback, the one of the same principal on the target.  *)
Fits(row, ask) ==
  /\ row.kind = ask.kind /\ row.principal = ask.principal /\ row.subject = ask.subject
  /\ ask.kind = "share" => row = ask
AnswersFit ==
  \A c \in Clients : Named(c) =>
    answer[c].row \in StoredIds /\ Fits(rows[answer[c].row], asks[c])

(* Whoever was refused was refused for a row that is stored.                   *)
Taken(ask) == ByIntent(ask) \cup Targets(ask) # {}
ConflictsFit == \A c \in Clients : answer[c].kind = "conflict" => Taken(asks[c])

CopiesWereShared == \A d \in drafts : \E r \in StoredRows("share") : rows[r].subject = d.subject

SharingInv ==
  /\ SharingTypeOK /\ RowsAreOwn /\ IntentIsKey /\ OneFeedbackPerTarget
  /\ AnswersFit /\ ConflictsFit /\ CopiesWereShared

-------------------------------------------------------------------------------
LEMMA SharingBegins == SharingInit => SharingInv
<1> SUFFICES ASSUME SharingInit PROVE SharingInv
  OBVIOUS
<1> USE DEF SharingInit
<1>1. SharingTypeOK
  BY DEF SharingTypeOK, Unknown, Answers
<1>2. StoredIds = {} /\ StoredRows("feedback") = {}
  BY DEF StoredIds, StoredRows
<1>3. \A c \in Clients : ~ Named(c) /\ answer[c].kind # "conflict" /\ stage[c] = "new"
  BY DEF Named, Unknown
<1> QED
  BY <1>1, <1>2, <1>3
     DEF SharingInv, RowsAreOwn, IntentIsKey, OneFeedbackPerTarget, AnswersFit, ConflictsFit,
         CopiesWereShared

(* Rows are not removed: what is taken stays taken.                            *)
LEMMA TakenStays ==
  ASSUME NEW ask, \A r \in RowIds : rows[r] # NoRow => rows'[r] = rows[r], Taken(ask)
  PROVE  Taken(ask)'
  BY DEF Taken, ByIntent, Targets, ByTarget, StoredRows

(* An answer that leaves the rows alone and fits.                             *)
LEMMA Answered ==
  ASSUME SharingInv, NEW c \in Clients, NEW kind, NEW r \in RowIds \cup {NoRow},
         Answer(c, kind, r), [kind |-> kind, row |-> r] \in Answers,
         UNCHANGED <<asks, rows, drafts>>,
         kind \in {"created", "reused", "deduplicated"} =>
           r \in StoredIds /\ Fits(rows[r], asks[c]),
         kind = "conflict" => Taken(asks[c])
  PROVE  SharingInv'
<1> USE DEF SharingInv, SharingTypeOK
<1>1. \A d \in Clients :
        /\ answer'[d] = IF d = c THEN [kind |-> kind, row |-> r] ELSE answer[d]
        /\ stage'[d] = IF d = c THEN "answered" ELSE stage[d]
  BY DEF Answer
<1>2. SharingTypeOK'
  BY DEF Answer
<1>3. StoredIds' = StoredIds /\ StoredRows("feedback")' = StoredRows("feedback")
      /\ StoredRows("share")' = StoredRows("share")
  BY DEF StoredIds, StoredRows
<1>4. RowsAreOwn'
  BY <1>1, <1>3 DEF RowsAreOwn, Owns
<1>5. IntentIsKey' /\ OneFeedbackPerTarget' /\ CopiesWereShared'
  BY <1>3 DEF IntentIsKey, OneFeedbackPerTarget, CopiesWereShared
<1>6. AnswersFit'
  <2> SUFFICES ASSUME NEW d \in Clients, Named(d)'
               PROVE  answer'[d].row \in StoredIds /\ Fits(rows[answer'[d].row], asks[d])
    BY <1>3 DEF AnswersFit, Fits
  <2>1. CASE d = c
    BY <1>1, <2>1 DEF Named
  <2>2. CASE d # c
    BY <1>1, <2>2 DEF Named, AnswersFit
  <2> QED
    BY <2>1, <2>2
<1>7. ConflictsFit'
  <2>1. \A d \in Clients : Taken(asks[d]) => Taken(asks[d])'
    BY TakenStays
  <2> QED
    BY <1>1, <2>1 DEF ConflictsFit
<1> QED
  BY <1>2, <1>4, <1>5, <1>6, <1>7

LEMMA Nothing ==
  ASSUME NEW kind \in {"none", "not_found", "conflict"}
  PROVE  [kind |-> kind, row |-> NoRow] \in Answers
         /\ kind \notin {"created", "reused", "deduplicated"}
  BY DEF Answers

LEMMA Something ==
  ASSUME NEW kind \in {"created", "reused", "deduplicated"}, NEW r \in RowIds
  PROVE  [kind |-> kind, row |-> r] \in Answers
  BY DEF Answers

(* An intent seen before names its row only to the one who asks for the same.  *)
LEMMA Replayed ==
  ASSUME SharingInv, NEW c \in Clients, NEW r \in RowIds, Replay(c, r)
  PROVE  SharingInv'
<1>1. r \in StoredIds /\ UNCHANGED <<asks, rows, drafts>>
  BY DEF Replay, ByIntent, StoredRows, StoredIds
<1>2. \/ Answer(c, "not_found", NoRow) \/ Answer(c, "conflict", NoRow)
      \/ rows[r] = asks[c] /\ Answer(c, "reused", r)
  BY DEF Replay, SamePayload
<1>3. CASE Answer(c, "not_found", NoRow)
  BY <1>1, <1>3, Nothing, Answered
<1>4. CASE Answer(c, "conflict", NoRow)
  <2>1. Taken(asks[c])
    BY DEF Replay, Taken
  <2> QED
    BY <1>1, <1>4, <2>1, Nothing, Answered
<1>5. CASE rows[r] = asks[c] /\ Answer(c, "reused", r)
  BY <1>1, <1>5, Something, Answered DEF Fits
<1> QED
  BY <1>2, <1>3, <1>4, <1>5

(* A new intent names the feedback that is on its target.                     *)
LEMMA Looked ==
  ASSUME SharingInv, NEW c \in Clients, Look(c)
  PROVE  SharingInv'
<1> USE DEF SharingInv, SharingTypeOK
<1>1. UNCHANGED <<asks, rows, drafts>>
  BY DEF Look
<1>2. CASE Answer(c, "not_found", NoRow)
  BY <1>1, <1>2, Nothing, Answered
<1>3. ASSUME NEW r \in Targets(asks[c]), Answer(c, "deduplicated", r) PROVE SharingInv'
  <2>1. asks[c].kind = "feedback" /\ r \in ByTarget(asks[c])
    BY <1>3 DEF Targets
  <2>2. r \in StoredIds /\ Fits(rows[r], asks[c]) /\ r \in RowIds
    BY <2>1 DEF ByTarget, StoredRows, StoredIds, Fits
  <2> QED
    BY <1>1, <1>3, <2>2, Something, Answered
<1>4. CASE /\ Owns(asks[c]) /\ UNCHANGED answer
           /\ stage' = [stage EXCEPT ![c] = "found_nothing"]
  <2>1. SharingTypeOK'
    BY <1>1, <1>4
  <2>2. RowsAreOwn'
    BY <1>1, <1>4 DEF RowsAreOwn, StoredIds, Owns
  <2>3. IntentIsKey' /\ OneFeedbackPerTarget' /\ CopiesWereShared' /\ AnswersFit'
    BY <1>1, <1>4 DEF IntentIsKey, OneFeedbackPerTarget, CopiesWereShared, AnswersFit, Named,
       StoredIds, StoredRows, Fits
  <2>4. ConflictsFit'
    <3>1. \A d \in Clients : Taken(asks[d]) => Taken(asks[d])'
      BY <1>1, TakenStays
    <3> QED
      BY <1>1, <1>4, <3>1 DEF ConflictsFit
  <2> QED
    BY <2>1, <2>2, <2>3, <2>4
<1> QED
  BY <1>2, <1>3, <1>4 DEF Look

(* The insert finds both keys free.                                           *)
LEMMA Inserted ==
  ASSUME SharingInv, NEW c \in Clients, NEW r \in RowIds, Insert(c, r)
  PROVE  SharingInv'
<1> USE SharingAssumption DEF SharingInv, SharingTypeOK
<1>1. stage[c] = "found_nothing" /\ UNCHANGED <<asks, drafts>>
  BY DEF Insert
<1>2. CASE ~ KeysFree(asks[c])
  <2>1. Answer(c, "conflict", NoRow) /\ UNCHANGED rows
    BY <1>2 DEF Insert
  <2>2. Taken(asks[c])
    BY <1>2 DEF KeysFree, Taken
  <2> QED
    BY <1>1, <2>1, <2>2, Nothing, Answered
<1>3. CASE KeysFree(asks[c])
  <2>1. /\ rows[r] = NoRow /\ rows' = [rows EXCEPT ![r] = asks[c]]
        /\ Answer(c, "created", r)
    BY <1>3 DEF Insert
  <2>2. asks[c] \in Asked /\ asks[c] # NoRow
    OBVIOUS
  <2>3. \A q \in RowIds : rows'[q] = IF q = r THEN asks[c] ELSE rows[q]
    BY <2>1
  <2>4. StoredIds' = StoredIds \cup {r} /\ r \notin StoredIds
    BY <2>1, <2>2, <2>3 DEF StoredIds
  <2>5. \A d \in Clients :
          /\ answer'[d] = IF d = c THEN [kind |-> "created", row |-> r] ELSE answer[d]
          /\ stage'[d] = IF d = c THEN "answered" ELSE stage[d]
    BY <2>1 DEF Answer
  <2>6. SharingTypeOK'
    <3>1. answer' \in [Clients -> Answers]
      BY <2>1, Something DEF Answer
    <3>2. stage' \in [Clients -> {"new", "found_nothing", "answered"}]
      BY <2>1 DEF Answer
    <3> QED
      BY <1>1, <2>1, <2>2, <3>1, <3>2
  <2>7. RowsAreOwn'
    BY <1>1, <2>3, <2>4, <2>5 DEF RowsAreOwn, Owns, StoredIds
  <2>8. \A q \in StoredIds : ~ (rows[q].kind = asks[c].kind /\ rows[q].intent = asks[c].intent)
    BY <1>3 DEF KeysFree, ByIntent, StoredRows, StoredIds
  <2>9. IntentIsKey'
    BY <2>3, <2>4, <2>8 DEF IntentIsKey, StoredIds
  <2>10. asks[c].kind = "feedback" =>
           \A q \in StoredRows("feedback") :
             ~ (rows[q].principal = asks[c].principal /\ rows[q].subject = asks[c].subject)
    BY <1>3 DEF KeysFree, Targets, ByTarget
  <2>11. OneFeedbackPerTarget'
    <3> SUFFICES ASSUME NEW q \in StoredRows("feedback")', NEW p \in StoredRows("feedback")',
                        rows'[q].principal = rows'[p].principal,
                        rows'[q].subject = rows'[p].subject
                 PROVE  q = p
      BY DEF OneFeedbackPerTarget
    <3>1. \A x \in {q, p} : x # r => x \in StoredRows("feedback") /\ rows'[x] = rows[x]
      BY <2>3 DEF StoredRows
    <3>2. r \in {q, p} => asks[c].kind = "feedback" /\ rows'[r] = asks[c]
      BY <2>3 DEF StoredRows
    <3>3. CASE q # r /\ p # r
      BY <3>1, <3>3 DEF OneFeedbackPerTarget
    <3>4. CASE q = r \/ p = r
      BY <3>1, <3>2, <3>4, <2>10
    <3> QED
      BY <3>3, <3>4
  <2>12. AnswersFit'
    <3> SUFFICES ASSUME NEW d \in Clients, Named(d)'
                 PROVE  answer'[d].row \in StoredIds' /\ Fits(rows'[answer'[d].row], asks[d])
      BY <1>1 DEF AnswersFit, Fits
    <3>1. CASE d = c
      BY <2>3, <2>4, <2>5, <3>1 DEF Fits
    <3>2. CASE d # c
      <4>1. Named(d) /\ answer'[d] = answer[d]
        BY <2>5, <3>2 DEF Named
      <4>2. answer[d].row \in StoredIds /\ Fits(rows[answer[d].row], asks[d])
        BY <4>1 DEF AnswersFit
      <4>3. rows'[answer[d].row] = rows[answer[d].row]
        BY <2>3, <2>4, <4>2 DEF StoredIds
      <4> QED
        BY <4>1, <4>2, <4>3, <2>4
    <3> QED
      BY <3>1, <3>2
  <2>13. CopiesWereShared'
    BY <1>1, <2>1, <2>3 DEF CopiesWereShared, StoredRows
  <2>14. ConflictsFit'
    <3>1. \A d \in Clients : Taken(asks[d]) => Taken(asks[d])'
      BY <1>1, <2>1, <2>3, TakenStays
    <3>2. \A d \in Clients : answer'[d].kind = "conflict" => answer[d].kind = "conflict"
      BY <2>5
    <3> QED
      BY <1>1, <3>1, <3>2 DEF ConflictsFit
  <2> QED
    BY <2>6, <2>7, <2>9, <2>11, <2>12, <2>13, <2>14
<1> QED
  BY <1>2, <1>3

LEMMA SharingPreserved == SharingInv /\ [SharingNext]_sharingVars => SharingInv'
<1> SUFFICES ASSUME SharingInv, [SharingNext]_sharingVars PROVE SharingInv'
  OBVIOUS
<1>1. ASSUME NEW c \in Clients, NEW r \in RowIds, Replay(c, r) PROVE SharingInv'
  BY <1>1, Replayed
<1>2. ASSUME NEW c \in Clients, NEW r \in RowIds, Insert(c, r) PROVE SharingInv'
  BY <1>2, Inserted
<1>3. ASSUME NEW c \in Clients, Look(c) PROVE SharingInv'
  BY <1>3, Looked
<1>4. ASSUME NEW c \in Clients, SendAgain(c) PROVE SharingInv'
  BY <1>4 DEF SendAgain, SharingInv, SharingTypeOK, RowsAreOwn, IntentIsKey,
     OneFeedbackPerTarget, AnswersFit, ConflictsFit, Taken, ByIntent, Targets, ByTarget,
     CopiesWereShared, Named, StoredIds, StoredRows, Fits, Owns
<1>5. ASSUME NEW p \in Principals, NEW r \in RowIds, Copy(p, r) PROVE SharingInv'
  <2>1. r \in StoredRows("share") /\ rows[r] \in Asked /\ UNCHANGED <<asks, stage, answer, rows>>
        /\ drafts' = drafts \cup {[owner |-> p, subject |-> rows[r].subject]}
    BY <1>5 DEF Copy, StoredRows, SharingInv, SharingTypeOK
  <2>2. CopiesWereShared'
    BY <2>1 DEF CopiesWereShared, StoredRows, SharingInv
  <2>3. SharingTypeOK'
    BY <2>1 DEF SharingTypeOK, SharingInv, Asked
  <2> QED
    BY <2>1, <2>2, <2>3 DEF SharingInv, RowsAreOwn, IntentIsKey, OneFeedbackPerTarget,
       AnswersFit, ConflictsFit, Taken, ByIntent, Targets, ByTarget, Named, StoredIds,
       StoredRows, Fits, Owns
<1>6. CASE UNCHANGED sharingVars
  BY <1>6 DEF sharingVars, SharingInv, SharingTypeOK, RowsAreOwn, IntentIsKey,
     OneFeedbackPerTarget, AnswersFit, ConflictsFit, Taken, ByIntent, Targets, ByTarget,
     CopiesWereShared, Named, StoredIds, StoredRows, Fits, Owns
<1> QED
  BY <1>1, <1>2, <1>3, <1>4, <1>5, <1>6 DEF SharingNext

-------------------------------------------------------------------------------
(* Requests, answers, stored rows and drafts keep their types.                *)
THEOREM SharingTypes == SharingSpec => []SharingTypeOK
<1>1. SharingInv => SharingTypeOK
  BY DEF SharingInv
<1> QED
  BY <1>1, SharingBegins, SharingPreserved, PTL DEF SharingSpec

(* However often and however closely together requests are sent, a target has  *)
(* one feedback, all answers to an intent and payload that name a row name the *)
(* same, a conflict is answered only where a row is in the way, and everything *)
(* is its owner's or was shared by its owner.                                 *)
THEOREM SharingHolds == SharingSpec => []SharingIsSound
<1>1. ASSUME SharingInv PROVE SharingIsSound
  <2> USE <1>1 DEF SharingInv
  <2>1. RetriesAgree
    <3> SUFFICES ASSUME NEW c \in Clients, NEW d \in Clients, Named(c), Named(d),
                        asks[c] = asks[d]
                 PROVE  answer[c].row = answer[d].row
      BY DEF RetriesAgree, ConflictsFit, Taken
    <3> DEFINE r == answer[c].row
               q == answer[d].row
    <3>1. r \in StoredIds /\ q \in StoredIds /\ Fits(rows[r], asks[c]) /\ Fits(rows[q], asks[c])
      BY DEF AnswersFit
    <3>2. CASE asks[c].kind = "share"
      BY <3>1, <3>2 DEF Fits, IntentIsKey
    <3>3. CASE asks[c].kind = "feedback"
      BY <3>1, <3>3 DEF Fits, OneFeedbackPerTarget, StoredIds, StoredRows
    <3> QED
      BY <3>2, <3>3 DEF SharingTypeOK, Asked, Kinds
  <2>2. OnlyOwners
    BY DEF OnlyOwners, RowsAreOwn, StoredIds, Owns, AnswersFit, Fits, CopiesWereShared
  <2> QED
    BY <2>1, <2>2 DEF SharingIsSound
<1> QED
  BY <1>1, SharingBegins, SharingPreserved, PTL DEF SharingSpec

-------------------------------------------------------------------------------
(* ProviderGovernor.                                                         *)

(* Records and calls, with their numbers unbounded.                          *)
CallFits(c) ==
  /\ c \in [at : {"idle", "timed", "loaded", "sent"}, op : Operations, now : Times,
            seen : AnyUsage \cup {Nil}]
  /\ c.at = "loaded" => c.seen \in AnyUsage
GovTypes ==
  /\ usage \in AnyUsage \cup {Nil}
  /\ call \in [Workers -> [at : {"idle", "timed", "loaded", "sent"}, op : Operations, now : Times,
                           seen : AnyUsage \cup {Nil}]]
  /\ \A w \in Workers : CallFits(call[w])
  /\ sent \in [Times -> Nat]
  /\ spent \in [DayNumbers -> Nat]
  /\ clock \in Times

(* Who may still write has read the record as it is: it holds the lock, or    *)
(* its watch has not been broken.                                            *)
ReadIsFresh ==
  \A w \in Workers : call[w].at = "loaded" =>
    /\ backend = "json" => holder = w
    /\ Unchanged(w) => call[w].seen = ForToday(usage, call[w].now)

(* The record remembers the last request, and counts those of its day.        *)
LastIsKnown ==
  \A t \in Times : sent[t] > 0 => usage # Nil /\ usage.last # Nil /\ t <= usage.last
DayIsCounted ==
  /\ usage # Nil => usage.requests <= Budget
  /\ ~ overtaken =>
       \A d \in DayNumbers :
         /\ usage = Nil => spent[d] = 0
         /\ usage # Nil /\ d = usage.day => spent[d] <= usage.requests
         /\ usage # Nil /\ d > usage.day => spent[d] = 0

GovernorInv ==
  GovTypes /\ ReadIsFresh /\ LastIsKnown /\ DayIsCounted /\ RequestsAreSpaced /\ BudgetIsKept

LEMMA DaysOfTimes ==
  ASSUME NEW t \in Times
  PROVE  DayOf(t) \in DayNumbers /\ DayOf(t) \in Nat
<1>1. t \in Nat /\ MaxTime \in Nat /\ t <= MaxTime /\ DayLength \in Nat /\ DayLength > 0
  BY GovernorAssumption DEF Times
<1>2. PICK q \in Nat : q = t \div DayLength
  BY <1>1
<1>3. PICK m \in Nat : m = MaxTime \div DayLength
  BY <1>1
<1>4. q * DayLength <= t /\ t < (q + 1) * DayLength
  BY <1>1, <1>2
<1>5. m * DayLength <= MaxTime /\ MaxTime < (m + 1) * DayLength
  BY <1>1, <1>3
<1>6. q * DayLength < (m + 1) * DayLength /\ 0 < (q + 1) * DayLength
  BY <1>1, <1>4, <1>5
<1>7. q < m + 1 /\ 0 < q + 1
  BY <1>1, <1>6
<1> QED
  BY <1>2, <1>3, <1>7 DEF DayOf, DayNumbers

LEMMA GovernorBegins == GovernorInit => GovernorInv
<1> SUFFICES ASSUME GovernorInit PROVE GovernorInv
  OBVIOUS
<1>1. /\ usage = Nil /\ call = [w \in Workers |-> NoCall] /\ clock = 0
      /\ sent = [t \in Times |-> 0] /\ spent = [d \in DayNumbers |-> 0]
  BY DEF GovernorInit
<1>2. NoCall \in [at : {"idle", "timed", "loaded", "sent"}, op : Operations, now : Times,
                  seen : AnyUsage \cup {Nil}] /\ NoCall.at = "idle"
  BY GovernorAssumption DEF NoCall, Operations, Times
<1>3. 0 \in Times
  BY GovernorAssumption DEF Times
<1>4. \A w \in Workers : call[w] = NoCall
  BY <1>1
<1>5. GovTypes
  BY <1>1, <1>2, <1>3, <1>4 DEF GovTypes, CallFits
<1>6. ReadIsFresh
  BY <1>2, <1>4 DEF ReadIsFresh
<1>7. LastIsKnown /\ DayIsCounted /\ RequestsAreSpaced /\ BudgetIsKept
  <2>1. (\A t \in Times : sent[t] = 0) /\ \A d \in DayNumbers : spent[d] = 0
    BY <1>1
  <2>2. Budget \in Nat
    BY GovernorAssumption
  <2> QED
    BY <1>1, <2>1, <2>2 DEF LastIsKnown, DayIsCounted, RequestsAreSpaced, BudgetIsKept
<1> QED
  BY <1>5, <1>6, <1>7 DEF GovernorInv

(* A record of today: a new day starts with no requests, and remembers the    *)
(* last one and the circuit.                                                 *)
LEMMA RecordOfToday ==
  ASSUME NEW u \in AnyUsage \cup {Nil}, NEW t \in Times
  PROVE  /\ ForToday(u, t) \in AnyUsage
         /\ ForToday(u, t).day = DayOf(t)
         /\ u = Nil => ForToday(u, t).last = Nil /\ ForToday(u, t).requests = 0
         /\ u # Nil =>
              /\ ForToday(u, t).last = u.last
              /\ ForToday(u, t).until = u.until
              /\ u.day = DayOf(t) => ForToday(u, t).requests = u.requests
              /\ u.day # DayOf(t) => ForToday(u, t).requests = 0
<1>1. DayOf(t) \in Nat
  BY DaysOfTimes
<1>2. CASE u = Nil
  BY <1>1, <1>2 DEF ForToday, AnyUsage
<1>3. CASE u # Nil /\ u.day = DayOf(t)
  BY <1>3 DEF ForToday
<1>4. CASE u # Nil /\ u.day # DayOf(t)
  BY <1>1, <1>4 DEF ForToday, AnyUsage
<1> QED
  BY <1>2, <1>3, <1>4

LEMMA RecordAfterAnswer ==
  ASSUME NEW u \in AnyUsage, NEW failures \in Nat, NEW until \in Nat \cup {Nil}
  PROVE  LET new == [u EXCEPT !.failures = failures, !.until = until] IN
         new \in AnyUsage /\ new.day = u.day /\ new.requests = u.requests /\ new.last = u.last
  BY DEF AnyUsage

LEMMA RecordAfterRequest ==
  ASSUME NEW u \in AnyUsage, NEW t \in Nat
  PROVE  LET new == Counted(u, t) IN
         new \in AnyUsage /\ new.day = u.day /\ new.requests = u.requests + 1 /\ new.last = t
<1>1. Lapsed(u) \in AnyUsage /\ Lapsed(u).day = u.day /\ Lapsed(u).requests = u.requests
  BY DEF Lapsed, AnyUsage
<1>2. ASSUME NEW v \in AnyUsage, NEW n \in Nat
      PROVE  LET new == [v EXCEPT !.requests = n, !.last = t] IN
             new \in AnyUsage /\ new.day = v.day /\ new.requests = n /\ new.last = t
  BY DEF AnyUsage
<1>3. Lapsed(u).requests + 1 \in Nat
  BY <1>1 DEF AnyUsage
<1>4. LET new == Counted(u, t) IN
      /\ new \in AnyUsage
      /\ new.day = Lapsed(u).day /\ new.requests = Lapsed(u).requests + 1 /\ new.last = t
  BY <1>1, <1>2, <1>3, Zenon DEF Counted
<1> QED
  BY <1>1, <1>4, Zenon

(* What a call writes: a request is counted and timed, an answer is not.      *)
LEMMA StoredRecord ==
  ASSUME NEW c, c.op \in Operations, c.now \in Times, c.seen \in AnyUsage
  PROVE  LET new == Stored(c) IN
         /\ new \in AnyUsage
         /\ new.day = c.seen.day
         /\ new.requests = IF c.op = "before" THEN c.seen.requests + 1 ELSE c.seen.requests
         /\ new.last = IF c.op = "before" THEN c.now ELSE c.seen.last
<1>1. c.now \in Nat /\ Threshold \in Nat /\ OpenFor \in Nat
  BY GovernorAssumption DEF Times
<1> DEFINE Written(new) ==
             /\ new \in AnyUsage
             /\ new.day = c.seen.day
             /\ new.requests = IF c.op = "before" THEN c.seen.requests + 1 ELSE c.seen.requests
             /\ new.last = IF c.op = "before" THEN c.now ELSE c.seen.last
<1>2. CASE c.op = "before"
  <2>1. Written(Counted(c.seen, c.now))
    BY <1>1, <1>2, RecordAfterRequest, Zenon
  <2> QED
    BY <1>2, <2>1, Zenon DEF Stored
<1>3. CASE c.op # "before"
  <2>1. ASSUME NEW failures \in Nat, NEW until \in Nat \cup {Nil}
        PROVE  Written([c.seen EXCEPT !.failures = failures, !.until = until])
    BY <1>3, RecordAfterAnswer, ZenonT(40)
  <2> HIDE DEF Written
  <2>2. CASE c.op = "success"
    <3>1. 0 \in Nat /\ Nil \in Nat \cup {Nil}
      OBVIOUS
    <3>2. Written(AfterSuccess(c.seen))
      BY <2>1, <3>1, Zenon DEF AfterSuccess
    <3>3. Stored(c) = AfterSuccess(c.seen)
      BY <2>2 DEF Stored
    <3> QED
      BY <3>2, <3>3, Zenon DEF Written
  <2>3. CASE c.op # "success"
    <3> DEFINE counted == IF c.op = "timeout" THEN c.seen.failures + 1 ELSE c.seen.failures
               until == IF c.op = "rate_limited" \/ counted >= Threshold
                        THEN c.now + OpenFor ELSE c.seen.until
    <3>1. c.seen.failures \in Nat /\ c.seen.until \in Nat \cup {Nil}
      BY DEF AnyUsage
    <3>2. counted \in Nat /\ until \in Nat \cup {Nil}
      BY <1>1, <3>1
    <3>3. Written(AfterFailure(c.seen, c.op, c.now))
      BY <2>1, <3>2, Zenon DEF AfterFailure
    <3>4. Stored(c) = AfterFailure(c.seen, c.op, c.now)
      BY <1>3, <2>3, Zenon DEF Stored
    <3> QED
      BY <3>3, <3>4, Zenon DEF Written
  <2> QED
    BY <2>2, <2>3
<1> QED
  BY <1>2, <1>3

(* Calls that do not write: one worker's call goes on, and its own hold on    *)
(* the record may.                                                           *)
LEMMA NothingStored ==
  ASSUME GovernorInv, UNCHANGED <<backend, usage, sent, spent, overtaken>>, clock' \in Times,
         NEW w \in Workers, NEW c, CallFits(c), call' = [call EXCEPT ![w] = c],
         \A v \in Workers \ {w} : holder = v => holder' = v,
         \A v \in Workers \ {w} : v \in watching' => v \in watching,
         c.at = "loaded" =>
           /\ backend = "json" => holder' = w
           /\ c.seen = ForToday(usage, c.now)
  PROVE  GovernorInv'
<1> USE DEF GovernorInv, GovTypes
<1>1. \A v \in Workers : call'[v] = IF v = w THEN c ELSE call[v]
  OBVIOUS
<1>2. GovTypes'
  <2>1. c \in [at : {"idle", "timed", "loaded", "sent"}, op : Operations, now : Times,
               seen : AnyUsage \cup {Nil}]
    BY DEF CallFits
  <2>2. \A v \in Workers : CallFits(call'[v])
    BY <1>1
  <2>3. \A v \in Workers : CallFits(call[v])'
    BY <2>2 DEF CallFits
  <2> QED
    BY <2>1, <2>3
<1>3. ReadIsFresh'
  <2> SUFFICES ASSUME NEW v \in Workers, call'[v].at = "loaded"
               PROVE  /\ backend = "json" => holder' = v
                      /\ Unchanged(v)' => call'[v].seen = ForToday(usage, call'[v].now)
    BY DEF ReadIsFresh, ForToday
  <2>1. CASE v = w
    BY <1>1, <2>1
  <2>2. CASE v # w
    BY <1>1, <2>2 DEF ReadIsFresh, Unchanged
  <2> QED
    BY <2>1, <2>2
<1>4. LastIsKnown' /\ DayIsCounted' /\ RequestsAreSpaced' /\ BudgetIsKept'
  BY DEF LastIsKnown, DayIsCounted, RequestsAreSpaced, BudgetIsKept
<1> QED
  BY <1>2, <1>3, <1>4
LEMMA OtherStepsKeep ==
  ASSUME GovernorInv, NEW w \in Workers,
         \/ \E op \in Operations : BeginCall(w, op)
         \/ Load(w) \/ Block(w) \/ Retry(w) \/ Die(w)
  PROVE  GovernorInv'
<1>1. /\ call \in [Workers -> [at : {"idle", "timed", "loaded", "sent"}, op : Operations,
                               now : Times, seen : AnyUsage \cup {Nil}]]
      /\ clock \in Times /\ clock' = clock /\ usage \in AnyUsage \cup {Nil}
  BY DEF GovernorInv, GovTypes, BeginCall, Load, Block, Retry, Die
<1>2. UNCHANGED <<backend, usage, sent, spent, overtaken>>
  BY DEF BeginCall, Load, Block, Retry, Die
<1>3. Nil \notin Workers /\ Nil \notin AnyUsage
  BY GovernorAssumption
<1>4. CallFits(NoCall) /\ NoCall.at = "idle"
  BY GovernorAssumption DEF NoCall, CallFits, Operations, Times
<1>5. ASSUME NEW op \in Operations, BeginCall(w, op)
      PROVE  GovernorInv'
  <2> DEFINE c == [NoCall EXCEPT !.at = "timed", !.op = op, !.now = clock]
  <2>1. CallFits(c) /\ c.at = "timed"
    BY <1>1 DEF NoCall, CallFits
  <2>2. call' = [call EXCEPT ![w] = c] /\ UNCHANGED <<holder, watching>>
    BY <1>5 DEF BeginCall
  <2> HIDE DEF c
  <2> QED
    BY <1>1, <1>2, <2>1, <2>2, NothingStored
<1>6. CASE Load(w)
  <2> DEFINE c == [call[w] EXCEPT !.at = "loaded", !.seen = ForToday(usage, call[w].now)]
  <2>1. ForToday(usage, call[w].now) \in AnyUsage
    BY <1>1, RecordOfToday
  <2>2. /\ CallFits(c) /\ c.at = "loaded" /\ c.now = call[w].now
        /\ c.seen = ForToday(usage, call[w].now)
    BY <1>1, <2>1 DEF CallFits
  <2>3. call' = [call EXCEPT ![w] = c]
    BY <1>1, <1>6 DEF Load
  <2>4. /\ backend = "json" => holder = Nil /\ holder' = w /\ watching' = watching
        /\ backend # "json" => watching' = watching \cup {w} /\ holder' = holder
    BY <1>6 DEF Load, LockFree
  <2> HIDE DEF c
  <2> QED
    BY <1>1, <1>2, <1>3, <2>2, <2>3, <2>4, NothingStored
<1>7. CASE Retry(w)
  <2> DEFINE c == [call[w] EXCEPT !.at = "timed", !.seen = Nil]
  <2>1. CallFits(c) /\ c.at = "timed"
    BY <1>1 DEF CallFits
  <2>2. call' = [call EXCEPT ![w] = c] /\ UNCHANGED <<holder, watching>>
    BY <1>1, <1>7 DEF Retry
  <2> HIDE DEF c
  <2> QED
    BY <1>1, <1>2, <2>1, <2>2, NothingStored
<1>8. CASE Block(w) \/ Die(w)
  <2>1. call' = [call EXCEPT ![w] = NoCall] /\ LetGo(w)
    BY <1>8 DEF Block, Die
  <2> QED
    BY <1>1, <1>2, <1>4, <2>1, NothingStored DEF LetGo
<1> QED
  BY <1>5, <1>6, <1>7, <1>8

(* What a writer has in hand: the record as it is, brought to its day.        *)
LEMMA StoreReadsTheRecord ==
  ASSUME GovernorInv, NEW w \in Workers, Store(w)
  PROVE  /\ call[w].now \in Times /\ call[w].op \in Operations
         /\ call[w].seen \in AnyUsage
         /\ call[w].seen = ForToday(usage, call[w].now)
         /\ usage' = Stored(call[w]) /\ usage' \in AnyUsage /\ usage' # Nil
         /\ usage'.day = DayOf(call[w].now)
<1>1. call[w].now \in Times /\ call[w].op \in Operations /\ call[w].seen \in AnyUsage
  BY DEF GovernorInv, GovTypes, CallFits, Store
<1>2. call[w].seen = ForToday(usage, call[w].now)
  BY DEF GovernorInv, ReadIsFresh, Store
<1>3. call[w].seen.day = DayOf(call[w].now)
  BY <1>1, <1>2, RecordOfToday DEF GovernorInv, GovTypes
<1>4. usage' = Stored(call[w])
  BY DEF Store
<1>5. usage' \in AnyUsage /\ usage'.day = call[w].seen.day
  BY <1>1, <1>4, StoredRecord, Zenon
<1>6. Nil \notin AnyUsage
  BY GovernorAssumption
<1> QED
  BY <1>1, <1>2, <1>3, <1>4, <1>5, <1>6

(* The same in numbers: the day, the count and the last time of the record    *)
(* before and after.                                                         *)
LEMMA StoreInNumbers ==
  ASSUME GovernorInv, NEW w \in Workers, Store(w)
  PROVE  LET now == call[w].now before == call[w].op = "before" IN
         /\ usage'.day = DayOf(now)
         /\ usage = Nil =>
              /\ before => usage'.requests = 1 /\ usage'.last = now
              /\ ~ before => usage'.requests = 0 /\ usage'.last = Nil
         /\ usage # Nil =>
              LET counted == IF usage.day = DayOf(now) THEN usage.requests ELSE 0 IN
              /\ before => usage'.requests = counted + 1 /\ counted < Budget /\ usage'.last = now
              /\ before /\ usage.last # Nil => now >= usage.last + Interval
              /\ ~ before => usage'.requests = counted /\ usage'.last = usage.last
<1> DEFINE seen == call[w].seen
           now == call[w].now
           before == call[w].op = "before"
<1>1. now \in Times /\ seen \in AnyUsage /\ seen = ForToday(usage, now)
  BY StoreReadsTheRecord
<1>2. /\ usage'.requests = IF before THEN seen.requests + 1 ELSE seen.requests
      /\ usage'.last = IF before THEN now ELSE seen.last
      /\ usage'.day = DayOf(now)
  BY StoreReadsTheRecord, StoredRecord, Zenon
<1>3. usage \in AnyUsage \cup {Nil}
  BY DEF GovernorInv, GovTypes
<1>4. /\ usage = Nil => seen.last = Nil /\ seen.requests = 0
      /\ usage # Nil =>
           /\ seen.last = usage.last
           /\ usage.day = DayOf(now) => seen.requests = usage.requests
           /\ usage.day # DayOf(now) => seen.requests = 0
  BY <1>1, <1>3, RecordOfToday
<1>5. before => seen.requests < Budget /\ (seen.last # Nil => ~ (now < seen.last + Interval))
  BY DEF Store, Allowed, TooSoon
<1>6. /\ now \in Nat /\ Interval \in Nat
      /\ usage # Nil /\ usage.last # Nil => usage.last \in Nat
  BY <1>1, <1>3, GovernorAssumption DEF Times, AnyUsage
<1> HIDE DEF seen, now, before
<1>7. usage = Nil =>
        /\ before => usage'.requests = 1 /\ usage'.last = now
        /\ ~ before => usage'.requests = 0 /\ usage'.last = Nil
  BY <1>2, <1>4
<1>8. usage # Nil =>
        LET counted == IF usage.day = DayOf(now) THEN usage.requests ELSE 0 IN
        /\ before => usage'.requests = counted + 1 /\ counted < Budget /\ usage'.last = now
        /\ ~ before => usage'.requests = counted /\ usage'.last = usage.last
  BY <1>2, <1>4, <1>5
<1>9. usage # Nil /\ before /\ usage.last # Nil => now >= usage.last + Interval
  BY <1>4, <1>5, <1>6
<1> QED
  BY <1>2, <1>7, <1>8, <1>9 DEF now, before
LEMMA StoreKeepsTypes ==
  ASSUME GovernorInv, NEW w \in Workers, Store(w)
  PROVE  GovTypes' /\ ReadIsFresh'
<1>1. /\ call \in [Workers -> [at : {"idle", "timed", "loaded", "sent"}, op : Operations,
                               now : Times, seen : AnyUsage \cup {Nil}]]
      /\ \A v \in Workers : CallFits(call[v])
      /\ sent \in [Times -> Nat] /\ spent \in [DayNumbers -> Nat] /\ clock \in Times
  BY DEF GovernorInv, GovTypes
<1>2. usage' \in AnyUsage
  BY StoreReadsTheRecord
<1>3. PICK c \in {NoCall, [NoCall EXCEPT !.at = "sent"]} : call' = [call EXCEPT ![w] = c]
  BY DEF Store
<1>4. CallFits(c) /\ c.at # "loaded"
  BY <1>3, GovernorAssumption DEF NoCall, CallFits, Operations, Times
<1>5. \A v \in Workers : call'[v] = IF v = w THEN c ELSE call[v]
  BY <1>1, <1>3
<1>6. sent' \in [Times -> Nat] /\ spent' \in [DayNumbers -> Nat] /\ clock' \in Times
  <2>1. CASE call[w].op = "before"
    <3>1. call[w].now \in Times /\ DayOf(call[w].now) \in DayNumbers
      BY StoreReadsTheRecord, DaysOfTimes
    <3> QED
      BY <1>1, <2>1, <3>1 DEF Store
  <2>2. CASE call[w].op # "before"
    BY <1>1, <2>2 DEF Store
  <2> QED
    BY <2>1, <2>2
<1>7. GovTypes'
  <2>1. \A v \in Workers : CallFits(call'[v])
    BY <1>1, <1>4, <1>5
  <2>2. \A v \in Workers : CallFits(call[v])'
    BY <2>1 DEF CallFits
  <2>3. c \in [at : {"idle", "timed", "loaded", "sent"}, op : Operations, now : Times,
               seen : AnyUsage \cup {Nil}]
    BY <1>4 DEF CallFits
  <2>4. call' \in [Workers -> [at : {"idle", "timed", "loaded", "sent"}, op : Operations,
                               now : Times, seen : AnyUsage \cup {Nil}]]
    BY <1>1, <1>3, <2>3
  <2> QED
    BY <1>2, <1>6, <2>2, <2>4 DEF GovTypes
<1>8. ReadIsFresh'
  <2> SUFFICES ASSUME NEW v \in Workers, call'[v].at = "loaded"
               PROVE  backend # "json" /\ ~ Unchanged(v)'
    BY DEF ReadIsFresh, Store
  <2>1. v # w /\ call[v].at = "loaded"
    BY <1>4, <1>5
  <2>2. backend # "json"
    BY <2>1 DEF GovernorInv, ReadIsFresh, Store
  <2>3. watching' = {} /\ backend' = backend
    BY DEF Store
  <2> QED
    BY <2>2, <2>3 DEF Unchanged
<1> QED
  BY <1>7, <1>8

(* What a store adds to the history: a request at its time and on its day.    *)
LEMMA StoreInHistory ==
  ASSUME GovernorInv, NEW w \in Workers, Store(w)
  PROVE  LET now == call[w].now before == call[w].op = "before" IN
         /\ \A t \in Times : sent'[t] = IF before /\ t = now THEN sent[t] + 1 ELSE sent[t]
         /\ \A d \in DayNumbers :
              spent'[d] = IF before /\ d = DayOf(now) THEN spent[d] + 1 ELSE spent[d]
<1>1. call[w].now \in Times /\ DayOf(call[w].now) \in DayNumbers
  BY StoreReadsTheRecord, DaysOfTimes
<1>2. sent \in [Times -> Nat] /\ spent \in [DayNumbers -> Nat]
  BY DEF GovernorInv, GovTypes
<1> QED
  BY <1>1, <1>2 DEF Store

LEMMA StoreKeepsSpacing ==
  ASSUME GovernorInv, NEW w \in Workers, Store(w)
  PROVE  LastIsKnown' /\ RequestsAreSpaced'
<1> DEFINE now == call[w].now
           before == call[w].op = "before"
<1>1. now \in Nat /\ now \in Times /\ Interval \in Nat /\ Times \subseteq Nat
  BY StoreReadsTheRecord, GovernorAssumption DEF Times
<1>2. \A t \in Times : sent[t] \in Nat
  BY DEF GovernorInv, GovTypes
<1>3. \A t \in Times : sent'[t] = IF before /\ t = now THEN sent[t] + 1 ELSE sent[t]
  BY StoreInHistory
<1>4. usage # Nil /\ usage.last # Nil => usage.last \in Nat
  BY DEF GovernorInv, GovTypes, AnyUsage
<1>5. usage' # Nil
  BY StoreReadsTheRecord
<1>6. /\ before => usage'.last = now
      /\ before /\ usage # Nil /\ usage.last # Nil => now >= usage.last + Interval
      /\ ~ before /\ usage # Nil => usage'.last = usage.last
  BY StoreInNumbers
<1>7. \A t \in Times : sent[t] > 0 => usage # Nil /\ usage.last # Nil /\ t <= usage.last
  BY DEF GovernorInv, LastIsKnown
<1>8. now # Nil
  BY <1>1, GovernorAssumption
<1> HIDE DEF now, before
<1>9. \A t \in Times : before /\ sent[t] > 0 => now >= t + Interval
  BY <1>1, <1>4, <1>6, <1>7
<1>10. LastIsKnown'
  <2> SUFFICES ASSUME NEW t \in Times, sent'[t] > 0
               PROVE  usage'.last # Nil /\ t <= usage'.last
    BY <1>5 DEF LastIsKnown
  <2>1. CASE before
    BY <1>1, <1>3, <1>6, <1>8, <1>9, <2>1
  <2>2. CASE ~ before
    BY <1>3, <1>6, <1>7, <2>2
  <2> QED
    BY <2>1, <2>2
<1>11. ASSUME NEW t \in Times, Interval > 0
       PROVE  sent'[t] <= 1
  <2>1. sent[t] <= 1
    BY <1>11 DEF GovernorInv, RequestsAreSpaced
  <2>2. before /\ t = now => sent[t] = 0
    BY <1>1, <1>2, <1>9, <1>11
  <2> QED
    BY <1>2, <1>3, <2>1, <2>2
<1>12. ASSUME NEW t \in Times, NEW u \in Times, sent'[t] > 0, sent'[u] > 0, t < u
       PROVE  u - t >= Interval
  <2>1. sent[t] > 0 /\ sent[u] > 0 => u - t >= Interval
    BY <1>12 DEF GovernorInv, RequestsAreSpaced
  <2>2. sent[t] > 0 \/ (before /\ t = now)
    BY <1>3, <1>12
  <2>3. sent[u] > 0 \/ (before /\ u = now)
    BY <1>3, <1>12
  <2> QED
    BY <1>1, <1>9, <1>12, <2>1, <2>2, <2>3
<1>13. RequestsAreSpaced'
  BY <1>11, <1>12 DEF RequestsAreSpaced
<1> QED
  BY <1>10, <1>13

LEMMA StoreKeepsBudget ==
  ASSUME GovernorInv, NEW w \in Workers, Store(w)
  PROVE  DayIsCounted' /\ BudgetIsKept'
<1> DEFINE today == DayOf(call[w].now)
           before == call[w].op = "before"
           counted == IF usage = Nil THEN 0
                      ELSE IF usage.day = today THEN usage.requests ELSE 0
<1>1. today \in Nat /\ today \in DayNumbers /\ Budget \in Nat /\ DayNumbers \subseteq Nat
  <2>1. Budget \in Nat
    BY GovernorAssumption
  <2> QED
    BY <2>1, StoreReadsTheRecord, DaysOfTimes DEF DayNumbers
<1>2. \A d \in DayNumbers : spent[d] \in Nat
  BY DEF GovernorInv, GovTypes
<1>3. \A d \in DayNumbers : spent'[d] = IF before /\ d = today THEN spent[d] + 1 ELSE spent[d]
  BY StoreInHistory
<1>4. usage # Nil => usage.day \in Nat /\ usage.requests \in Nat /\ usage.requests <= Budget
  BY DEF GovernorInv, GovTypes, DayIsCounted, AnyUsage
<1>5. usage' # Nil /\ usage'.day = today
  BY StoreReadsTheRecord
<1>6. Budget > 0
  BY GovernorAssumption
<1>7. /\ before => usage'.requests = counted + 1 /\ counted < Budget
      /\ ~ before => usage'.requests = counted
  BY <1>1, <1>6, StoreInNumbers
<1>8. overtaken' = (overtaken \/ (usage # Nil /\ usage.day > usage'.day))
  BY DEF Store
<1>9. /\ counted \in Nat /\ counted <= Budget
      /\ usage = Nil \/ usage.day # today => counted = 0
      /\ usage # Nil /\ usage.day = today => counted = usage.requests
  BY <1>1, <1>4
<1>10. ~ overtaken =>
         \A d \in DayNumbers :
           /\ usage = Nil => spent[d] = 0
           /\ usage # Nil /\ d = usage.day => spent[d] <= usage.requests
           /\ usage # Nil /\ d > usage.day => spent[d] = 0
           /\ spent[d] <= Budget
  BY DEF GovernorInv, DayIsCounted, BudgetIsKept
<1> HIDE DEF today, before, counted
<1>11. usage'.requests \in Nat /\ usage'.requests <= Budget
  BY <1>1, <1>7, <1>9
<1>12. ASSUME ~ overtaken'
       PROVE  /\ spent[today] <= counted
              /\ \A d \in DayNumbers : d > today => spent[d] = 0
  <2>1. ~ overtaken /\ (usage # Nil => usage.day <= today)
    <3>1. ~ overtaken /\ ~ (usage # Nil /\ usage.day > usage'.day)
      BY <1>8, <1>12, Zenon
    <3> QED
      BY <1>1, <1>4, <1>5, <3>1
  <2>2. CASE usage = Nil
    BY <1>1, <1>9, <1>10, <2>1, <2>2
  <2>3. CASE usage # Nil /\ usage.day = today
    BY <1>1, <1>9, <1>10, <2>1, <2>3
  <2>4. CASE usage # Nil /\ usage.day < today
    <3>1. \A d \in DayNumbers : d > usage.day => spent[d] = 0
      BY <1>10, <2>1, <2>4
    <3>2. \A d \in DayNumbers : d > today => d > usage.day
      BY <1>1, <1>4, <2>4
    <3> QED
      BY <1>1, <1>4, <1>9, <2>4, <3>1, <3>2
  <2> QED
    BY <1>1, <1>4, <2>1, <2>2, <2>3, <2>4
<1>13. ASSUME ~ overtaken', NEW d \in DayNumbers
       PROVE  /\ d = today => spent'[d] <= usage'.requests
              /\ d > today => spent'[d] = 0
              /\ spent'[d] <= Budget
  <2>1. ~ overtaken
    BY <1>8, <1>13
  <2>2. d = today => spent'[d] <= usage'.requests
    BY <1>1, <1>2, <1>3, <1>7, <1>9, <1>12, <1>13
  <2>3. d > today => spent'[d] = 0
    BY <1>1, <1>3, <1>12, <1>13
  <2>4. spent'[d] <= Budget
    BY <1>1, <1>2, <1>3, <1>10, <1>11, <2>1, <2>2
  <2> QED
    BY <2>2, <2>3, <2>4
<1>14. DayIsCounted'
  BY <1>5, <1>11, <1>13 DEF DayIsCounted
<1>15. BudgetIsKept'
  BY <1>13 DEF BudgetIsKept
<1> QED
  BY <1>14, <1>15

LEMMA GovernorPreserved == GovernorInv /\ [GovernorNext]_govVars => GovernorInv'
<1> SUFFICES ASSUME GovernorInv, [GovernorNext]_govVars PROVE GovernorInv'
  OBVIOUS
<1>1. CASE UNCHANGED govVars
  BY <1>1 DEF govVars, GovernorInv, GovTypes, CallFits, ReadIsFresh, Unchanged, LastIsKnown,
              DayIsCounted, RequestsAreSpaced, BudgetIsKept
<1>2. CASE Tick
  <2>1. clock' \in Times
    BY <1>2, GovernorAssumption DEF Tick, GovernorInv, GovTypes, Times
  <2> QED
    BY <1>2, <2>1 DEF Tick, GovernorInv, GovTypes, CallFits, ReadIsFresh, Unchanged, LastIsKnown,
                      DayIsCounted, RequestsAreSpaced, BudgetIsKept
<1>3. ASSUME NEW w \in Workers, Store(w)
      PROVE  GovernorInv'
  BY <1>3, StoreKeepsTypes, StoreKeepsSpacing, StoreKeepsBudget DEF GovernorInv
<1>4. ASSUME NEW w \in Workers,
             \/ \E op \in Operations : BeginCall(w, op)
             \/ Load(w) \/ Block(w) \/ Retry(w) \/ Die(w)
      PROVE  GovernorInv'
  BY <1>4, OtherStepsKeep
<1> QED
  BY <1>1, <1>2, <1>3, <1>4 DEF GovernorNext

(* All processes together keep to the interval between requests and, unless   *)
(* a call is overtaken at midnight, to the budget of the day, however many     *)
(* there are and whenever they die: whoever writes the record has read it as   *)
(* it is, and it remembers the last request and how many its day has had.      *)
THEOREM LimitsHold == GovernorSpec => []LimitsAreKept
<1>1. GovernorInv => LimitsAreKept
  BY DEF GovernorInv, LimitsAreKept
<1> QED
  BY <1>1, GovernorBegins, GovernorPreserved, PTL DEF GovernorSpec

(* No request is let through before the circuit's time is over: the record    *)
(* that let it through is the one that stands when it is stored.              *)
THEOREM CircuitHolds == GovernorSpec => CircuitRefuses
<1>1. ASSUME GovernorInv, [GovernorNext]_govVars, NEW w \in Workers,
             call[w].at = "loaded", call'[w].at = "sent", usage # Nil, usage.until # Nil
      PROVE  call[w].now >= usage.until
  <2>1. /\ call \in [Workers -> [at : {"idle", "timed", "loaded", "sent"}, op : Operations,
                                 now : Times, seen : AnyUsage \cup {Nil}]]
        /\ usage \in AnyUsage /\ clock \in Times
    BY <1>1 DEF GovernorInv, GovTypes
  <2>2. Store(w) /\ call[w].op = "before"
    <3>1. ASSUME NEW v \in Workers, NEW op \in Operations, BeginCall(v, op)
          PROVE  FALSE
      <4>1. call' = [call EXCEPT ![v] = [NoCall EXCEPT !.at = "timed", !.op = op, !.now = clock]]
        BY <3>1 DEF BeginCall
      <4> QED
        BY <1>1, <2>1, <4>1 DEF NoCall
    <3>2. ASSUME NEW v \in Workers, Load(v) \/ Retry(v)
          PROVE  FALSE
      BY <1>1, <2>1, <3>2 DEF Load, Retry
    <3>3. ASSUME NEW v \in Workers, Block(v) \/ Die(v)
          PROVE  FALSE
      BY <1>1, <2>1, <3>3 DEF Block, Die, NoCall
    <3>4. ~ Tick /\ ~ UNCHANGED govVars
      BY <1>1 DEF Tick, govVars
    <3>5. PICK v \in Workers : Store(v)
      BY <1>1, <3>1, <3>2, <3>3, <3>4 DEF GovernorNext
    <3>6. v = w /\ call[v].op = "before"
      BY <1>1, <2>1, <3>5 DEF Store, NoCall
    <3> QED
      BY <3>5, <3>6
  <2>3. Allowed(call[w].seen, call[w].now)
    BY <2>2 DEF Store
  <2>4. call[w].seen = ForToday(usage, call[w].now) /\ call[w].now \in Times
    BY <1>1, <2>2, StoreReadsTheRecord
  <2>5. ForToday(usage, call[w].now).until = usage.until
    BY <1>1, <2>1, <2>4, RecordOfToday
  <2>6. call[w].seen.until = usage.until
    BY <2>4, <2>5
  <2>7. ~ (call[w].now < usage.until)
    BY <1>1, <2>3, <2>6 DEF Allowed, CircuitOpen
  <2>8. call[w].now \in Nat /\ usage.until \in Nat
    BY <1>1, <2>1, <2>4, GovernorAssumption DEF Times, AnyUsage
  <2> QED
    BY <2>7, <2>8
<1>2. GovernorInv /\ [GovernorNext]_govVars =>
        (\A w \in Workers :
           call[w].at = "loaded" /\ call'[w].at = "sent" /\ usage # Nil /\ usage.until # Nil
             => call[w].now >= usage.until)
  BY <1>1
<1> QED
  BY <1>2, GovernorBegins, GovernorPreserved, PTL DEF GovernorSpec, CircuitRefuses
-------------------------------------------------------------------------------
(* The numbers of a record.  Failures are forgotten when the circuit that     *)
(* they opened lapses; the answers behind it are at most one for each worker. *)
CircuitFits(u) == u.failures >= Threshold => u.until # Nil
InFlight == {w \in Workers : call[w].at = "sent" \/ (call[w].at # "idle" /\ call[w].op # "before")}
FailuresCounted ==
  usage # Nil =>
    CircuitFits(usage) /\ usage.failures + Cardinality(InFlight) <= Cardinality(Workers) + Threshold

NumbersInv == GovernorInv /\ GovernorTypeOK /\ FailuresCounted

LEMMA GovernorNumbers ==
  /\ Budget \in Nat /\ Threshold \in Nat /\ Threshold > 0 /\ OpenFor \in Nat /\ MaxTime \in Nat
  /\ Nil \notin Nat /\ Nil \notin Workers
  /\ \A t \in Times : t \in Nat /\ t <= MaxTime
  BY GovernorAssumption DEF Times

LEMMA InFlightAreFew ==
  ASSUME IsFiniteSet(Workers)
  PROVE  /\ IsFiniteSet(InFlight) /\ Cardinality(InFlight) \in Nat
         /\ Cardinality(Workers) \in Nat /\ Cardinality(InFlight) <= Cardinality(Workers)
<1>1. InFlight \in SUBSET Workers
  BY DEF InFlight
<1>2. IsFiniteSet(InFlight) /\ Cardinality(InFlight) <= Cardinality(Workers)
  BY <1>1, FS_Subset
<1> QED
  BY <1>2, FS_CardinalityType

(* Brought to another day, a record keeps its failures and its circuit.       *)
LEMMA DayIsInBounds ==
  ASSUME IsFiniteSet(Workers), NEW u \in Usage \cup {Nil}, NEW t \in Times
  PROVE  /\ ForToday(u, t) \in Usage
         /\ u = Nil => ForToday(u, t).failures = 0 /\ ForToday(u, t).until = Nil
         /\ u # Nil => ForToday(u, t).failures = u.failures /\ ForToday(u, t).until = u.until
<1>1. DayOf(t) \in DayNumbers /\ 0 \in 0 .. Budget /\ 0 \in 0 .. Cardinality(Workers) + Threshold
  BY DaysOfTimes, GovernorNumbers, InFlightAreFew
<1>2. CASE u = Nil
  BY <1>1, <1>2 DEF ForToday, Usage
<1>3. CASE u # Nil /\ u.day = DayOf(t)
  BY <1>3 DEF ForToday
<1>4. CASE u # Nil /\ u.day # DayOf(t)
  BY <1>1, <1>4 DEF ForToday, Usage
<1> QED
  BY <1>2, <1>3, <1>4

(* A request is counted while there are any left, and a lapsed circuit has    *)
(* forgotten its failures.                                                   *)
LEMMA RequestIsInBounds ==
  ASSUME IsFiniteSet(Workers), NEW u \in Usage, CircuitFits(u), NEW t \in Times,
         u.requests < Budget
  PROVE  LET new == Counted(u, t) IN
         new \in Usage /\ CircuitFits(new) /\ new.failures <= Threshold
<1> DEFINE Most == Cardinality(Workers) + Threshold
<1>1. Most \in Nat /\ Threshold \in Nat /\ Threshold > 0 /\ Budget \in Nat /\ 0 \in 0 .. Most
  BY GovernorNumbers, InFlightAreFew
<1>2. u.failures \in 0 .. Most /\ u.requests \in 0 .. Budget
  BY DEF Usage
<1>3. /\ Lapsed(u) \in Usage /\ Lapsed(u).requests = u.requests
      /\ Lapsed(u).failures < Threshold
  <2>1. CASE u.until = Nil
    BY <1>1, <1>2, <2>1 DEF Lapsed, CircuitFits
  <2>2. CASE u.until # Nil
    BY <1>1, <2>2 DEF Lapsed, Usage
  <2> QED
    BY <2>1, <2>2
<1> HIDE DEF Most
<1>4. ASSUME NEW v \in Usage, NEW n \in 0 .. Budget
      PROVE  LET new == [v EXCEPT !.requests = n, !.last = t] IN
             new \in Usage /\ new.failures = v.failures
  BY DEF Usage
<1>5. Lapsed(u).requests + 1 \in 0 .. Budget
  BY <1>1, <1>2, <1>3
<1>6. Counted(u, t) \in Usage /\ Counted(u, t).failures = Lapsed(u).failures
  BY <1>3, <1>4, <1>5, Zenon DEF Counted
<1>7. Lapsed(u).failures \in Nat
  BY <1>1, <1>3 DEF Usage
<1>8. Counted(u, t).failures \in Nat /\ Counted(u, t).failures < Threshold
  BY <1>3, <1>6, <1>7
<1> QED
  BY <1>1, <1>6, <1>8 DEF CircuitFits

(* An answer adds at most one failure, and opens the circuit at Threshold.    *)
LEMMA AnswerIsInBounds ==
  ASSUME IsFiniteSet(Workers), NEW u \in Usage, CircuitFits(u), NEW t \in Times,
         NEW op \in Results, u.failures < Cardinality(Workers) + Threshold
  PROVE  LET new == IF op = "success" THEN AfterSuccess(u) ELSE AfterFailure(u, op, t) IN
         new \in Usage /\ CircuitFits(new) /\ new.failures <= u.failures + 1
<1> DEFINE Most == Cardinality(Workers) + Threshold
           Untils == (0 .. MaxTime + OpenFor) \cup {Nil}
<1>1. /\ Most \in Nat /\ Threshold \in Nat /\ Threshold > 0 /\ t \in Nat /\ t <= MaxTime
      /\ MaxTime \in Nat /\ OpenFor \in Nat /\ Nil \notin Nat
  BY GovernorNumbers, InFlightAreFew
<1>2. u.failures \in 0 .. Most /\ u.until \in Untils /\ u.failures < Most
  BY DEF Usage
<1>3. ASSUME NEW failures \in 0 .. Most, NEW until \in Untils
      PROVE  LET new == [u EXCEPT !.failures = failures, !.until = until] IN
             new \in Usage /\ new.failures = failures /\ new.until = until
  BY DEF Usage
<1> HIDE DEF Most
<1>4. CASE op = "success"
  <2>1. 0 \in 0 .. Most /\ Nil \in Untils
    BY <1>1
  <2> HIDE DEF Untils
  <2>2. AfterSuccess(u) \in Usage /\ AfterSuccess(u).failures = 0
    BY <1>3, <2>1, Zenon DEF AfterSuccess
  <2> QED
    BY <1>1, <1>2, <1>4, <2>2 DEF CircuitFits
<1>5. CASE op # "success"
  <2> DEFINE counted == IF op = "timeout" THEN u.failures + 1 ELSE u.failures
             until == IF op = "rate_limited" \/ counted >= Threshold
                      THEN t + OpenFor ELSE u.until
  <2>1. counted \in 0 .. Most /\ counted <= u.failures + 1
    BY <1>1, <1>2
  <2>2. t + OpenFor \in 0 .. MaxTime + OpenFor /\ t + OpenFor # Nil
    BY <1>1
  <2>3. until \in Untils
    BY <1>2, <2>2
  <2>4. counted >= Threshold => until # Nil
    BY <2>2
  <2> HIDE DEF counted, until, Untils
  <2>5. LET new == [u EXCEPT !.failures = counted, !.until = until] IN
        new \in Usage /\ new.failures = counted /\ new.until = until
    BY <1>3, <2>1, <2>3, Zenon
  <2>6. AfterFailure(u, op, t) = [u EXCEPT !.failures = counted, !.until = until]
    BY DEF AfterFailure, counted, until
  <2> QED
    BY <1>5, <2>1, <2>4, <2>5, <2>6 DEF CircuitFits
<1> QED
  BY <1>4, <1>5

(* Steps that do not write send nothing.                                      *)
LEMMA NothingSentInBounds ==
  ASSUME IsFiniteSet(Workers), NumbersInv, [GovernorNext]_govVars,
         \A w \in Workers : ~ Store(w)
  PROVE  GovernorTypeOK' /\ FailuresCounted'
<1>1. GovernorTypeOK
  BY DEF NumbersInv
<1>2. NoCall \in Call /\ NoCall.at = "idle" /\ NoCall.op = "before"
  BY GovernorAssumption DEF NoCall, Call, Operations, Times
<1>3. usage' = usage
  BY DEF GovernorNext, govVars, Tick, BeginCall, Load, Block, Retry, Die
<1>4. GovernorTypeOK' /\ InFlight' \subseteq InFlight
  <2>1. CASE UNCHANGED govVars
    BY <1>1, <2>1 DEF govVars, GovernorTypeOK, InFlight
  <2>2. CASE Tick
    <3>1. clock' \in Times
      BY <1>1, <2>2, GovernorNumbers DEF Tick, GovernorTypeOK, Times
    <3> QED
      BY <1>1, <2>2, <3>1 DEF Tick, GovernorTypeOK, InFlight
  <2>3. ASSUME NEW w \in Workers, NEW c \in Call, call' = [call EXCEPT ![w] = c],
               UNCHANGED <<backend, clock, usage, sent, spent, overtaken>>,
               holder' \in Workers \cup {Nil}, watching' \subseteq Workers,
               c.at = "idle" \/ (c.at # "sent" /\ c.op = "before") \/ w \in InFlight
        PROVE  GovernorTypeOK' /\ InFlight' \subseteq InFlight
    <3>1. call \in [Workers -> Call]
      BY <1>1 DEF GovernorTypeOK
    <3>2. \A v \in Workers : call'[v] = IF v = w THEN c ELSE call[v]
      BY <2>3, <3>1
    <3>3. call' \in [Workers -> Call]
      BY <2>3, <3>1
    <3>4. GovernorTypeOK'
      BY <1>1, <2>3, <3>3 DEF GovernorTypeOK
    <3>5. InFlight' \subseteq InFlight
      BY <2>3, <3>2 DEF InFlight
    <3> QED
      BY <3>4, <3>5
  <2>4. /\ holder \in Workers \cup {Nil} /\ watching \subseteq Workers
        /\ call \in [Workers -> Call] /\ clock \in Times /\ usage \in Usage \cup {Nil}
    BY <1>1 DEF GovernorTypeOK
  <2>5. ASSUME NEW w \in Workers, NEW op \in Operations, BeginCall(w, op)
        PROVE  GovernorTypeOK' /\ InFlight' \subseteq InFlight
    <3> DEFINE c == [NoCall EXCEPT !.at = "timed", !.op = op, !.now = clock]
    <3>1. c \in Call /\ c.at = "timed" /\ c.op = op
      BY <1>2, <2>4 DEF Call, NoCall
    <3>2. op # "before" => w \in InFlight
      BY <2>5 DEF BeginCall, InFlight
    <3>3. call' = [call EXCEPT ![w] = c] /\ UNCHANGED <<backend, clock, usage, sent, spent, overtaken>>
          /\ UNCHANGED <<holder, watching>>
      BY <2>5 DEF BeginCall
    <3> HIDE DEF c
    <3> QED
      BY <2>3, <2>4, <3>1, <3>2, <3>3
  <2>6. ASSUME NEW w \in Workers, Load(w)
        PROVE  GovernorTypeOK' /\ InFlight' \subseteq InFlight
    <3> DEFINE c == [call[w] EXCEPT !.at = "loaded", !.seen = ForToday(usage, call[w].now)]
    <3>1. ForToday(usage, call[w].now) \in Usage
      BY <2>4, DayIsInBounds DEF Call
    <3>2. c \in Call /\ c.at = "loaded" /\ c.op = call[w].op
      BY <2>4, <3>1 DEF Call
    <3>3. c.op = "before" \/ w \in InFlight
      BY <2>6, <3>2 DEF Load, InFlight
    <3>4. call' = [call EXCEPT ![w] = c] /\ UNCHANGED <<backend, clock, usage, sent, spent, overtaken>>
      BY <2>4, <2>6 DEF Load
    <3>5. holder' \in Workers \cup {Nil} /\ watching' \subseteq Workers
      BY <2>4, <2>6 DEF Load
    <3> HIDE DEF c
    <3> QED
      BY <2>3, <3>2, <3>3, <3>4, <3>5
  <2>7. ASSUME NEW w \in Workers, Retry(w)
        PROVE  GovernorTypeOK' /\ InFlight' \subseteq InFlight
    <3> DEFINE c == [call[w] EXCEPT !.at = "timed", !.seen = Nil]
    <3>1. c \in Call /\ c.at = "timed" /\ c.op = call[w].op
      BY <2>4 DEF Call
    <3>2. c.op = "before" \/ w \in InFlight
      BY <2>7, <3>1 DEF Retry, InFlight
    <3>3. call' = [call EXCEPT ![w] = c] /\ UNCHANGED <<backend, clock, usage, sent, spent, overtaken>>
          /\ UNCHANGED <<holder, watching>>
      BY <2>4, <2>7 DEF Retry
    <3> HIDE DEF c
    <3> QED
      BY <2>3, <2>4, <3>1, <3>2, <3>3
  <2>8. ASSUME NEW w \in Workers, Block(w) \/ Die(w)
        PROVE  GovernorTypeOK' /\ InFlight' \subseteq InFlight
    <3>1. call' = [call EXCEPT ![w] = NoCall] /\ UNCHANGED <<backend, clock, usage, sent, spent, overtaken>>
      BY <2>8 DEF Block, Die
    <3>2. holder' \in Workers \cup {Nil} /\ watching' \subseteq Workers
      BY <2>4, <2>8 DEF Block, Die, LetGo
    <3> QED
      BY <1>2, <2>3, <3>1, <3>2
  <2> QED
    BY <2>1, <2>2, <2>5, <2>6, <2>7, <2>8 DEF GovernorNext
<1>5. Cardinality(InFlight') <= Cardinality(InFlight) /\ Cardinality(InFlight') \in Nat
  <2>1. InFlight' \in SUBSET InFlight
    BY <1>4
  <2>2. IsFiniteSet(InFlight)
    BY InFlightAreFew
  <2> QED
    BY <2>1, <2>2, FS_Subset, FS_CardinalityType
<1>6. FailuresCounted'
  <2>1. usage # Nil => usage.failures \in Nat
    BY <1>1, InFlightAreFew, GovernorNumbers DEF GovernorTypeOK, Usage
  <2>2. Cardinality(InFlight) \in Nat /\ Cardinality(Workers) + Threshold \in Nat
    BY InFlightAreFew, GovernorNumbers
  <2>3. FailuresCounted
    BY DEF NumbersInv
  <2> QED
    BY <1>3, <1>5, <2>1, <2>2, <2>3 DEF FailuresCounted, CircuitFits
<1> QED
  BY <1>4, <1>6

(* A write counts a request and puts it in flight, or takes an answer out.    *)
LEMMA StoreInBounds ==
  ASSUME IsFiniteSet(Workers), NumbersInv, NEW w \in Workers, Store(w)
  PROVE  GovernorTypeOK' /\ FailuresCounted'
<1> DEFINE c == call[w]
           Most == Cardinality(Workers) + Threshold
<1>1. /\ GovernorTypeOK /\ FailuresCounted /\ GovernorInv
      /\ call \in [Workers -> Call] /\ usage \in Usage \cup {Nil} /\ c \in Call
  BY DEF NumbersInv, GovernorTypeOK
<1>2. /\ c.now \in Times /\ c.op \in Operations /\ c.seen = ForToday(usage, c.now)
      /\ usage' = Stored(c) /\ usage' # Nil
  BY <1>1, StoreReadsTheRecord
<1>3. /\ Cardinality(InFlight) \in Nat /\ Most \in Nat /\ Threshold \in Nat
      /\ Cardinality(Workers) \in Nat /\ Threshold > 0 /\ Cardinality(InFlight) <= Cardinality(Workers)
  BY InFlightAreFew, GovernorNumbers
<1>4. /\ c.seen \in Usage /\ CircuitFits(c.seen)
      /\ c.seen.failures \in Nat /\ c.seen.failures + Cardinality(InFlight) <= Most
  <2>1. /\ c.seen \in Usage
        /\ usage = Nil => c.seen.failures = 0
        /\ usage # Nil => c.seen.failures = usage.failures /\ c.seen.until = usage.until
    BY <1>1, <1>2, DayIsInBounds
  <2>2. c.seen.failures \in Nat
    BY <1>3, <2>1 DEF Usage
  <2> HIDE DEF c
  <2> QED
    BY <1>1, <1>3, <2>1, <2>2 DEF FailuresCounted, CircuitFits
<1>5. /\ NoCall \in Call /\ [NoCall EXCEPT !.at = "sent"] \in Call /\ NoCall.at = "idle"
      /\ [NoCall EXCEPT !.at = "sent"].at = "sent"
  BY GovernorAssumption DEF NoCall, Call, Operations, Times
<1>6. /\ holder' \in Workers \cup {Nil} /\ watching' \subseteq Workers /\ overtaken' \in BOOLEAN
      /\ UNCHANGED <<backend, clock>>
  BY <1>1 DEF Store, GovernorTypeOK
<1>7. sent' \in [Times -> Nat] /\ spent' \in [DayNumbers -> Nat]
  BY <1>1, StoreKeepsTypes DEF GovTypes
<1>8. call' \in [Workers -> Call]
  BY <1>1, <1>5 DEF Store
<1>9. usage' \in Usage /\ CircuitFits(usage') /\ usage'.failures + Cardinality(InFlight') <= Most
  <2>1. CASE c.op = "before"
    <3>1. c.seen.requests < Budget
      BY <2>1 DEF Store, Allowed
    <3>2. Stored(c) = Counted(c.seen, c.now)
      BY <2>1 DEF Stored
    <3>3. usage' \in Usage /\ CircuitFits(usage') /\ usage'.failures <= Threshold
      BY <1>2, <1>4, <3>1, <3>2, RequestIsInBounds
    <3>4. usage'.failures \in Nat
      BY <1>3, <3>3 DEF Usage
    <3>5. Cardinality(InFlight') \in Nat /\ Cardinality(InFlight') <= Cardinality(Workers)
      <4>1. InFlight' \in SUBSET Workers
        BY DEF InFlight
      <4> QED
        BY <4>1, FS_Subset, FS_CardinalityType
    <3> QED
      BY <1>3, <3>3, <3>4, <3>5
  <2>2. CASE c.op # "before"
    <3>1. w \in InFlight /\ call' = [call EXCEPT ![w] = NoCall]
      BY <2>2 DEF InFlight, Store
    <3>2. InFlight' = InFlight \ {w}
      BY <1>1, <1>5, <3>1 DEF InFlight
    <3>3. Cardinality(InFlight') = Cardinality(InFlight) - 1
      BY <3>1, <3>2, FS_RemoveElement, InFlightAreFew
    <3>4. Cardinality(InFlight) > 0
      <4>1. InFlight # {}
        BY <3>1
      <4> QED
        BY <1>3, <4>1, FS_EmptySet, InFlightAreFew
    <3>5. c.op \in Results /\ c.seen.failures < Most
      BY <1>2, <1>3, <1>4, <2>2, <3>4 DEF Operations
    <3>6. Stored(c) = IF c.op = "success" THEN AfterSuccess(c.seen)
                                         ELSE AfterFailure(c.seen, c.op, c.now)
      BY <2>2 DEF Stored
    <3>7. usage' \in Usage /\ CircuitFits(usage') /\ usage'.failures <= c.seen.failures + 1
      BY <1>2, <1>4, <3>5, <3>6, AnswerIsInBounds, Zenon
    <3>8. usage'.failures \in Nat
      BY <1>3, <3>7 DEF Usage
    <3> QED
      BY <1>3, <1>4, <3>3, <3>4, <3>7, <3>8
  <2> QED
    BY <2>1, <2>2
<1>10. GovernorTypeOK'
  BY <1>1, <1>6, <1>7, <1>8, <1>9 DEF GovernorTypeOK
<1> QED
  BY <1>9, <1>10 DEF FailuresCounted

(* The record's numbers stay within bounds: no more requests than the budget, *)
(* and failures of at most one late answer for each worker above Threshold.   *)
THEOREM GovernorTypes ==
  IsFiniteSet(Workers) => (GovernorSpec => []GovernorTypeOK)
<1>1. ASSUME IsFiniteSet(Workers), GovernorInit PROVE NumbersInv
  <2>1. GovernorInv
    BY <1>1, GovernorBegins
  <2>2. NoCall \in Call /\ 0 \in Times
    BY GovernorAssumption DEF NoCall, Call, Operations, Times
  <2> QED
    BY <1>1, <2>1, <2>2 DEF NumbersInv, GovernorTypeOK, FailuresCounted, GovernorInit
<1>2. ASSUME IsFiniteSet(Workers), NumbersInv, [GovernorNext]_govVars PROVE NumbersInv'
  <2>1. GovernorInv'
    BY <1>2, GovernorPreserved DEF NumbersInv
  <2>2. GovernorTypeOK' /\ FailuresCounted'
    BY <1>2, NothingSentInBounds, StoreInBounds
  <2> QED
    BY <2>1, <2>2 DEF NumbersInv
<1>3. NumbersInv => GovernorTypeOK
  BY DEF NumbersInv
<1>4. ASSUME IsFiniteSet(Workers) PROVE GovernorSpec => []GovernorTypeOK
  <2>1. GovernorInit => NumbersInv
    BY <1>1, <1>4
  <2>2. NumbersInv /\ [GovernorNext]_govVars => NumbersInv'
    BY <1>2, <1>4
  <2> QED
    BY <1>3, <2>1, <2>2, PTL DEF GovernorSpec
<1> QED
  BY <1>4

-------------------------------------------------------------------------------
(* UnitOfWork, as long as no two requests are inside one unit of work.       *)

Steps == {"enter1", "claim", "commit1", "exit1", "solve", "enter2", "check", "solver_run", "trip",
          "revision", "complete", "commit2", "exit2", "raised", "done"}
First(h) == <<h, 1>>
Second(h) == <<h, 2>>
Committed(h) == {what \in Writes : <<h, what>> \in db}

(* What the second transaction has written before each of its statements.    *)
WrittenBefore ==
  [check |-> {}, solver_run |-> {}, trip |-> {"solver_run"}, revision |-> {"solver_run", "trip"},
   complete |-> {"solver_run", "trip", "revision"},
   commit2 |-> {"solver_run", "trip", "revision", "completed"}]
InSecond == {"check", "solver_run", "trip", "revision", "complete", "commit2"}

(* A request acts on the session it has opened last, what it has written is  *)
(* pending there and nowhere else, and what it has committed is whole.       *)
OnOwnSession(h) ==
  /\ at[h] \in {"claim", "commit1", "exit1"} => session[UnitOf(h)] = First(h)
  /\ at[h] \in InSecond \cup {"exit2"} => session[UnitOf(h)] = Second(h)
  /\ at[h] = "raised" => session[UnitOf(h)] \in {First(h), Second(h)}
  /\ at[h] = "claim" => repos[UnitOf(h)] = First(h)
  /\ at[h] \in InSecond => repos[UnitOf(h)] = Second(h)
PendingIsOwn(h) ==
  /\ at[h] = "commit1" => pending[First(h)] = {<<h, "running">>}
  /\ at[h] \in InSecond => pending[Second(h)] = {<<h, what>> : what \in WrittenBefore[at[h]]}
  /\ at[h] \notin {"commit1", "raised"} => pending[First(h)] = {}
  /\ at[h] \notin InSecond \cup {"raised"} => pending[Second(h)] = {}
  /\ at[h] = "raised" => \A s \in {First(h), Second(h)} \ {session[UnitOf(h)]} : pending[s] = {}
CommitsWhole(h) ==
  /\ at[h] \in {"enter1", "claim", "commit1"} => Committed(h) = {}
  /\ at[h] \in {"exit1", "solve", "enter2"} \cup InSecond => Committed(h) = {"running"}
  /\ at[h] = "exit2" => Committed(h) = Writes
  /\ at[h] = "raised" => Committed(h) \in {{}, {"running"}}
  /\ at[h] = "done" => Committed(h) \in {{}, {"running"}, Writes}

UnitInv ==
  /\ UnitTypeOK
  /\ \A h \in Requests : at[h] \in Steps /\ OnOwnSession(h) /\ PendingIsOwn(h) /\ CommitsWhole(h)

LEMMA UnitBegins == UnitInit => UnitInv
<1> SUFFICES ASSUME UnitInit PROVE UnitInv
  OBVIOUS
<1> USE DEF UnitInit
<1>1. DOMAIN After = Steps \ {"done"}
  BY DEF After, Steps
<1>2. UnitTypeOK
  BY <1>1 DEF UnitTypeOK, Steps
<1>3. ASSUME NEW h \in Requests
      PROVE  at[h] \in Steps /\ OnOwnSession(h) /\ PendingIsOwn(h) /\ CommitsWhole(h)
  <2>1. First(h) \in Sessions /\ Second(h) \in Sessions
    BY DEF First, Second, Sessions
  <2> QED
    BY <2>1 DEF Steps, OnOwnSession, PendingIsOwn, CommitsWhole, Committed, InSecond
<1> QED
  BY <1>2, <1>3 DEF UnitInv

(* A statement of one request changes what is its own.                       *)
LEMMA OwnStatement ==
  ASSUME UnitInv, NEW g \in Requests, NEW x \in Steps, NEW s \in {First(g), Second(g)},
         NEW q \in SUBSET ({g} \X Writes), NEW more \in SUBSET ({g} \X Writes),
         at' = [at EXCEPT ![g] = x],
         \A h \in Requests \ {g} : Inside(h) =>
            session'[UnitOf(h)] = session[UnitOf(h)] /\ repos'[UnitOf(h)] = repos[UnitOf(h)],
         session' \in [Units -> Sessions \cup {NoSession}],
         repos' \in [Units -> Sessions \cup {NoSession}],
         pending' = [pending EXCEPT ![s] = q] \/ UNCHANGED pending,
         db' = db \cup more,
         OnOwnSession(g)', PendingIsOwn(g)', CommitsWhole(g)'
  PROVE  UnitInv'
<1>1. DOMAIN After = Steps \ {"done"}
  BY DEF After, Steps
<1>2. /\ at \in [Requests -> Steps] /\ pending \in [Sessions -> SUBSET Rows] /\ db \in SUBSET Rows
  BY <1>1 DEF UnitInv, UnitTypeOK, Steps
<1>3. q \subseteq Rows /\ more \subseteq Rows
  BY DEF Rows
<1>4. UnitTypeOK'
  BY <1>1, <1>2, <1>3 DEF UnitTypeOK
<1>5. ASSUME NEW h \in Requests, h # g
      PROVE  OnOwnSession(h)' /\ PendingIsOwn(h)' /\ CommitsWhole(h)'
  <2>1. /\ at'[h] = at[h]
        /\ Inside(h) => session'[UnitOf(h)] = session[UnitOf(h)] /\ repos'[UnitOf(h)] = repos[UnitOf(h)]
    BY <1>2, <1>5
  <2>2. \A k \in {First(h), Second(h)} : pending'[k] = pending[k]
    BY <1>2, <1>5 DEF First, Second, Sessions
  <2>3. Committed(h)' = Committed(h)
    BY <1>5 DEF Committed
  <2>4. OnOwnSession(h) /\ PendingIsOwn(h) /\ CommitsWhole(h)
    BY DEF UnitInv
  <2>5. OnOwnSession(h)'
    BY <2>1, <2>4 DEF OnOwnSession, Inside, InSecond
  <2>6. PendingIsOwn(h)'
    BY <2>1, <2>2, <2>4 DEF PendingIsOwn, Inside
  <2>7. CommitsWhole(h)'
    BY <2>1, <2>3, <2>4 DEF CommitsWhole
  <2> QED
    BY <2>5, <2>6, <2>7
<1>6. \A h \in Requests : at'[h] \in Steps
  BY <1>2
<1> QED
  BY <1>4, <1>5, <1>6 DEF UnitInv
(* What a statement of a request may count on.                               *)
LEMMA AtStatement ==
  ASSUME UnitInv, NEW g \in Requests
  PROVE  /\ UnitOf(g) \in Units
         /\ First(g) \in Sessions /\ Second(g) \in Sessions /\ First(g) # Second(g)
         /\ First(g) # NoSession /\ Second(g) # NoSession
         /\ at \in [Requests -> Steps]
         /\ session \in [Units -> Sessions \cup {NoSession}]
         /\ repos \in [Units -> Sessions \cup {NoSession}]
         /\ pending \in [Sessions -> SUBSET Rows] /\ db \in SUBSET Rows
         /\ OnOwnSession(g) /\ PendingIsOwn(g) /\ CommitsWhole(g)
<1>1. DOMAIN After = Steps \ {"done"}
  BY DEF After, Steps
<1>2. /\ at \in [Requests -> Steps]
      /\ session \in [Units -> Sessions \cup {NoSession}]
      /\ repos \in [Units -> Sessions \cup {NoSession}]
      /\ pending \in [Sessions -> SUBSET Rows] /\ db \in SUBSET Rows
  BY <1>1 DEF UnitInv, UnitTypeOK, Steps
<1>3. First(g) \in Sessions /\ Second(g) \in Sessions /\ First(g) # Second(g)
  BY DEF First, Second, Sessions
<1>4. First(g) # NoSession /\ Second(g) # NoSession
  BY <1>3, UnitAssumption
<1>5. OnOwnSession(g) /\ PendingIsOwn(g) /\ CommitsWhole(g)
  BY DEF UnitInv
<1>6. UnitOf(g) \in Units
  BY DEF UnitOf, Units
<1> QED
  BY <1>2, <1>3, <1>4, <1>5, <1>6

(* Nothing of a session is pending when it is opened.                        *)
LEMMA EnterKeeps ==
  ASSUME UnitInv, TransactionsApart', NEW g \in Requests, Enter(g)
  PROVE  UnitInv'
<1> DEFINE x == IF at[g] = "enter1" THEN "claim" ELSE "check"
           s == IF at[g] = "enter1" THEN First(g) ELSE Second(g)
<1>1. /\ at[g] \in {"enter1", "enter2"}
      /\ session' = [session EXCEPT ![UnitOf(g)] = s] /\ repos' = [repos EXCEPT ![UnitOf(g)] = s]
      /\ at' = [at EXCEPT ![g] = x]
      /\ UNCHANGED <<pending, db>>
  <2>1. at[g] \in {"enter1", "enter2"} => After[at[g]] = x
    BY DEF After
  <2>2. s = <<g, IF at[g] = "enter1" THEN 1 ELSE 2>>
    BY DEF First, Second
  <2> HIDE DEF x, s
  <2> QED
    BY <2>1, <2>2, AtStatement DEF Enter, Return
<1>2. x \in Steps /\ s \in {First(g), Second(g)} /\ s \in Sessions
  BY AtStatement DEF Steps
<1>3. at'[g] = x /\ session'[UnitOf(g)] = s /\ repos'[UnitOf(g)] = s
  BY <1>1, AtStatement
<1>4. OnOwnSession(g)'
  BY <1>1, <1>3 DEF OnOwnSession, InSecond
<1>5. PendingIsOwn(g)'
  BY <1>1, <1>3, AtStatement DEF PendingIsOwn, InSecond, WrittenBefore
<1>6. CommitsWhole(g)'
  BY <1>1, <1>3, AtStatement DEF CommitsWhole, InSecond, Committed
<1>8. at'[g] \in {"claim", "check"}
  BY <1>3
<1> HIDE DEF x, s
<1>7. /\ session' \in [Units -> Sessions \cup {NoSession}]
      /\ repos' \in [Units -> Sessions \cup {NoSession}]
  BY <1>1, <1>2, AtStatement
<1>9. ASSUME NEW h \in Requests \ {g}, Inside(h)
      PROVE  session'[UnitOf(h)] = session[UnitOf(h)] /\ repos'[UnitOf(h)] = repos[UnitOf(h)]
  <2>1. at'[h] = at[h] /\ at'[g] \in {"claim", "check"}
    BY <1>1, <1>8, AtStatement
  <2>2. UnitOf(h) # UnitOf(g)
    BY <1>9, <2>1 DEF TransactionsApart, Inside
  <2>3. UnitOf(h) \in Units
    BY AtStatement
  <2> QED
    BY <1>1, <2>2, <2>3, AtStatement
<1>10. db' = db \cup {} /\ {} \in SUBSET ({g} \X Writes)
  BY <1>1
<1> QED
  BY <1>1, <1>2, <1>4, <1>5, <1>6, <1>7, <1>9, <1>10, OwnStatement

(* A row written by a request is pending in its own session.                 *)
LEMMA WriteKeeps ==
  ASSUME UnitInv, NEW g \in Requests, NEW what \in Writes,
         \/ at[g] = "claim" /\ what = "running"
         \/ at[g] \in {"solver_run", "trip", "revision"} /\ what = at[g]
         \/ at[g] = "complete" /\ what = "completed",
         Write(g, what), Return(g), UNCHANGED <<session, repos, db>>
  PROVE  UnitInv'
<1> DEFINE x == After[at[g]]
           s == IF at[g] = "claim" THEN First(g) ELSE Second(g)
           q == pending[s] \cup {<<g, what>>}
<1>1. repos[UnitOf(g)] = s /\ session[UnitOf(g)] = s /\ s \in Sessions
  BY AtStatement DEF OnOwnSession, InSecond
<1>2. /\ pending' = [pending EXCEPT ![s] = q]
      /\ at' = [at EXCEPT ![g] = x]
  BY <1>1, AtStatement DEF Write, Return
<1>3. /\ x = IF at[g] = "claim" THEN "commit1"
             ELSE IF at[g] = "solver_run" THEN "trip"
             ELSE IF at[g] = "trip" THEN "revision"
             ELSE IF at[g] = "revision" THEN "complete" ELSE "commit2"
      /\ x \in Steps
  BY DEF After, Steps
<1>4. at'[g] = x /\ x = at'[g]
  BY <1>2, AtStatement
<1>5. /\ at[g] = "claim" => pending[s] = {}
      /\ at[g] # "claim" => pending[s] = {<<g, w>> : w \in WrittenBefore[at[g]]}
                            /\ pending[First(g)] = {}
      /\ at[g] = "claim" => pending[Second(g)] = {}
  BY AtStatement DEF PendingIsOwn, InSecond
<1>6. /\ at[g] = "claim" => q = {<<g, "running">>}
      /\ at[g] # "claim" => q = {<<g, w>> : w \in WrittenBefore[x]}
  BY <1>3, <1>5 DEF WrittenBefore
<1>7. q \in SUBSET ({g} \X Writes)
  BY <1>3, <1>6 DEF WrittenBefore, Writes
<1> HIDE DEF q, x
<1>8. OnOwnSession(g)'
  BY <1>1, <1>3, <1>4 DEF OnOwnSession, InSecond
<1>9. PendingIsOwn(g)'
  BY <1>2, <1>3, <1>4, <1>5, <1>6, AtStatement DEF PendingIsOwn, InSecond
<1>10. CommitsWhole(g)'
  BY <1>3, <1>4, AtStatement DEF CommitsWhole, InSecond, Committed
<1>11. db' = db \cup {} /\ {} \in SUBSET ({g} \X Writes)
  OBVIOUS
<1>12. s \in {First(g), Second(g)}
  OBVIOUS
<1> HIDE DEF s
<1> QED
  BY <1>2, <1>3, <1>7, <1>8, <1>9, <1>10, <1>11, <1>12, AtStatement, OwnStatement

(* A request that raises leaves its session as it is, to be closed.          *)
LEMMA RaiseKeeps ==
  ASSUME UnitInv, NEW g \in Requests,
         at[g] \in {"claim", "commit1"} \cup InSecond, Raise(g),
         UNCHANGED <<session, repos, pending, db>>
  PROVE  UnitInv'
<1>1. at' = [at EXCEPT ![g] = "raised"] /\ "raised" \in Steps
  BY DEF Raise, Steps
<1>2. at'[g] = "raised"
  BY <1>1, AtStatement
<1>3. OnOwnSession(g)'
  BY <1>2, AtStatement DEF OnOwnSession, InSecond
<1>4. PendingIsOwn(g)'
  BY <1>2, AtStatement DEF PendingIsOwn, InSecond, OnOwnSession
<1>5. CommitsWhole(g)'
  BY <1>2, AtStatement DEF CommitsWhole, InSecond, Committed
<1>6. db' = db \cup {} /\ {} \in SUBSET ({g} \X Writes)
  OBVIOUS
<1> QED
  BY <1>1, <1>3, <1>4, <1>5, <1>6, AtStatement, OwnStatement

(* A commit stores what the session has pending: one row, or the other four. *)
LEMMA CommitKeeps ==
  ASSUME UnitInv, NEW g \in Requests, Commit(g)
  PROVE  UnitInv'
<1> DEFINE x == IF at[g] = "commit1" THEN "exit1" ELSE "exit2"
           s == IF at[g] = "commit1" THEN First(g) ELSE Second(g)
<1>1. at[g] \in {"commit1", "commit2"} /\ UNCHANGED <<session, repos>>
  BY DEF Commit
<1>2. session[UnitOf(g)] = s /\ s \in Sessions /\ s # NoSession
  BY <1>1, AtStatement DEF OnOwnSession, InSecond
<1>3. /\ db' = db \cup pending[s] /\ pending' = [pending EXCEPT ![s] = {}]
      /\ at' = [at EXCEPT ![g] = x]
  BY <1>1, <1>2, AtStatement DEF Commit, Return, After
<1>4. at'[g] = x /\ x \in Steps
  BY <1>3, AtStatement DEF Steps
<1>5. /\ at[g] = "commit1" => pending[s] = {<<g, "running">>}
      /\ at[g] = "commit2" => pending[s] = {<<g, w>> : w \in Writes \ {"running"}}
  BY <1>1, AtStatement DEF PendingIsOwn, InSecond, WrittenBefore, Writes
<1>6. Committed(g)' = IF at[g] = "commit1" THEN {"running"} ELSE Writes
  <2>1. Committed(g) = IF at[g] = "commit1" THEN {} ELSE {"running"}
    BY <1>1, AtStatement DEF CommitsWhole, InSecond
  <2>2. Committed(g)' = Committed(g) \cup {w \in Writes : <<g, w>> \in pending[s]}
    BY <1>3 DEF Committed
  <2> QED
    BY <1>1, <1>5, <2>1, <2>2 DEF Writes
<1>7. OnOwnSession(g)'
  BY <1>1, <1>2, <1>4, AtStatement DEF OnOwnSession, InSecond
<1>8. PendingIsOwn(g)'
  BY <1>1, <1>3, <1>4, AtStatement DEF PendingIsOwn, InSecond
<1>9. CommitsWhole(g)'
  BY <1>1, <1>4, <1>6 DEF CommitsWhole, InSecond
<1>10. pending[s] \in SUBSET ({g} \X Writes) /\ {} \in SUBSET ({g} \X Writes)
  BY <1>1, <1>5 DEF Writes
<1>11. s \in {First(g), Second(g)}
  OBVIOUS
<1> HIDE DEF x, s
<1> QED
  BY <1>1, <1>3, <1>4, <1>7, <1>8, <1>9, <1>10, <1>11, AtStatement, OwnStatement

(* The end of a unit of work drops what its session has not committed.       *)
LEMMA ExitKeeps ==
  ASSUME UnitInv, TransactionsApart, NEW g \in Requests, Exit(g)
  PROVE  UnitInv'
<1> DEFINE x == IF at[g] = "exit1" THEN "solve" ELSE "done"
           s == session[UnitOf(g)]
<1>1. at[g] \in {"exit1", "exit2", "raised"} /\ UNCHANGED <<repos, db>>
  BY DEF Exit
<1>2. s \in {First(g), Second(g)} /\ s \in Sessions /\ s # NoSession
  BY <1>1, AtStatement DEF OnOwnSession
<1>3. /\ session' = [session EXCEPT ![UnitOf(g)] = NoSession]
      /\ pending' = [pending EXCEPT ![s] = {}]
      /\ at' = [at EXCEPT ![g] = x]
  <2>1. After[at[g]] = x
    BY <1>1 DEF After
  <2> HIDE DEF x
  <2> QED
    BY <1>2, <2>1, AtStatement DEF Exit, Return
<1>4. at'[g] = x /\ x \in Steps /\ x \in {"solve", "done"}
  BY <1>3, AtStatement DEF Steps
<1>5. OnOwnSession(g)'
  BY <1>4 DEF OnOwnSession, InSecond
<1>6. PendingIsOwn(g)'
  <2>1. \A k \in {First(g), Second(g)} \ {s} : pending[k] = {}
    BY <1>1, <1>2, AtStatement DEF PendingIsOwn, OnOwnSession, InSecond
  <2>2. pending'[First(g)] = {} /\ pending'[Second(g)] = {}
    BY <1>2, <1>3, <2>1, AtStatement
  <2> QED
    BY <1>4, <2>2 DEF PendingIsOwn, InSecond
<1>7. CommitsWhole(g)'
  BY <1>1, <1>4, AtStatement DEF CommitsWhole, InSecond, Committed
<1>8. db' = db \cup {} /\ {} \in SUBSET ({g} \X Writes)
  BY <1>1
<1>9. session' \in [Units -> Sessions \cup {NoSession}]
  BY <1>1, <1>3, AtStatement
<1>10. ASSUME NEW h \in Requests \ {g}, Inside(h)
       PROVE  session'[UnitOf(h)] = session[UnitOf(h)] /\ repos'[UnitOf(h)] = repos[UnitOf(h)]
  <2>1. UnitOf(h) # UnitOf(g)
    BY <1>1, <1>10 DEF TransactionsApart, Inside
  <2> QED
    BY <1>1, <1>3, <2>1, AtStatement
<1> HIDE DEF x, s
<1> QED
  BY <1>1, <1>2, <1>3, <1>4, <1>5, <1>6, <1>7, <1>8, <1>9, <1>10, AtStatement, OwnStatement

(* The solver runs outside a transaction, and a check only reads.            *)
LEMMA ReadKeeps ==
  ASSUME UnitInv, NEW g \in Requests, at[g] \in {"solve", "check"}, Return(g),
         UNCHANGED <<session, repos, pending, db>>
  PROVE  UnitInv'
<1> DEFINE x == IF at[g] = "solve" THEN "enter2" ELSE "solver_run"
<1>1. at' = [at EXCEPT ![g] = x] /\ x \in Steps
  <2>1. After[at[g]] = x
    BY DEF After
  <2>2. x \in Steps
    BY DEF Steps
  <2> HIDE DEF x
  <2> QED
    BY <2>1, <2>2 DEF Return
<1>2. at'[g] = x
  BY <1>1, AtStatement
<1>3. OnOwnSession(g)'
  BY <1>2, AtStatement DEF OnOwnSession, InSecond
<1>4. PendingIsOwn(g)'
  <2>1. WrittenBefore["check"] = {} /\ WrittenBefore["solver_run"] = {}
    BY DEF WrittenBefore
  <2>2. PendingIsOwn(g) /\ pending' = pending
    BY AtStatement
  <2>3. CASE at[g] = "solve"
    BY <1>2, <2>2, <2>3 DEF PendingIsOwn, InSecond
  <2>4. CASE at[g] = "check"
    BY <1>2, <2>1, <2>2, <2>4 DEF PendingIsOwn, InSecond
  <2> QED
    BY <2>3, <2>4
<1>5. CommitsWhole(g)'
  BY <1>2, AtStatement DEF CommitsWhole, InSecond, Committed
<1>6. db' = db \cup {} /\ {} \in SUBSET ({g} \X Writes)
  OBVIOUS
<1> HIDE DEF x
<1> QED
  BY <1>1, <1>3, <1>4, <1>5, <1>6, AtStatement, OwnStatement

(* Statements of all requests, one at a time.                                *)
LEMMA UnitPreserved ==
  ASSUME UnitInv, TransactionsApart, TransactionsApart', [UnitNext]_unitVars
  PROVE  UnitInv'
<1>1. CASE UNCHANGED unitVars
  <2>1. UnitTypeOK'
    BY <1>1 DEF unitVars, UnitInv, UnitTypeOK
  <2>2. ASSUME NEW h \in Requests
        PROVE  at'[h] \in Steps /\ OnOwnSession(h)' /\ PendingIsOwn(h)' /\ CommitsWhole(h)'
    BY <1>1 DEF unitVars, UnitInv, OnOwnSession, PendingIsOwn, CommitsWhole, Committed
  <2> QED
    BY <2>1, <2>2 DEF UnitInv
<1>2. ASSUME NEW g \in Requests, Enter(g) \/ Commit(g) \/ Exit(g) PROVE UnitInv'
  BY <1>2, EnterKeeps, CommitKeeps, ExitKeeps, Zenon
<1>3. ASSUME NEW g \in Requests, Claim(g) PROVE UnitInv'
  <2>1. /\ at[g] = "claim" /\ "running" \in Writes
        /\ Write(g, "running") /\ Return(g) /\ UNCHANGED <<session, repos, db>>
    BY <1>3 DEF Claim, Writes
  <2> QED
    BY <2>1, WriteKeeps
<1>4. ASSUME NEW g \in Requests, Add(g) PROVE UnitInv'
  <2>1. /\ at[g] \in {"solver_run", "trip", "revision"} /\ at[g] \in Writes
        /\ Write(g, at[g]) /\ Return(g) /\ UNCHANGED <<session, repos, db>>
    BY <1>4 DEF Add, Writes
  <2> QED
    BY <2>1, WriteKeeps
<1>5. ASSUME NEW g \in Requests, Fault(g) PROVE UnitInv'
  BY <1>5, RaiseKeeps DEF Fault, InSecond
<1>6. ASSUME NEW g \in Requests, Solve(g) PROVE UnitInv'
  BY <1>6, ReadKeeps DEF Solve
<1>7. ASSUME NEW g \in Requests, Check(g) PROVE UnitInv'
  BY <1>7, ReadKeeps, RaiseKeeps DEF Check, InSecond
<1>8. ASSUME NEW g \in Requests, Complete(g) PROVE UnitInv'
  BY <1>8, WriteKeeps, RaiseKeeps DEF Complete, InSecond, Writes
<1> QED
  BY <1>1, <1>2, <1>3, <1>4, <1>5, <1>6, <1>7, <1>8, Zenon DEF UnitNext

(* Sessions and stored rows keep their types, with a unit of work per request    *)
(* and with a shared one whose transactions do not overlap.                    *)
THEOREM UnitTypes == UnitSpec /\ []TransactionsApart => []UnitTypeOK
<1>1. UnitInv => UnitTypeOK
  BY DEF UnitInv
<1>2. UnitInv /\ TransactionsApart /\ TransactionsApart' /\ [UnitNext]_unitVars => UnitInv'
  BY UnitPreserved
<1> QED
  BY <1>1, <1>2, UnitBegins, PTL DEF UnitSpec

(* Keeping transactions of one unit of work apart is all it takes to make them *)
(* whole, also on the shared unit of ExecuteGenerationHandler, and although the  *)
(* solver runs of its requests overlap: the rows of a completion are all stored  *)
(* or none is, a request answered without an exception has committed, and nothing *)
(* is left open behind the last one.                                           *)
THEOREM RequestsAreWhole == UnitSpec /\ []TransactionsApart => []TransactionsAreWhole
<1>1. UnitInv => TransactionsAreWhole
  <2> SUFFICES ASSUME UnitInv PROVE TransactionsAreWhole
    OBVIOUS
  <2>1. CompletionIsAtomic
    <3>1. ASSUME NEW h \in Requests PROVE Committed(h) \in {{}, {"running"}, Writes}
      BY AtStatement DEF CommitsWhole, InSecond, Steps
    <3>2. ASSUME NEW h \in Requests
          PROVE  {what \in Writes \ {"running"} : <<h, what>> \in db} = Committed(h) \ {"running"}
      BY DEF Committed
    <3>3. ASSUME NEW h \in Requests
          PROVE  Committed(h) \ {"running"} \in {{}, Writes \ {"running"}}
      BY <3>1
    <3> QED
      BY <3>2, <3>3 DEF CompletionIsAtomic
  <2>2. ReturnsMeanCommitted
    BY AtStatement DEF ReturnsMeanCommitted, CommitsWhole, Committed, Writes
  <2>3. NothingLeaks
    <3> SUFFICES ASSUME \A h \in Requests : at[h] = "done", NEW s \in Sessions
                 PROVE  pending[s] = {}
      BY DEF NothingLeaks
    <3>1. PICK h \in Requests : s \in {First(h), Second(h)}
      BY DEF Sessions, First, Second
    <3> QED
      BY <3>1, AtStatement DEF PendingIsOwn, InSecond
  <2> QED
    BY <2>1, <2>2, <2>3 DEF TransactionsAreWhole
<1>2. UnitInv /\ TransactionsApart /\ TransactionsApart' /\ [UnitNext]_unitVars => UnitInv'
  BY UnitPreserved
<1> QED
  BY <1>1, <1>2, UnitBegins, PTL DEF UnitSpec

(* A unit of work per request keeps them apart by itself, as the wiring of     *)
(* every other handler does.                                                   *)
THEOREM OwnUnitsAreWhole == ~ Shared => (UnitSpec => []TransactionsAreWhole)
<1>1. ASSUME ~ Shared PROVE UnitSpec => []TransactionsAreWhole
  <2>1. TransactionsApart
    BY <1>1 DEF TransactionsApart, UnitOf
  <2> QED
    BY <2>1, RequestsAreWhole, PTL
<1> QED
  BY <1>1
===============================================================================
