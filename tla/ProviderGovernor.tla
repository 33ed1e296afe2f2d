--------------------------- MODULE ProviderGovernor ----------------------------
(***************************************************************************)
(* provider_governance.py under the map and weather clients: processes     *)
(* that build snapshots share one record per provider, in a JSON file      *)
(* behind a file lock or in Redis behind WATCH.  Every call reads the      *)
(* clock first and the record later.  One record is modelled; its success  *)
(* and failure totals are reported but never read back, and are left out.  *)
(***************************************************************************)
EXTENDS Naturals, FiniteSets

CONSTANTS Workers, Nil, Budget, Interval, Threshold, OpenFor, DayLength, MaxTime

(* A record of a provider, whatever its numbers.                             *)
AnyUsage == [day : Nat, requests : Nat, failures : Nat, last : Nat \cup {Nil},
             until : Nat \cup {Nil}]

ASSUME GovernorAssumption ==
  /\ {Budget, Threshold, OpenFor, DayLength} \subseteq Nat \ {0}   \* ProviderGovernancePolicy
  /\ {Interval, MaxTime} \subseteq Nat
  /\ Nil \notin Nat \cup Workers \cup AnyUsage

VARIABLES
  backend,   (* "json" or "redis", chosen by the deployment                 *)
  clock,     (* of the machine, in ticks                                    *)
  usage,     (* the record of the provider; Nil before the first call      *)
  holder,    (* json: the worker in the file lock                           *)
  watching,  (* redis: workers whose watched key has not been written       *)
  call,      (* the call of each worker                                     *)
  sent,      (* history: requests let through, by the clock they were let by, *)
  spent,     (* and by its day                                              *)
  overtaken  (* history: a call was stored after one of a later day             *)

govVars == <<backend, clock, usage, holder, watching, call, sent, spent, overtaken>>

Times == 0 .. MaxTime
DayNumbers == 0 .. (MaxTime \div DayLength)
DayOf(t) == t \div DayLength
Results == {"success", "rate_limited", "timeout", "no_route"}
Operations == {"before"} \cup Results

Usage == [day : DayNumbers, requests : 0 .. Budget, failures : 0 .. Cardinality(Workers) + Threshold,
          last : Times \cup {Nil}, until : (0 .. MaxTime + OpenFor) \cup {Nil}]

NoCall == [at |-> "idle", op |-> "before", now |-> 0, seen |-> Nil]
Call == [at : {"idle", "timed", "loaded", "sent"}, op : Operations, now : Times,
         seen : Usage \cup {Nil}]

(* The record never counts more requests than the budget.                    *)
GovernorTypeOK ==
  /\ backend \in {"json", "redis"}
  /\ clock \in Times
  /\ usage \in Usage \cup {Nil}
  /\ holder \in Workers \cup {Nil}
  /\ watching \subseteq Workers
  /\ call \in [Workers -> Call]
  /\ sent \in [Times -> Nat]
  /\ spent \in [DayNumbers -> Nat]
  /\ overtaken \in BOOLEAN

GovernorInit ==
  /\ backend \in {"json", "redis"}
  /\ clock = 0
  /\ usage = Nil
  /\ holder = Nil
  /\ watching = {}
  /\ call = [w \in Workers |-> NoCall]
  /\ sent = [t \in Times |-> 0]
  /\ spent = [d \in DayNumbers |-> 0]
  /\ overtaken = FALSE

(* _state_for_today: another day than the record's starts from zero, be it   *)
(* a later or an earlier one.                                                *)
ForToday(u, now) ==
  IF u = Nil
  THEN [day |-> DayOf(now), requests |-> 0, failures |-> 0, last |-> Nil, until |-> Nil]
  ELSE IF u.day = DayOf(now) THEN u
  ELSE [u EXCEPT !.day = DayOf(now), !.requests = 0]

(* The circuit lapses; then its failures are forgotten too.                  *)
Lapsed(u) == IF u.until = Nil THEN u ELSE [u EXCEPT !.until = Nil, !.failures = 0]

CircuitIgnored(u, now) == FALSE         \* mutant: the circuit is not looked at
CircuitOpen(u, now) == u.until # Nil /\ now < u.until

TooSoon(u, now) == u.last # Nil /\ now < u.last + Interval

(* _apply_before_request: otherwise it raises, and nothing is stored.        *)
Allowed(u, now) ==
  /\ ~ CircuitOpen(u, now)
  /\ ~ TooSoon(u, now)
  /\ u.requests < Budget

Counted(u, now) == [Lapsed(u) EXCEPT !.requests = @ + 1, !.last = now]

(* _apply_success closes the circuit, whoever opened it.                     *)
AfterSuccess(u) == [u EXCEPT !.failures = 0, !.until = Nil]

(* _apply_failure: a rate limit opens the circuit at once; timeouts after    *)
(* Threshold in a row; an answer without a route does not count.             *)
AfterFailure(u, code, now) ==
  LET counted == IF code = "timeout" THEN u.failures + 1 ELSE u.failures IN
  [u EXCEPT !.failures = counted,
            !.until = IF code = "rate_limited" \/ counted >= Threshold
                      THEN now + OpenFor ELSE @]

Stored(c) ==
  CASE c.op = "before" -> Counted(c.seen, c.now)
    [] c.op = "success" -> AfterSuccess(c.seen)
    [] OTHER -> AfterFailure(c.seen, c.op, c.now)

-------------------------------------------------------------------------------
Tick ==
  /\ clock < MaxTime
  /\ clock' = clock + 1
  /\ UNCHANGED <<backend, usage, holder, watching, call, sent, spent, overtaken>>

(* fetch() asks the governor first; its answer is recorded when it arrives.  *)
BeginCall(w, op) ==
  /\ call[w].at = (IF op = "before" THEN "idle" ELSE "sent")
  /\ call' = [call EXCEPT ![w] = [NoCall EXCEPT !.at = "timed", !.op = op, !.now = clock]]
  /\ UNCHANGED <<backend, clock, usage, holder, watching, sent, spent, overtaken>>

LockFree == holder = Nil

Load(w) ==
  /\ call[w].at = "timed"
  /\ IF backend = "json"
     THEN LockFree /\ holder' = w /\ UNCHANGED watching
     ELSE watching' = watching \cup {w} /\ UNCHANGED holder
  /\ call' = [call EXCEPT ![w].at = "loaded", ![w].seen = ForToday(usage, call[w].now)]
  /\ UNCHANGED <<backend, clock, usage, sent, spent, overtaken>>

LetGo(w) ==
  /\ holder' = IF holder = w THEN Nil ELSE holder
  /\ watching' = watching \ {w}

(* ProviderRequestBlocked leaves the record as it was.                       *)
Block(w) ==
  /\ call[w].at = "loaded"
  /\ call[w].op = "before"
  /\ ~ Allowed(call[w].seen, call[w].now)
  /\ LetGo(w)
  /\ call' = [call EXCEPT ![w] = NoCall]
  /\ UNCHANGED <<backend, clock, usage, sent, spent, overtaken>>

Unchanged_Ignored(w) == TRUE            \* mutant: EXEC without WATCH
Unchanged(w) == backend = "json" \/ w \in watching

(* The record is written: under the lock, or because nobody wrote the key    *)
(* since WATCH; every other watcher of the key is then refused.              *)
Store(w) ==
  /\ call[w].at = "loaded"
  /\ IF call[w].op = "before" THEN Allowed(call[w].seen, call[w].now) ELSE TRUE
  /\ Unchanged(w)
  /\ usage' = Stored(call[w])
  /\ holder' = IF holder = w THEN Nil ELSE holder
  /\ watching' = {}
  /\ overtaken' = (overtaken \/ (usage # Nil /\ usage.day > usage'.day))
  /\ IF call[w].op = "before"
     THEN /\ sent' = [sent EXCEPT ![call[w].now] = @ + 1]
          /\ spent' = [spent EXCEPT ![DayOf(call[w].now)] = @ + 1]
          /\ call' = [call EXCEPT ![w] = [NoCall EXCEPT !.at = "sent"]]
     ELSE call' = [call EXCEPT ![w] = NoCall] /\ UNCHANGED <<sent, spent>>
  /\ UNCHANGED <<backend, clock>>

(* WatchError: from the beginning, with the clock as it was read.            *)
Retry(w) ==
  /\ call[w].at = "loaded"
  /\ ~ Unchanged(w)
  /\ call' = [call EXCEPT ![w].at = "timed", ![w].seen = Nil]
  /\ UNCHANGED <<backend, clock, usage, holder, watching, sent, spent, overtaken>>

(* A process that dies frees the file lock; the file is replaced whole.      *)
Die(w) ==
  /\ call[w].at # "idle"
  /\ LetGo(w)
  /\ call' = [call EXCEPT ![w] = NoCall]
  /\ UNCHANGED <<backend, clock, usage, sent, spent, overtaken>>

GovernorNext ==
  \/ Tick
  \/ \E w \in Workers :
       \/ \E op \in Operations : BeginCall(w, op)
       \/ Load(w) \/ Block(w) \/ Store(w) \/ Retry(w) \/ Die(w)

GovernorSpec == GovernorInit /\ [][GovernorNext]_govVars

-------------------------------------------------------------------------------
(* Requests of all processes together are Interval apart, by the clocks      *)
(* they were let through with.                                               *)
RequestsAreSpaced ==
  \A t \in Times :
    /\ Interval > 0 => sent[t] <= 1
    /\ \A u \in Times : sent[t] > 0 /\ sent[u] > 0 /\ t < u => u - t >= Interval

(* The requests of a day stay within its budget, whatever processes run, as  *)
(* long as no call that read its clock before midnight is stored after one   *)
(* that read it later: that one takes the record back to the day before, and *)
(* the budgets of both days start anew.                                      *)
BudgetIsKept == ~ overtaken => \A d \in DayNumbers : spent[d] <= Budget

(* The interval and the budget a deployment sets for a provider are kept by  *)
(* all of its processes together.                                            *)
LimitsAreKept == RequestsAreSpaced /\ BudgetIsKept

(* A request is refused while the circuit is open: with no success recorded  *)
(* meanwhile, nothing is sent from a rate limit until OpenFor later.  The    *)
(* success may be of a request sent before the limit was hit.                *)
CircuitRefuses ==
  [][\A w \in Workers :
       call[w].at = "loaded" /\ call'[w].at = "sent" /\ usage # Nil /\ usage.until # Nil
         => call[w].now >= usage.until]_govVars
===============================================================================
