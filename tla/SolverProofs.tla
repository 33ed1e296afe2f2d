------------------------------- MODULE SolverProofs ----------------------------
(***************************************************************************)
(* The solver's trip, for any number of attractions and days and whatever  *)
(* its searches return: every attraction is accounted for once, and a day  *)
(* that takes in what another one dropped loses nothing by it.  And the    *)
(* routes it is given: builds of a snapshot, for any number of pairs and   *)
(* modes, take no route that has expired, and one after the other they     *)
(* resume where the last one stopped.                                      *)
(***************************************************************************)
EXTENDS Itinerary, DaySchedule, FiniteSetTheorems, SequenceTheorems, TLAPS

-------------------------------------------------------------------------------
(* Itinerary.                                                                *)

Named(s) == {s[n].a : n \in DOMAIN s}
Queued == Named(dropped)
ListedOnce(s) == \A m, n \in DOMAIN s : s[m].a = s[n].a => m = n

Codes == {"DAY_CAPACITY_EXCEEDED", "NO_WEATHER_SAFE_DATE", "EMPTY_DAY_WINDOW",
          "NO_AVAILABLE_DATE", "ROUTING_UNPLACED"}

TripTypeOK ==
  /\ step \in {"assign", "initial", "rescue", "final", "done"}
  /\ allocated \in [Days -> Seq(Sights)]
  /\ routed \in [Days -> SUBSET Sights]
  /\ searched \in SUBSET Routable /\ moved \in SUBSET Routable
  /\ unplaced \in Seq([a : Sights, code : Codes])
  /\ dropped \in Seq([a : Sights, tried : SUBSET Days])

(* Until the end an eligible attraction waits, is on one day, in the queue of  *)
(* dropped ones or given up, once.                                             *)
PlacedOnce ==
  /\ \A d, e \in Days : d # e => Holding(d) \cap Holding(e) = {}
  /\ \A d \in Days : Holding(d) \cap (GivenUp \cup Queued) = {}
  /\ GivenUp \cap Queued = {}
  /\ ListedOnce(unplaced) /\ ListedOnce(dropped)
  /\ Handled \cup Queued \subseteq Eligible
  /\ step # "assign" => Eligible \subseteq Handled \cup Queued
Suited == \A d \in Days : \A a \in Holding(d) : room[d] # NoDay /\ input[a].blocked[d] = {}

(* Routes are of the days that have been searched.                             *)
RoutesOfDays ==
  /\ \A d \in Days \ Routable : routed[d] = {}
  /\ step \in {"initial", "final"} => \A d \in searched : routed[d] \subseteq Holding(d)
  /\ step \in {"assign", "rescue"} => searched = {}
  /\ step # "rescue" => dropped = << >>

(* A day that took something in has been searched as it is now, with nothing   *)
(* left out, and will be answered the same.                                    *)
RescuesAreKnown ==
  /\ step \in {"assign", "initial"} => moved = {}
  /\ \A d \in moved \ timed :
       <<d, allocated[d]>> \in DOMAIN known /\ known[<<d, allocated[d]>>] = Holding(d)
  /\ step = "final" => \A d \in (moved \ timed) \cap searched : routed[d] = Holding(d)

TripInv ==
  /\ TripTypeOK
  /\ step # "done" => PlacedOnce /\ Suited /\ RoutesOfDays /\ RescuesAreKnown
  /\ TripIsAccountedFor

-------------------------------------------------------------------------------
(* What is in a row after it has got one more.                                 *)
LEMMA AppendRange ==
  ASSUME NEW S, NEW s \in Seq(S), NEW x \in S
  PROVE  Append(s, x) \in Seq(S) /\ Range(Append(s, x)) = Range(s) \cup {x}
<1>1. /\ Append(s, x) \in Seq(S) /\ Len(Append(s, x)) = Len(s) + 1
      /\ \A n \in 1 .. Len(s) : Append(s, x)[n] = s[n]
      /\ Append(s, x)[Len(s) + 1] = x
      /\ Len(s) \in Nat
  OBVIOUS
<1>2. DOMAIN Append(s, x) = (DOMAIN s) \cup {Len(s) + 1} /\ DOMAIN s = 1 .. Len(s)
  BY <1>1
<1> QED
  BY <1>1, <1>2 DEF Range

(* A row of a set's members has each of them once.                             *)
LEMMA EnumerationOf ==
  ASSUME NEW S \in SUBSET Sights, NEW row \in Enumerations(S)
  PROVE  /\ row \in Seq(S) /\ Range(row) = S
         /\ \A m, n \in DOMAIN row : row[m] = row[n] => m = n
<1>1. IsFiniteSet(S)
  BY TripAssumption, FS_Subset
<1>2. Cardinality(S) \in Nat
  BY <1>1, FS_CardinalityType
<1>3. /\ row \in [1 .. Cardinality(S) -> S]
      /\ \A a, b \in DOMAIN row : row[a] = row[b] => a = b
      /\ \A t \in S : \E n \in 1 .. Cardinality(S) : row[n] = t
  BY DEF Enumerations, Bijection, Injection, Surjection, IsInjective
<1>4. row \in Seq(S)
  BY <1>2, <1>3
<1>5. Range(row) = S
  BY <1>3 DEF Range
<1> QED
  BY <1>3, <1>4, <1>5

(* The attractions of a list of records, after it has got one more.            *)
LEMMA AppendListed ==
  ASSUME NEW R, NEW s \in Seq(R), NEW r \in R, \A n \in DOMAIN s : s[n].a # r.a, ListedOnce(s)
  PROVE  /\ Append(s, r) \in Seq(R) /\ ListedOnce(Append(s, r))
         /\ Named(Append(s, r)) = Named(s) \cup {r.a}
<1>1. /\ Append(s, r) \in Seq(R) /\ Len(Append(s, r)) = Len(s) + 1
      /\ \A n \in 1 .. Len(s) : Append(s, r)[n] = s[n]
      /\ Append(s, r)[Len(s) + 1] = r
      /\ Len(s) \in Nat
  OBVIOUS
<1>2. DOMAIN Append(s, r) = (DOMAIN s) \cup {Len(s) + 1} /\ DOMAIN s = 1 .. Len(s)
  BY <1>1
<1> HIDE DEF ListedOnce
<1>3. Named(Append(s, r)) = Named(s) \cup {r.a}
  BY <1>1, <1>2 DEF Named
<1>4. ListedOnce(Append(s, r))
  BY <1>1, <1>2 DEF ListedOnce
<1> QED
  BY <1>1, <1>3, <1>4

(* The queue without its head.                                                 *)
LEMMA TailListed ==
  ASSUME NEW R, NEW s \in Seq(R), s # << >>, ListedOnce(s)
  PROVE  /\ Head(s) \in R /\ Tail(s) \in Seq(R) /\ ListedOnce(Tail(s))
         /\ Named(Tail(s)) = Named(s) \ {Head(s).a}
         /\ Head(s).a \in Named(s)
<1>1. /\ Len(s) \in Nat /\ Len(s) > 0 /\ Head(s) = s[1] /\ Tail(s) \in Seq(R)
      /\ Len(Tail(s)) = Len(s) - 1
      /\ \A n \in 1 .. Len(s) - 1 : Tail(s)[n] = s[n + 1]
      /\ DOMAIN s = 1 .. Len(s) /\ DOMAIN Tail(s) = 1 .. Len(s) - 1
  BY HeadTailProperties, EmptySeq
<1>2. ListedOnce(Tail(s))
  BY <1>1 DEF ListedOnce
<1>3. \A n \in DOMAIN Tail(s) : n + 1 \in DOMAIN s /\ Tail(s)[n].a = s[n + 1].a /\ Tail(s)[n].a # s[1].a
  BY <1>1 DEF ListedOnce
<1>4. \A n \in DOMAIN s : n # 1 => n - 1 \in DOMAIN Tail(s) /\ Tail(s)[n - 1].a = s[n].a
  BY <1>1
<1>5. Named(Tail(s)) = Named(s) \ {s[1].a}
  <2>1. ASSUME NEW a \in Named(Tail(s)) PROVE a \in Named(s) \ {s[1].a}
    BY <1>3 DEF Named
  <2>2. ASSUME NEW a \in Named(s), a # s[1].a PROVE a \in Named(Tail(s))
    <3>1. PICK n \in DOMAIN s : a = s[n].a
      BY DEF Named
    <3>2. n - 1 \in DOMAIN Tail(s) /\ a = Tail(s)[n - 1].a
      BY <1>4, <2>2, <3>1
    <3> QED
      BY <3>2 DEF Named
  <2> QED
    BY <2>1, <2>2
<1>6. 1 \in DOMAIN s /\ s[1] \in R
  BY <1>1
<1> QED
  BY <1>1, <1>2, <1>5, <1>6 DEF Named

(* The queue whose head has tried another day.                                 *)
LEMMA RetriedListed ==
  ASSUME NEW R, NEW s \in Seq(R), s # << >>, NEW x \in R, x.a = Head(s).a, ListedOnce(s)
  PROVE  LET t == <<x>> \o Tail(s) IN
         /\ t \in Seq(R) /\ ListedOnce(t)
         /\ Named(t) = Named(s)
<1> DEFINE t == <<x>> \o Tail(s)
<1>1. /\ Len(s) \in Nat /\ Len(s) > 0 /\ Head(s) = s[1] /\ Tail(s) \in Seq(R)
      /\ Len(Tail(s)) = Len(s) - 1
      /\ \A n \in 1 .. Len(s) - 1 : Tail(s)[n] = s[n + 1]
      /\ DOMAIN s = 1 .. Len(s)
  BY HeadTailProperties, EmptySeq
<1>2. /\ t \in Seq(R) /\ Len(t) = Len(s) /\ t[1] = x
      /\ \A n \in 2 .. Len(t) : t[n] = s[n]
  <2>1. <<x>> \in Seq(R) /\ Len(<<x>>) = 1 /\ <<x>>[1] = x
    OBVIOUS
  <2>2. t \in Seq(R) /\ Len(t) = Len(<<x>>) + Len(Tail(s))
    BY <1>1, <2>1
  <2>3. \A n \in 1 .. Len(t) : t[n] = IF n <= 1 THEN <<x>>[n] ELSE Tail(s)[n - 1]
    BY <1>1, <2>1, <2>2
  <2> QED
    BY <1>1, <2>1, <2>2, <2>3
<1>3. DOMAIN t = DOMAIN s
  BY <1>1, <1>2
<1> HIDE DEF t
<1>4. \A n \in DOMAIN s : t[n].a = s[n].a
  BY <1>1, <1>2
<1>5. ListedOnce(t) /\ Named(t) = Named(s)
  BY <1>3, <1>4 DEF ListedOnce, Named
<1> QED
  BY <1>2, <1>5 DEF t

(* What a search says is known afterwards, unless it was cut short; what was   *)
(* known is still known, and said again.                                       *)
LEMMA SearchAnswers ==
  ASSUME NEW d, NEW row, NEW result, Search(d, row, result)
  PROVE  /\ timed \subseteq timed' /\ DOMAIN known \subseteq DOMAIN known'
         /\ \A q \in DOMAIN known : known'[q] = known[q]
         /\ d \in timed' \/ (<<d, row>> \in DOMAIN known' /\ known'[<<d, row>>] = result)
         /\ <<d, row>> \in DOMAIN known /\ d \notin timed' => result = known[<<d, row>>]
  BY DEF Search

-------------------------------------------------------------------------------
(* Nothing has been placed, searched or given up.                              *)
LEMMA TripBegins == TripInit => TripInv
<1> SUFFICES ASSUME TripInit PROVE TripInv
  OBVIOUS
<1> USE DEF TripInit
<1>1. \A d \in Days : Holding(d) = {}
  BY DEF Holding, Range
<1>2. GivenUp = {} /\ Queued = {}
  BY DEF GivenUp, Queued, Named
<1>3. TripTypeOK
  BY DEF TripTypeOK
<1>4. PlacedOnce
  BY <1>1, <1>2 DEF PlacedOnce, ListedOnce, Handled
<1>5. Suited
  BY <1>1 DEF Suited
<1>6. RoutesOfDays
  BY DEF RoutesOfDays, Routable
<1>7. RescuesAreKnown
  BY DEF RescuesAreKnown
<1>8. TripIsAccountedFor
  BY DEF TripIsAccountedFor, NothingIsLost, RescueDisplacesNothing
<1> QED
  BY <1>3, <1>4, <1>5, <1>6, <1>7, <1>8 DEF TripInv

(* What has been handled is on some day or given up.                           *)
LEMMA HandledOnes ==
  /\ \A a : a \in Handled <=> a \in GivenUp \/ \E d \in Days : a \in Holding(d)
  /\ \A a : a \in Handled' <=> a \in GivenUp' \/ \E d \in Days : a \in Holding(d)'
  BY DEF Handled

(* What every step before the last has to show.                                *)
LEMMA NotDoneYet ==
  ASSUME step' # "done", TripTypeOK', PlacedOnce', Suited', RoutesOfDays', RescuesAreKnown'
  PROVE  TripInv'
  BY DEF TripInv, TripIsAccountedFor, NothingIsLost, RescueDisplacesNothing

(* A day takes in an attraction that was nowhere.                              *)
LEMMA DayTakesIn ==
  ASSUME TripTypeOK, NEW d \in Days, NEW a \in Sights,
         allocated' = [allocated EXCEPT ![d] = Append(@, a)]
  PROVE  /\ allocated' \in [Days -> Seq(Sights)]
         /\ Holding(d)' = Holding(d) \cup {a}
         /\ allocated'[d] = Append(allocated[d], a)
         /\ \A e \in Days \ {d} : allocated'[e] = allocated[e] /\ Holding(e)' = Holding(e)
<1>1. allocated[d] \in Seq(Sights)
  BY DEF TripTypeOK
<1>2. allocated'[d] = Append(allocated[d], a) /\ \A e \in Days \ {d} : allocated'[e] = allocated[e]
  BY DEF TripTypeOK
<1>3. Append(allocated[d], a) \in Seq(Sights)
      /\ Range(Append(allocated[d], a)) = Range(allocated[d]) \cup {a}
  BY <1>1, AppendRange
<1>4. allocated' \in [Days -> Seq(Sights)]
  BY <1>3 DEF TripTypeOK
<1>5. Holding(d)' = Holding(d) \cup {a}
  BY <1>2, <1>3 DEF Holding
<1>6. \A e \in Days \ {d} : Holding(e)' = Holding(e)
  BY <1>2 DEF Holding
<1> QED
  BY <1>2, <1>4, <1>5, <1>6

(* The list of what was given up gets one more.                                *)
LEMMA ListTakesIn ==
  ASSUME TripTypeOK, ListedOnce(unplaced), NEW a \in Sights \ GivenUp, NEW code \in Codes,
         GiveUp(a, code)
  PROVE  /\ unplaced' \in Seq([a : Sights, code : Codes])
         /\ ListedOnce(unplaced)' /\ GivenUp' = GivenUp \cup {a}
<1> DEFINE r == [a |-> a, code |-> code]
<1>1. unplaced' = Append(unplaced, r) /\ r \in [a : Sights, code : Codes] /\ r.a = a
  BY DEF GiveUp
<1>2. \A n \in DOMAIN unplaced : unplaced[n].a # r.a
  BY <1>1 DEF GivenUp, Named
<1> HIDE DEF r
<1>3. /\ Append(unplaced, r) \in Seq([a : Sights, code : Codes]) /\ ListedOnce(Append(unplaced, r))
      /\ Named(Append(unplaced, r))
           = Named(unplaced) \cup {r.a}
  <2> DEFINE R == [a : Sights, code : Codes]
  <2>1. unplaced \in Seq(R) /\ r \in R
    BY <1>1 DEF TripTypeOK
  <2> HIDE DEF R
  <2>2. /\ Append(unplaced, r) \in Seq(R) /\ ListedOnce(Append(unplaced, r))
        /\ Named(Append(unplaced, r))
             = Named(unplaced) \cup {r.a}
    BY <1>2, <2>1, AppendListed
  <2> QED
    BY <2>2 DEF R
<1>4. ListedOnce(unplaced)'
  BY <1>1, <1>3 DEF ListedOnce
<1>5. GivenUp' = GivenUp \cup {a}
  BY <1>1, <1>3 DEF GivenUp, Named
<1> QED
  BY <1>1, <1>3, <1>4, <1>5

(* The most tiring attraction that waits gets a day, or is given up.           *)
LEMMA AssignKeeps ==
  ASSUME TripInv, Assign
  PROVE  TripInv'
<1>1. /\ step = "assign" /\ step' = "assign"
      /\ UNCHANGED <<Inputs, routed, searched, dropped, moved, known, timed>>
      /\ TripTypeOK /\ PlacedOnce /\ Suited /\ RoutesOfDays /\ RescuesAreKnown
  BY DEF Assign, TripInv
<1>2. PICK a \in Eligible \ Handled :
        \/ GiveUp(a, Overall(a)) /\ UNCHANGED allocated
        \/ /\ \E day \in {d \in Days : Reasons(a, d) = {}} :
                allocated' = [allocated EXCEPT ![day] = Append(@, a)]
           /\ UNCHANGED unplaced
  BY DEF Assign
<1>3. /\ a \in Sights /\ a \notin GivenUp /\ \A d \in Days : a \notin Holding(d)
      /\ Queued = {} /\ Queued' = {} /\ Eligible' = Eligible /\ Routable' = Routable
  <2>1. dropped = << >> /\ dropped' = << >>
    BY <1>1 DEF RoutesOfDays
  <2>2. Queued = {} /\ Queued' = {}
    BY <2>1 DEF Queued, Named
  <2>3. Eligible' = Eligible /\ Routable' = Routable
    BY <1>1 DEF Eligible, Rejected, Inputs, Routable
  <2>4. a \in Sights /\ a \notin GivenUp /\ \A d \in Days : a \notin Holding(d)
    BY HandledOnes DEF Eligible
  <2> QED
    BY <2>2, <2>3, <2>4
<1>4. CASE GiveUp(a, Overall(a)) /\ UNCHANGED allocated
  <2>1. Overall(a) \in Codes
    BY DEF Overall, Codes
  <2>2. /\ unplaced' \in Seq([a : Sights, code : Codes])
        /\ ListedOnce(unplaced)' /\ GivenUp' = GivenUp \cup {a}
    BY <1>1, <1>3, <1>4, <2>1, ListTakesIn DEF PlacedOnce
  <2>3. \A d \in Days : Holding(d)' = Holding(d) /\ allocated'[d] = allocated[d]
    BY <1>4 DEF Holding
  <2>4. TripTypeOK'
    BY <1>1, <1>3, <1>4, <2>2 DEF TripTypeOK
  <2>5. PlacedOnce'
    <3>1. Handled' = Handled \cup {a}
      BY <2>2, <2>3, HandledOnes
    <3>2. ListedOnce(dropped)'
      BY <1>1 DEF PlacedOnce, ListedOnce
    <3> QED
      BY <1>1, <1>3, <2>2, <2>3, <3>1, <3>2 DEF PlacedOnce
  <2>6. Suited'
    BY <1>1, <2>3 DEF Suited, Inputs
  <2>7. RoutesOfDays'
    BY <1>1, <1>3 DEF RoutesOfDays
  <2>8. RescuesAreKnown'
    BY <1>1 DEF RescuesAreKnown
  <2> QED
    BY <1>1, <2>4, <2>5, <2>6, <2>7, <2>8, NotDoneYet
<1>5. ASSUME NEW day \in Days, Reasons(a, day) = {}, UNCHANGED unplaced,
             allocated' = [allocated EXCEPT ![day] = Append(@, a)]
      PROVE  TripInv'
  <2>1. /\ allocated' \in [Days -> Seq(Sights)]
        /\ Holding(day)' = Holding(day) \cup {a}
        /\ \A e \in Days \ {day} : Holding(e)' = Holding(e)
    BY <1>1, <1>3, <1>5, DayTakesIn
  <2>2. room[day] # NoDay /\ input[a].blocked[day] = {}
    BY <1>5 DEF Reasons
  <2>3. TripTypeOK'
    BY <1>1, <1>3, <1>5, <2>1 DEF TripTypeOK
  <2>4. PlacedOnce'
    <3>1. GivenUp' = GivenUp
      BY <1>5 DEF GivenUp, Named
    <3>2. Handled' = Handled \cup {a}
      BY <2>1, <3>1, HandledOnes
    <3>3. ListedOnce(dropped)' /\ ListedOnce(unplaced)'
      BY <1>1, <1>5 DEF PlacedOnce, ListedOnce
    <3>4. \A d, e \in Days : d # e => Holding(d)' \cap Holding(e)' = {}
      BY <1>1, <1>3, <2>1 DEF PlacedOnce
    <3>5. \A d \in Days : Holding(d)' \cap (GivenUp' \cup Queued') = {}
      BY <1>1, <1>3, <2>1, <3>1 DEF PlacedOnce
    <3> QED
      BY <1>1, <1>3, <3>1, <3>2, <3>3, <3>4, <3>5 DEF PlacedOnce
  <2>5. Suited'
    BY <1>1, <2>1, <2>2 DEF Suited, Inputs
  <2>6. RoutesOfDays'
    BY <1>1, <1>3 DEF RoutesOfDays
  <2>7. RescuesAreKnown'
    BY <1>1 DEF RescuesAreKnown
  <2> QED
    BY <1>1, <2>3, <2>4, <2>5, <2>6, <2>7, NotDoneYet
<1> QED
  BY <1>2, <1>4, <1>5

(* Every eligible attraction has been handled.                                 *)
LEMMA AssignedKeeps ==
  ASSUME TripInv, Assigned
  PROVE  TripInv'
<1>1. /\ step = "assign" /\ step' = "initial" /\ Eligible \subseteq Handled
      /\ UNCHANGED <<Inputs, allocated, routed, searched, dropped, unplaced, moved, known, timed>>
      /\ TripTypeOK /\ PlacedOnce /\ Suited /\ RoutesOfDays /\ RescuesAreKnown
  BY DEF Assigned, TripInv
<1>2. /\ Eligible' = Eligible /\ Routable' = Routable /\ GivenUp' = GivenUp /\ Queued' = Queued
      /\ \A d \in Days : Holding(d)' = Holding(d)
  BY <1>1 DEF Inputs, Eligible, Rejected, Routable, GivenUp, Queued, Holding
<1>3. Handled' = Handled
  BY <1>2, HandledOnes
<1>4. TripTypeOK'
  BY <1>1, <1>2 DEF TripTypeOK
<1>5. PlacedOnce'
  BY <1>1, <1>2, <1>3 DEF PlacedOnce, ListedOnce
<1>6. Suited'
  BY <1>1, <1>2 DEF Suited, Inputs
<1>7. RoutesOfDays'
  BY <1>1, <1>2 DEF RoutesOfDays
<1>8. RescuesAreKnown'
  BY <1>1, <1>2 DEF RescuesAreKnown, TripTypeOK, Routable, RoutesOfDays
<1> QED
  BY <1>1, <1>4, <1>5, <1>6, <1>7, <1>8, NotDoneYet

(* The queue is empty.                                                         *)
LEMMA RescuedKeeps ==
  ASSUME TripInv, Rescued
  PROVE  TripInv'
<1>1. /\ step = "rescue" /\ step' = "final" /\ dropped = << >>
      /\ UNCHANGED <<Inputs, allocated, routed, searched, dropped, unplaced, moved, known, timed>>
      /\ TripTypeOK /\ PlacedOnce /\ Suited /\ RoutesOfDays /\ RescuesAreKnown
  BY DEF Rescued, TripInv
<1>2. /\ Eligible' = Eligible /\ Routable' = Routable /\ GivenUp' = GivenUp /\ Queued' = Queued
      /\ \A d \in Days : Holding(d)' = Holding(d)
  BY <1>1 DEF Inputs, Eligible, Rejected, Routable, GivenUp, Queued, Holding
<1>3. Handled' = Handled
  BY <1>2, HandledOnes
<1>4. TripTypeOK'
  BY <1>1, <1>2 DEF TripTypeOK
<1>5. PlacedOnce'
  BY <1>1, <1>2, <1>3 DEF PlacedOnce, ListedOnce
<1>6. Suited'
  BY <1>1, <1>2 DEF Suited, Inputs
<1>7. RoutesOfDays'
  BY <1>1, <1>2 DEF RoutesOfDays
<1>8. RescuesAreKnown'
  BY <1>1, <1>2 DEF RescuesAreKnown, TripTypeOK, Routable, RoutesOfDays
<1> QED
  BY <1>1, <1>4, <1>5, <1>6, <1>7, <1>8, NotDoneYet

(* A day's search routes some of what the day holds; a day that took something *)
(* in is answered as before.                                                   *)
LEMMA RouteDayKeeps ==
  ASSUME TripInv, RouteDay
  PROVE  TripInv'
<1>1. /\ step \in {"initial", "final"} /\ step' = step
      /\ UNCHANGED <<Inputs, allocated, dropped, unplaced, moved>>
      /\ TripTypeOK /\ PlacedOnce /\ Suited /\ RoutesOfDays /\ RescuesAreKnown
  BY DEF RouteDay, TripInv
<1>2. PICK d \in Routable \ searched :
        /\ \E result \in SUBSET Holding(d) :
             Search(d, allocated[d], result) /\ routed' = [routed EXCEPT ![d] = result]
        /\ searched' = searched \cup {d}
  BY DEF RouteDay
<1>3. PICK result \in SUBSET Holding(d) :
        Search(d, allocated[d], result) /\ routed' = [routed EXCEPT ![d] = result]
  BY <1>2
<1>4. /\ Eligible' = Eligible /\ Routable' = Routable /\ GivenUp' = GivenUp /\ Queued' = Queued
      /\ \A e \in Days : Holding(e)' = Holding(e)
  BY <1>1 DEF Inputs, Eligible, Rejected, Routable, GivenUp, Queued, Holding
<1>5. Handled' = Handled
  BY <1>4, HandledOnes
<1>6. d \in Days /\ d \in Routable /\ Holding(d) \subseteq Sights
  BY <1>1, <1>2 DEF Routable, PlacedOnce, Handled, Eligible
<1>7. routed'[d] = result /\ \A e \in Days \ {d} : routed'[e] = routed[e]
  BY <1>1, <1>3, <1>6 DEF TripTypeOK
<1>8. TripTypeOK'
  BY <1>1, <1>2, <1>3, <1>4, <1>6 DEF TripTypeOK
<1>9. PlacedOnce'
  BY <1>1, <1>4, <1>5 DEF PlacedOnce, ListedOnce
<1>10. Suited'
  BY <1>1, <1>4 DEF Suited, Inputs
<1>11. RoutesOfDays'
  <2>1. \A e \in Days \ Routable' : routed'[e] = {}
    BY <1>1, <1>4, <1>6, <1>7 DEF RoutesOfDays
  <2>2. ASSUME NEW e \in searched' PROVE routed'[e] \subseteq Holding(e)'
    <3>1. e \in Days /\ Holding(e)' = Holding(e) /\ (e = d \/ e \in searched)
      BY <1>1, <1>2, <1>4, <1>6, <2>2 DEF TripTypeOK, Routable
    <3>2. CASE e = d
      BY <1>7, <3>1, <3>2
    <3>3. CASE e # d
      BY <1>1, <1>7, <3>1, <3>3 DEF RoutesOfDays
    <3> QED
      BY <3>2, <3>3
  <2>3. dropped' = << >> /\ step' \notin {"assign", "rescue"}
    BY <1>1 DEF RoutesOfDays
  <2> QED
    BY <2>1, <2>2, <2>3 DEF RoutesOfDays
<1>12. RescuesAreKnown'
  <2>1. /\ timed \subseteq timed' /\ DOMAIN known \subseteq DOMAIN known'
        /\ \A q \in DOMAIN known : known'[q] = known[q]
        /\ <<d, allocated[d]>> \in DOMAIN known /\ d \notin timed' => result = known[<<d, allocated[d]>>]
    BY <1>3, SearchAnswers
  <2>2. \A e \in moved' \ timed' : e \in Days /\ e \in moved \ timed
    BY <1>1, <2>1 DEF TripTypeOK, Routable
  <2>3. \A e \in moved' \ timed' :
          <<e, allocated'[e]>> \in DOMAIN known' /\ known'[<<e, allocated'[e]>>] = Holding(e)'
    BY <1>1, <1>4, <2>1, <2>2 DEF RescuesAreKnown
  <2>4. ASSUME step = "final", NEW e \in (moved \ timed') \cap (searched \cup {d})
        PROVE  routed'[e] = Holding(e)'
    <3>1. e \in Days /\ e \in moved \ timed /\ Holding(e)' = Holding(e)
      BY <1>1, <1>4, <2>2, <2>4
    <3>2. CASE e = d
      BY <1>1, <1>7, <2>1, <2>4, <3>1, <3>2 DEF RescuesAreKnown
    <3>3. CASE e # d
      BY <1>1, <1>7, <2>4, <3>1, <3>3 DEF RescuesAreKnown
    <3> QED
      BY <3>2, <3>3
  <2> QED
    BY <1>1, <1>2, <2>3, <2>4 DEF RescuesAreKnown
<1> QED
  BY <1>1, <1>8, <1>9, <1>10, <1>11, <1>12, NotDoneYet

(* What has been lost is what no route of its day has; nothing is on a day     *)
(* that is not routed.                                                         *)
LEMMA LostOnes ==
  ASSUME TripTypeOK, PlacedOnce, Suited
  PROVE  /\ \A a : a \in Lost <=> \E d \in Routable : a \in Holding(d) /\ a \notin routed[d]
         /\ \A d \in Days \ Routable : Holding(d) = {}
         /\ \A d \in Days : Holding(d) \subseteq Eligible
         /\ Lost \in SUBSET Sights /\ Lost \subseteq Eligible
         /\ Routable \subseteq Days
<1>1. \A a : a \in Lost <=> \E d \in Routable : a \in Holding(d) /\ a \notin routed[d]
  BY DEF Lost, Dropped
<1>2. \A d \in Days \ Routable : Holding(d) = {}
  BY DEF Suited, Routable
<1>3. \A d \in Days : Holding(d) \subseteq Eligible
  BY HandledOnes DEF PlacedOnce
<1>4. Routable \subseteq Days
  BY DEF Routable
<1> QED
  BY <1>1, <1>2, <1>3, <1>4 DEF Eligible

(* What the first routes dropped changes its day for the queue.                *)
LEMMA CollectKeeps ==
  ASSUME TripInv, Collect
  PROVE  TripInv'
<1>1. /\ step = "initial" /\ step' = "rescue" /\ searched' = {} /\ Routable \subseteq searched
      /\ UNCHANGED <<Inputs, routed, unplaced, moved, known, timed>>
      /\ TripTypeOK /\ PlacedOnce /\ Suited /\ RoutesOfDays /\ RescuesAreKnown
  BY DEF Collect, TripInv
<1>2. PICK queue \in Enumerations(Lost) :
        dropped' = [n \in DOMAIN queue |-> [a |-> queue[n], tried |-> {SourceDay(queue[n])}]]
  BY DEF Collect
<1>3. /\ DOMAIN allocated' = Days
      /\ \A d \in Days : allocated'[d] \in Enumerations(Holding(d) \cap routed[d])
  BY DEF Collect, Retained
<1>4. /\ Eligible' = Eligible /\ Routable' = Routable /\ GivenUp' = GivenUp
  BY <1>1 DEF Inputs, Eligible, Rejected, Routable, GivenUp
<1>5. ASSUME NEW d \in Days
      PROVE  /\ Holding(d)' = Holding(d) \cap routed[d]
             /\ allocated'[d] \in Seq(Sights)
  <2> DEFINE S == Holding(d) \cap routed[d]
  <2>1. S \in SUBSET Sights /\ allocated'[d] \in Enumerations(S)
    BY <1>1, <1>3, LostOnes DEF Eligible
  <2> HIDE DEF S
  <2>2. allocated'[d] \in Seq(S) /\ Range(allocated'[d]) = S
    BY <2>1, EnumerationOf
  <2>3. allocated'[d] \in Seq(Sights)
    BY <2>1, <2>2, SeqMonotonic
  <2> QED
    BY <2>2, <2>3 DEF S, Holding
<1>6. /\ queue \in Seq(Lost) /\ Range(queue) = Lost
      /\ \A m, n \in DOMAIN queue : queue[m] = queue[n] => m = n
  BY <1>1, <1>2, LostOnes, EnumerationOf
<1>7. \A a \in Lost : SourceDay(a) \in Days
  <2>1. ASSUME NEW a \in Lost PROVE \E d \in Routable : a \in Dropped(d)
    BY DEF Lost
  <2> QED
    BY <2>1, <1>1, LostOnes DEF SourceDay
<1>8. dropped' \in Seq([a : Sights, tried : SUBSET Days])
  <2>1. Len(queue) \in Nat /\ DOMAIN queue = 1 .. Len(queue) /\ \A n \in DOMAIN queue : queue[n] \in Lost
    BY <1>6
  <2>2. \A n \in DOMAIN queue :
          [a |-> queue[n], tried |-> {SourceDay(queue[n])}] \in [a : Sights, tried : SUBSET Days]
    BY <1>1, <1>7, <2>1, LostOnes
  <2> DEFINE R == [a : Sights, tried : SUBSET Days]
  <2>3. dropped' \in [1 .. Len(queue) -> R]
    BY <1>2, <2>1, <2>2
  <2> HIDE DEF R
  <2>4. dropped' \in Seq(R)
    BY <2>1, <2>3
  <2> QED
    BY <2>4 DEF R
<1>9. Queued' = Lost /\ ListedOnce(dropped')
  <2>1. DOMAIN dropped' = DOMAIN queue /\ \A n \in DOMAIN queue : dropped'[n].a = queue[n]
    BY <1>2
  <2>2. Named(dropped') = {queue[n] : n \in DOMAIN queue}
    BY <2>1 DEF Named
  <2>3. ListedOnce(dropped')
    BY <1>6, <2>1 DEF ListedOnce
  <2> QED
    BY <1>6, <2>2, <2>3 DEF Queued, Range
<1>10. allocated' \in [Days -> Seq(Sights)]
  <2>1. \E S, T : allocated' \in [S -> T]
    BY DEF Collect
  <2> QED
    BY <1>3, <1>5, <2>1
<1>11. TripTypeOK'
  BY <1>1, <1>4, <1>8, <1>10 DEF TripTypeOK
<1>12. PlacedOnce'
  <2>1. \A d, e \in Days : d # e => Holding(d)' \cap Holding(e)' = {}
    BY <1>1, <1>5 DEF PlacedOnce
  <2>2. \A d \in Days : Holding(d)' \cap (GivenUp' \cup Queued') = {}
    <3>1. \A d \in Days : Holding(d)' \cap GivenUp' = {}
      BY <1>1, <1>4, <1>5 DEF PlacedOnce
    <3>2. \A d \in Days, a \in Lost : a \notin Holding(d)'
      BY <1>1, <1>5, LostOnes DEF PlacedOnce
    <3> QED
      BY <1>9, <3>1, <3>2
  <2>3. GivenUp' \cap Queued' = {}
    BY <1>1, <1>4, <1>9, LostOnes DEF PlacedOnce
  <2>4. ListedOnce(unplaced)' /\ ListedOnce(dropped)'
    BY <1>1, <1>9 DEF PlacedOnce, ListedOnce
  <2>5. Handled' \cup Queued' \subseteq Eligible'
    BY <1>1, <1>4, <1>5, <1>9, HandledOnes, LostOnes DEF PlacedOnce
  <2>6. Eligible' \subseteq Handled' \cup Queued'
    <3>1. Eligible \subseteq Handled
      <4>1. Queued = {}
        BY <1>1 DEF RoutesOfDays, Queued, Named
      <4> QED
        BY <1>1, <4>1 DEF PlacedOnce
    <3>2. ASSUME NEW a \in Eligible, NEW d \in Days, a \in Holding(d)
          PROVE  a \in Handled' \/ a \in Queued'
      <4>1. d \in Routable
        BY <1>1, <3>2, LostOnes
      <4>2. CASE a \in routed[d]
        BY <1>5, <3>2, <4>2, HandledOnes
      <4>3. CASE a \notin routed[d]
        BY <1>1, <1>9, <3>2, <4>1, <4>3, LostOnes
      <4> QED
        BY <4>2, <4>3
    <3>3. ASSUME NEW a \in GivenUp PROVE a \in Handled'
      BY <1>4, HandledOnes
    <3> QED
      BY <1>4, <3>1, <3>2, <3>3, HandledOnes
  <2> QED
    BY <2>1, <2>2, <2>3, <2>4, <2>5, <2>6 DEF PlacedOnce
<1>13. Suited'
  BY <1>1, <1>5 DEF Suited, Inputs
<1>14. RoutesOfDays'
  BY <1>1, <1>4 DEF RoutesOfDays
<1>15. RescuesAreKnown'
  BY <1>1 DEF RescuesAreKnown
<1> QED
  BY <1>1, <1>11, <1>12, <1>13, <1>14, <1>15, NotDoneYet

(* What was known of the days that took something in is known still.           *)
LEMMA KnownStill ==
  ASSUME RescuesAreKnown, timed \subseteq timed', DOMAIN known \subseteq DOMAIN known',
         \A q \in DOMAIN known : known'[q] = known[q],
         NEW e \in moved \ timed', allocated'[e] = allocated[e]
  PROVE  /\ <<e, allocated'[e]>> \in DOMAIN known'
         /\ known'[<<e, allocated'[e]>>] = Holding(e)'
<1>1. <<e, allocated[e]>> \in DOMAIN known /\ known[<<e, allocated[e]>>] = Holding(e)
  BY DEF RescuesAreKnown
<1>2. Holding(e)' = Holding(e)
  BY DEF Holding
<1> QED
  BY <1>1, <1>2

(* The head of the queue is nowhere else.                                      *)
LEMMA HeadIsQueued ==
  ASSUME TripTypeOK, PlacedOnce, dropped # << >>
  PROVE  LET x == Head(dropped) IN
         /\ x \in [a : Sights, tried : SUBSET Days]
         /\ x.a \in Queued /\ x.a \in Eligible /\ x.a \in Sights \ GivenUp
         /\ \A d \in Days : x.a \notin Holding(d)
         /\ Tail(dropped) \in Seq([a : Sights, tried : SUBSET Days])
         /\ ListedOnce(Tail(dropped)) /\ Named(Tail(dropped)) = Queued \ {x.a}
<1> DEFINE R == [a : Sights, tried : SUBSET Days]
           x == Head(dropped)
<1>1. dropped \in Seq(R) /\ ListedOnce(dropped)
  BY DEF TripTypeOK, PlacedOnce
<1> HIDE DEF R
<1>2. /\ x \in R /\ Tail(dropped) \in Seq(R) /\ ListedOnce(Tail(dropped))
      /\ Named(Tail(dropped)) = Named(dropped) \ {x.a}
      /\ x.a \in Named(dropped)
  BY <1>1, TailListed
<1> HIDE DEF x
<1>3. x.a \in Queued /\ x.a \in Eligible /\ x.a \notin GivenUp
      /\ \A d \in Days : x.a \notin Holding(d)
  BY <1>2 DEF Queued, PlacedOnce
<1> QED
  BY <1>2, <1>3 DEF R, x, Eligible, Queued

(* A dropped attraction is given up, finds a day, or tries the next.           *)
LEMMA RescueKeeps ==
  ASSUME TripInv, Rescue
  PROVE  TripInv'
<1> DEFINE x == Head(dropped)
           R == [a : Sights, tried : SUBSET Days]
<1>1. /\ step = "rescue" /\ step' = "rescue" /\ dropped # << >>
      /\ UNCHANGED <<Inputs, step, routed, searched>>
      /\ TripTypeOK /\ PlacedOnce /\ Suited /\ RoutesOfDays /\ RescuesAreKnown
  BY DEF Rescue, TripInv
<1>2. /\ x \in R
      /\ x.a \in Queued /\ x.a \in Eligible /\ x.a \in Sights \ GivenUp
      /\ \A d \in Days : x.a \notin Holding(d)
      /\ Tail(dropped) \in Seq(R)
      /\ ListedOnce(Tail(dropped)) /\ Named(Tail(dropped)) = Queued \ {x.a}
  BY <1>1, HeadIsQueued
<1>3. Eligible' = Eligible /\ Routable' = Routable
  BY <1>1 DEF Eligible, Rejected, Inputs, Routable
<1>4. RoutesOfDays'
  BY <1>1, <1>3 DEF RoutesOfDays
<1>5. \/ /\ GiveUp(x.a, "ROUTING_UNPLACED") /\ dropped' = Tail(dropped)
         /\ UNCHANGED <<allocated, moved, known, timed>>
      \/ \E d \in Routable :
           /\ dropped' = <<[x EXCEPT !.tried = @ \cup {d}]>> \o Tail(dropped)
           /\ UNCHANGED <<allocated, moved, unplaced>>
           /\ \/ UNCHANGED <<known, timed>>
              \/ \E result : Search(d, Append(allocated[d], x.a), result)
      \/ \E d \in Routable :
           /\ ~ ShutOut(x.a, d)
           /\ Search(d, Append(allocated[d], x.a), Holding(d) \cup {x.a})
           /\ allocated' = [allocated EXCEPT ![d] = Append(@, x.a)]
           /\ moved' = moved \cup {d} /\ dropped' = Tail(dropped) /\ UNCHANGED unplaced
  BY DEF Rescue, Welcome
<1> HIDE DEF x, R
<1>6. CASE /\ GiveUp(x.a, "ROUTING_UNPLACED") /\ dropped' = Tail(dropped)
           /\ UNCHANGED <<allocated, moved, known, timed>>
  <2>1. /\ unplaced' \in Seq([a : Sights, code : Codes])
        /\ ListedOnce(unplaced)' /\ GivenUp' = GivenUp \cup {x.a}
    <3>1. "ROUTING_UNPLACED" \in Codes
      BY DEF Codes
    <3> QED
      BY <1>1, <1>2, <1>6, <3>1, ListTakesIn DEF PlacedOnce
  <2>2. \A d \in Days : Holding(d)' = Holding(d)
    BY <1>6 DEF Holding
  <2>3. Queued' = Queued \ {x.a} /\ ListedOnce(dropped)'
    BY <1>2, <1>6 DEF Queued, Named, ListedOnce
  <2>4. TripTypeOK'
    BY <1>1, <1>2, <1>3, <1>6, <2>1 DEF TripTypeOK, R
  <2>5. PlacedOnce'
    <3>1. Handled' = Handled \cup {x.a}
      BY <2>1, <2>2, HandledOnes
    <3> QED
      BY <1>1, <1>2, <1>3, <2>1, <2>2, <2>3, <3>1 DEF PlacedOnce
  <2>6. Suited'
    BY <1>1, <2>2 DEF Suited, Inputs
  <2>7. RescuesAreKnown'
    BY <1>1, <1>6, <2>2 DEF RescuesAreKnown, TripTypeOK, Routable
  <2> QED
    BY <1>1, <1>4, <2>4, <2>5, <2>6, <2>7, NotDoneYet
<1>7. ASSUME NEW d \in Routable,
             dropped' = <<[x EXCEPT !.tried = @ \cup {d}]>> \o Tail(dropped),
             UNCHANGED <<allocated, moved, unplaced>>,
             \/ UNCHANGED <<known, timed>>
             \/ \E result : Search(d, Append(allocated[d], x.a), result)
      PROVE  TripInv'
  <2>1. /\ dropped' \in Seq(R) /\ ListedOnce(dropped)' /\ Queued' = Queued
    <3> DEFINE y == [x EXCEPT !.tried = @ \cup {d}]
    <3>1. y \in R /\ y.a = x.a
      BY <1>2, <1>7 DEF R, Routable
    <3>2. dropped \in Seq(R) /\ ListedOnce(dropped) /\ dropped # << >>
      BY <1>1 DEF TripTypeOK, PlacedOnce, R
    <3>3. dropped' = <<y>> \o Tail(dropped)
      BY <1>7
    <3> HIDE DEF y
    <3>4. /\ <<y>> \o Tail(dropped) \in Seq(R) /\ ListedOnce(<<y>> \o Tail(dropped))
          /\ Named(<<y>> \o Tail(dropped)) = Named(dropped)
      BY <3>1, <3>2, RetriedListed DEF x
    <3> QED
      BY <3>3, <3>4 DEF ListedOnce, Queued, Named
  <2>2. /\ GivenUp' = GivenUp /\ ListedOnce(unplaced)'
        /\ \A e \in Days : Holding(e)' = Holding(e)
    BY <1>1, <1>7 DEF GivenUp, Holding, PlacedOnce, ListedOnce
  <2>3. TripTypeOK'
    BY <1>1, <1>3, <1>7, <2>1 DEF TripTypeOK, R
  <2>4. PlacedOnce'
    <3>1. Handled' = Handled
      BY <2>2, HandledOnes
    <3> QED
      BY <1>1, <1>3, <2>1, <2>2, <3>1 DEF PlacedOnce
  <2>5. Suited'
    BY <1>1, <2>2 DEF Suited, Inputs
  <2>6. /\ timed \subseteq timed' /\ DOMAIN known \subseteq DOMAIN known'
        /\ \A q \in DOMAIN known : known'[q] = known[q]
    BY <1>7, SearchAnswers
  <2>7. RescuesAreKnown'
    <3>1. \A e \in moved' \ timed' : e \in moved \ timed' /\ allocated'[e] = allocated[e]
      BY <1>7
    <3>2. \A e \in moved' \ timed' :
            <<e, allocated'[e]>> \in DOMAIN known' /\ known'[<<e, allocated'[e]>>] = Holding(e)'
      BY <1>1, <2>6, <3>1, KnownStill
    <3> QED
      BY <1>1, <3>2 DEF RescuesAreKnown
  <2> QED
    BY <1>1, <1>4, <2>3, <2>4, <2>5, <2>7, NotDoneYet
<1>8. ASSUME NEW d \in Routable, ~ ShutOut(x.a, d),
             Search(d, Append(allocated[d], x.a), Holding(d) \cup {x.a}),
             allocated' = [allocated EXCEPT ![d] = Append(@, x.a)],
             moved' = moved \cup {d}, dropped' = Tail(dropped), UNCHANGED unplaced
      PROVE  TripInv'
  <2>1. d \in Days /\ room[d] # NoDay /\ input[x.a].blocked[d] = {}
    BY <1>8 DEF Routable, ShutOut
  <2>2. /\ allocated' \in [Days -> Seq(Sights)]
        /\ Holding(d)' = Holding(d) \cup {x.a}
        /\ allocated'[d] = Append(allocated[d], x.a)
        /\ \A e \in Days \ {d} : allocated'[e] = allocated[e] /\ Holding(e)' = Holding(e)
    BY <1>1, <1>2, <1>8, <2>1, DayTakesIn
  <2>3. Queued' = Queued \ {x.a} /\ ListedOnce(dropped)'
    BY <1>2, <1>8 DEF Queued, Named, ListedOnce
  <2>4. GivenUp' = GivenUp /\ ListedOnce(unplaced)'
    BY <1>1, <1>8 DEF GivenUp, PlacedOnce, ListedOnce
  <2>5. TripTypeOK'
    BY <1>1, <1>2, <1>3, <1>8, <2>2 DEF TripTypeOK, R
  <2>6. PlacedOnce'
    <3>1. Handled' = Handled \cup {x.a}
      BY <2>1, <2>2, <2>4, HandledOnes
    <3>2. \A e, f \in Days : e # f => Holding(e)' \cap Holding(f)' = {}
      BY <1>1, <1>2, <2>2 DEF PlacedOnce
    <3>3. \A e \in Days : Holding(e)' \cap (GivenUp' \cup Queued') = {}
      BY <1>1, <1>2, <2>2, <2>3, <2>4 DEF PlacedOnce
    <3> QED
      BY <1>1, <1>2, <1>3, <2>3, <2>4, <3>1, <3>2, <3>3 DEF PlacedOnce
  <2>7. Suited'
    BY <1>1, <2>1, <2>2 DEF Suited, Inputs
  <2>8. /\ timed \subseteq timed' /\ DOMAIN known \subseteq DOMAIN known'
        /\ \A q \in DOMAIN known : known'[q] = known[q]
        /\ \/ d \in timed'
           \/ /\ <<d, Append(allocated[d], x.a)>> \in DOMAIN known'
              /\ known'[<<d, Append(allocated[d], x.a)>>] = Holding(d) \cup {x.a}
    BY <1>8, SearchAnswers
  <2>9. ASSUME NEW e \in moved' \ timed'
        PROVE  <<e, allocated'[e]>> \in DOMAIN known' /\ known'[<<e, allocated'[e]>>] = Holding(e)'
    <3>1. CASE e = d
      BY <2>2, <2>8, <2>9, <3>1
    <3>2. CASE e # d
      <4>1. e \in moved \ timed' /\ e \in Days
        BY <1>1, <1>8, <2>9, <3>2 DEF TripTypeOK, Routable
      <4>2. allocated'[e] = allocated[e]
        BY <2>2, <3>2, <4>1
      <4> QED
        BY <1>1, <2>8, <4>1, <4>2, KnownStill
    <3> QED
      BY <3>1, <3>2
  <2>10. RescuesAreKnown'
    BY <1>1, <2>9 DEF RescuesAreKnown
  <2> QED
    BY <1>1, <1>4, <2>5, <2>6, <2>7, <2>10, NotDoneYet
<1> QED
  BY <1>5, <1>6, <1>7, <1>8

(* Two lists of different attractions, one after the other.                    *)
LEMMA ConcatListed ==
  ASSUME NEW R, NEW s \in Seq(R), NEW t \in Seq(R), ListedOnce(s), ListedOnce(t),
         Named(s) \cap Named(t) = {}
  PROVE  /\ s \o t \in Seq(R) /\ ListedOnce(s \o t)
         /\ Named(s \o t) = Named(s) \cup Named(t)
<1> DEFINE u == s \o t
<1>1. /\ Len(s) \in Nat /\ DOMAIN s = 1 .. Len(s) /\ Len(t) \in Nat /\ DOMAIN t = 1 .. Len(t)
      /\ u \in Seq(R) /\ DOMAIN u = 1 .. Len(s) + Len(t)
      /\ \A n \in 1 .. Len(s) + Len(t) : u[n] = IF n <= Len(s) THEN s[n] ELSE t[n - Len(s)]
  OBVIOUS
<1> HIDE DEF u
<1>2. \A n \in DOMAIN u : \/ n \in DOMAIN s /\ u[n] = s[n]
                          \/ n - Len(s) \in DOMAIN t /\ u[n] = t[n - Len(s)] /\ n \notin DOMAIN s
  BY <1>1
<1>3. /\ \A n \in DOMAIN s : n \in DOMAIN u /\ u[n] = s[n]
      /\ \A n \in DOMAIN t : n + Len(s) \in DOMAIN u /\ u[n + Len(s)] = t[n]
  BY <1>1
<1>4. Named(u) = Named(s) \cup Named(t)
  BY <1>2, <1>3 DEF Named
<1>5. ASSUME NEW m \in DOMAIN u, NEW n \in DOMAIN u, u[m].a = u[n].a
      PROVE  m = n
  <2>1. CASE m \in DOMAIN s /\ n \in DOMAIN s
    BY <1>3, <1>5, <2>1 DEF ListedOnce
  <2>2. CASE m \notin DOMAIN s /\ n \notin DOMAIN s
    <3>1. m - Len(s) = n - Len(s)
      BY <1>2, <1>5, <2>2 DEF ListedOnce
    <3> QED
      BY <1>1, <3>1
  <2>3. CASE m \in DOMAIN s /\ n \notin DOMAIN s
    <3>1. u[m].a \in Named(s) /\ u[n].a \in Named(t)
      BY <1>2, <2>3 DEF Named
    <3> QED
      BY <1>5, <3>1
  <2>4. CASE m \notin DOMAIN s /\ n \in DOMAIN s
    <3>1. u[m].a \in Named(t) /\ u[n].a \in Named(s)
      BY <1>2, <2>4 DEF Named
    <3> QED
      BY <1>5, <3>1
  <2> QED
    BY <2>1, <2>2, <2>3, <2>4
<1>6. ListedOnce(u)
  BY <1>5 DEF ListedOnce
<1> QED
  BY <1>1, <1>4, <1>6 DEF u

(* A list of different attractions is as long as they are many.                *)
LEMMA ListedCount ==
  ASSUME NEW R, NEW s \in Seq(R), ListedOnce(s)
  PROVE  Cardinality(Named(s)) = Len(s)
<1> DEFINE f == [n \in 1 .. Len(s) |-> s[n].a]
<1>1. Len(s) \in Nat /\ DOMAIN s = 1 .. Len(s)
  OBVIOUS
<1>2. f \in [1 .. Len(s) -> Named(s)] /\ \A n \in 1 .. Len(s) : f[n] = s[n].a
  BY <1>1 DEF Named
<1>3. DOMAIN f = 1 .. Len(s)
  OBVIOUS
<1> HIDE DEF f
<1>4. \A m, n \in 1 .. Len(s) : f[m] = f[n] => m = n
  BY <1>1, <1>2 DEF ListedOnce
<1>5. \A a \in Named(s) : \E n \in 1 .. Len(s) : f[n] = a
  BY <1>1, <1>2 DEF Named
<1>6. f \in Bijection(1 .. Len(s), Named(s))
  BY <1>2, <1>3, <1>4, <1>5 DEF Bijection, Injection, Surjection, IsInjective
<1>7. ExistsBijection(1 .. Len(s), Named(s))
  BY <1>6 DEF ExistsBijection
<1> QED
  BY <1>1, <1>7, FS_CountingElements

(* What the last routes dropped is given up.                                   *)
LEMMA FinishLists ==
  ASSUME TripInv, Finish
  PROVE  /\ unplaced' \in Seq([a : Sights, code : Codes])
         /\ ListedOnce(unplaced)' /\ GivenUp' = GivenUp \cup Lost
<1>1. TripTypeOK /\ PlacedOnce /\ Suited
  BY DEF Finish, TripInv
<1>2. Lost \cap GivenUp = {} /\ Lost \in SUBSET Sights
  BY <1>1, LostOnes DEF PlacedOnce
<1>3. PICK row \in Enumerations(Lost) :
        unplaced' = unplaced \o [n \in DOMAIN row |-> [a |-> row[n], code |-> "ROUTING_UNPLACED"]]
  <2>1. Lost \ GivenUp = Lost
    BY <1>2
  <2>2. unplaced' \in LateDrops(Lost)
    BY DEF Finish
  <2> QED
    BY <2>1, <2>2 DEF LateDrops
<1>4. /\ row \in Seq(Lost) /\ Range(row) = Lost
      /\ \A m, n \in DOMAIN row : row[m] = row[n] => m = n
  BY <1>2, EnumerationOf
<1> DEFINE R == [a : Sights, code : Codes]
           late == [n \in DOMAIN row |-> [a |-> row[n], code |-> "ROUTING_UNPLACED"]]
<1>5. Len(row) \in Nat /\ DOMAIN row = 1 .. Len(row) /\ \A n \in DOMAIN row : row[n] \in Lost
  BY <1>4
<1>6. late \in [1 .. Len(row) -> R]
  BY <1>2, <1>5 DEF Codes
<1>7. DOMAIN late = DOMAIN row /\ \A n \in DOMAIN row : late[n].a = row[n]
  OBVIOUS
<1>8. unplaced \in Seq(R) /\ ListedOnce(unplaced) /\ unplaced' = unplaced \o late
  BY <1>1, <1>3 DEF TripTypeOK, PlacedOnce
<1> HIDE DEF R, late
<1>9. late \in Seq(R)
  BY <1>5, <1>6
<1>10. ListedOnce(late) /\ Named(late) = Lost
  BY <1>4, <1>7 DEF ListedOnce, Named, Range
<1>11. Named(unplaced) \cap Named(late) = {}
  BY <1>2, <1>10 DEF GivenUp, Named
<1>12. /\ unplaced \o late \in Seq(R) /\ ListedOnce(unplaced \o late)
       /\ Named(unplaced \o late) = Named(unplaced) \cup Lost
  BY <1>8, <1>9, <1>10, <1>11, ConcatListed
<1>13. GivenUp' = Named(unplaced') /\ GivenUp = Named(unplaced)
  BY DEF GivenUp, Named
<1> QED
  BY <1>8, <1>12, <1>13 DEF R, ListedOnce

(* The account is complete when it is given.                                   *)
LEMMA FinishKeeps ==
  ASSUME TripInv, Finish
  PROVE  TripInv'
<1>1. /\ step = "final" /\ step' = "done" /\ Routable \subseteq searched
      /\ UNCHANGED <<Inputs, allocated, routed, searched, dropped, moved, known, timed>>
      /\ TripTypeOK /\ PlacedOnce /\ Suited /\ RoutesOfDays /\ RescuesAreKnown
  BY DEF Finish, TripInv
<1>2. /\ unplaced' \in Seq([a : Sights, code : Codes])
      /\ ListedOnce(unplaced') /\ GivenUp' = GivenUp \cup Lost
  BY FinishLists DEF ListedOnce
<1>3. /\ Rejected' = Rejected /\ Routable' = Routable /\ Scheduled' = Scheduled
      /\ \A d \in Days : Holding(d)' = Holding(d)
  BY <1>1 DEF Inputs, Rejected, Routable, Scheduled, Holding
<1>4. TripTypeOK'
  BY <1>1, <1>2, <1>3 DEF TripTypeOK
<1>5. \A d \in Days : routed[d] \subseteq Holding(d)
  BY <1>1 DEF RoutesOfDays
<1>6. \A a : a \in Scheduled <=> \E d \in Days : a \in routed[d]
  BY DEF Scheduled
<1>7. NothingIsLost'
  <2>1. Scheduled \subseteq Eligible /\ GivenUp \subseteq Eligible /\ Lost \subseteq Eligible
    BY <1>1, <1>5, <1>6, LostOnes, HandledOnes DEF PlacedOnce
  <2>2. ASSUME NEW a \in Eligible PROVE a \in Scheduled \cup GivenUp'
    <3>1. a \in GivenUp \/ \E d \in Days : a \in Holding(d)
      <4>1. Queued = {}
        BY <1>1 DEF RoutesOfDays, Queued, Named
      <4> QED
        BY <1>1, <4>1, HandledOnes DEF PlacedOnce
    <3>2. ASSUME NEW d \in Days, a \in Holding(d) PROVE a \in Scheduled \cup Lost
      <4>1. d \in Routable
        BY <1>1, <3>2, LostOnes
      <4>2. CASE a \in routed[d]
        BY <1>6, <4>2
      <4>3. CASE a \notin routed[d]
        BY <1>1, <3>2, <4>1, <4>3, LostOnes
      <4> QED
        BY <4>2, <4>3
    <3> QED
      BY <1>2, <3>1, <3>2
  <2>3. Scheduled' \cup GivenUp' \cup Rejected' = Sights
    BY <1>2, <1>3, <2>1, <2>2 DEF Eligible, Rejected
  <2>4. Scheduled' \cap GivenUp' = {}
    <3>1. \A a \in Scheduled : a \notin GivenUp
      BY <1>1, <1>5, <1>6 DEF PlacedOnce
    <3>2. \A a \in Scheduled : a \notin Lost
      <4>1. ASSUME NEW a, NEW d \in Days, NEW e \in Routable,
                   a \in routed[d], a \in Holding(e), a \notin routed[e]
            PROVE  FALSE
        BY <1>1, <1>5, <4>1, LostOnes DEF PlacedOnce
      <4> QED
        BY <1>1, <1>6, <4>1, LostOnes
    <3> QED
      BY <1>2, <1>3, <3>1, <3>2
  <2>5. (Scheduled' \cup GivenUp') \cap Rejected' = {}
    BY <1>2, <1>3, <2>1 DEF Eligible
  <2>6. Cardinality(GivenUp') = Len(unplaced')
    <3>1. GivenUp' = Named(unplaced')
      BY DEF GivenUp, Named
    <3> DEFINE R == [a : Sights, code : Codes]
    <3>2. unplaced' \in Seq(R) /\ ListedOnce(unplaced')
      BY <1>2
    <3> HIDE DEF R
    <3>3. Cardinality(Named(unplaced')) = Len(unplaced')
      BY <3>2, ListedCount
    <3> QED
      BY <3>1, <3>3
  <2>7. \A d, e \in Days : d # e => routed'[d] \cap routed'[e] = {}
    BY <1>1, <1>5 DEF PlacedOnce
  <2>8. \A d \in Days : \A a \in routed'[d] : room'[d] # NoDay /\ input'[a].blocked[d] = {}
    BY <1>1, <1>5 DEF Suited, Inputs
  <2> QED
    BY <2>3, <2>4, <2>5, <2>6, <2>7, <2>8 DEF NothingIsLost
<1>8. RescueDisplacesNothing'
  <2>1. ASSUME NEW d \in moved' \ timed' PROVE routed'[d] = Holding(d)'
    <3>1. d \in (moved \ timed) \cap searched /\ d \in Days
      BY <1>1, <2>1 DEF TripTypeOK, Routable
    <3> QED
      BY <1>1, <1>3, <3>1 DEF RescuesAreKnown
  <2> QED
    BY <2>1 DEF RescueDisplacesNothing
<1> QED
  BY <1>1, <1>4, <1>7, <1>8 DEF TripInv, TripIsAccountedFor

(* Every step keeps the account.                                               *)
LEMMA TripPreserved ==
  ASSUME TripInv, [ItineraryNext]_itineraryVars
  PROVE  TripInv'
<1>1. CASE UNCHANGED itineraryVars
  <2> USE <1>1 DEF itineraryVars
  <2>1. /\ Eligible' = Eligible /\ Rejected' = Rejected /\ Routable' = Routable
        /\ GivenUp' = GivenUp /\ Queued' = Queued /\ Scheduled' = Scheduled
        /\ \A d \in Days : Holding(d)' = Holding(d)
    BY DEF Eligible, Rejected, Routable, GivenUp, Queued, Named, Scheduled, Holding
  <2>2. TripTypeOK'
    BY <2>1 DEF TripInv, TripTypeOK
  <2>3. Handled' = Handled
    BY <2>1, HandledOnes
  <2>4. PlacedOnce => PlacedOnce'
    BY <2>1, <2>3 DEF PlacedOnce, ListedOnce
  <2>5. Suited => Suited'
    BY <2>1 DEF Suited
  <2>6. RoutesOfDays => RoutesOfDays'
    BY <2>1 DEF RoutesOfDays, Routable, Holding
  <2>7. RescuesAreKnown => RescuesAreKnown'
    BY <2>1 DEF RescuesAreKnown, Holding
  <2>8. NothingIsLost => NothingIsLost'
    BY <2>1 DEF NothingIsLost
  <2>9. RescueDisplacesNothing => RescueDisplacesNothing'
    BY <2>1 DEF RescueDisplacesNothing, Holding
  <2> QED
    BY <2>2, <2>4, <2>5, <2>6, <2>7, <2>8, <2>9 DEF TripInv, TripIsAccountedFor
<1>2. CASE ItineraryNext
  BY <1>2, AssignKeeps, AssignedKeeps, RouteDayKeeps, CollectKeeps, RescueKeeps, RescuedKeeps,
     FinishKeeps DEF ItineraryNext
<1> QED
  BY <1>1, <1>2

(* When the solver is done every chosen attraction is on one day that it can be *)
(* visited on, given up once or rejected by the data gate (quality.py:76), and   *)
(* a day that took in what another day dropped routes all it holds, unless one  *)
(* of its searches ran out of time (itinerary.py:149-166): for any attractions, *)
(* days, inputs and answers of the searches.                                    *)
THEOREM TripsAreAccountedFor == TripSpec => []TripIsAccountedFor
<1>1. TripInit => TripInv
  BY TripBegins
<1>2. TripInv /\ [ItineraryNext]_itineraryVars => TripInv'
  BY TripPreserved
<1>3. TripInv => TripIsAccountedFor
  BY DEF TripInv
<1> QED
  BY <1>1, <1>2, <1>3, PTL DEF TripSpec

-------------------------------------------------------------------------------
(* DaySchedule.                                                              *)

(* A set of natural numbers with 0 and the successor of each is all of them: no  *)
(* injection takes 0 .. k to itself without 0.                                   *)
LEMMA SetInduction ==
  ASSUME NEW S \in SUBSET Nat, 0 \in S, \A n \in S : n + 1 \in S
  PROVE  S = Nat
<1> SUFFICES ASSUME NEW k \in Nat, k \notin S PROVE FALSE
  OBVIOUS
<1> DEFINE T == S \cap (0 .. k)
           f == [n \in T |-> n + 1]
<1>1. IsFiniteSet(T)
  <2>1. IsFiniteSet(0 .. k)
    BY FS_Interval
  <2>2. T \in SUBSET (0 .. k)
    OBVIOUS
  <2> HIDE DEF T
  <2> QED
    BY <2>1, <2>2, FS_Subset
<1>2. 0 \in T
  OBVIOUS
<1>3. IsFiniteSet(T \ {0}) /\ Cardinality(T \ {0}) = Cardinality(T) - 1 /\ Cardinality(T) \in Nat
  BY <1>1, <1>2, FS_RemoveElement, FS_CardinalityType
<1>4. \A n \in T : n + 1 \in T \ {0}
  OBVIOUS
<1>5. f \in [T -> T \ {0}]
  BY <1>4
<1>6. \E x, y \in T : x # y /\ f[x] = f[y]
  <2> HIDE DEF f, T
  <2> QED BY <1>1, <1>3, <1>5, FS_PigeonHole
<1> QED
  BY <1>6

(* A function may be defined by recursion on 0 .. l.                             *)
Runs(f, l, c, G) == f[0] = c /\ \A n \in 1 .. l : f[n] = G[n][f[n - 1]]
LEMMA Recursion ==
  ASSUME NEW l \in Nat, NEW B, NEW c \in B, NEW G \in [1 .. l -> [B -> B]]
  PROVE  \E f \in [0 .. l -> B] : Runs(f, l, c, G)
<1> DEFINE Upto(m, f) == f[0] = c /\ \A n \in 1 .. m : f[n] = G[n][f[n - 1]]
           S == {m \in Nat : m <= l => \E f \in [0 .. m -> B] : Upto(m, f)}
<1>1. 0 \in S
  <2>1. [n \in 0 .. 0 |-> c] \in [0 .. 0 -> B] /\ Upto(0, [n \in 0 .. 0 |-> c])
    OBVIOUS
  <2> QED
    BY <2>1
<1>2. ASSUME NEW m \in S PROVE m + 1 \in S
  <2> SUFFICES ASSUME m + 1 <= l PROVE \E f \in [0 .. m + 1 -> B] : Upto(m + 1, f)
    OBVIOUS
  <2>1. PICK f \in [0 .. m -> B] : Upto(m, f)
    OBVIOUS
  <2> DEFINE g == [n \in 0 .. m + 1 |-> IF n = m + 1 THEN G[m + 1][f[m]] ELSE f[n]]
  <2>2. g \in [0 .. m + 1 -> B]
    BY <2>1
  <2>3. g[0] = c
    BY <2>1
  <2>4. ASSUME NEW n \in 1 .. m + 1 PROVE g[n] = G[n][g[n - 1]]
    <3>1. CASE n = m + 1
      BY <2>1, <3>1
    <3>2. CASE n \in 1 .. m
      BY <2>1, <3>2
    <3> QED BY <3>1, <3>2
  <2> HIDE DEF g
  <2> QED
    BY <2>2, <2>3, <2>4
<1>3. l \in S
  <2>1. S \in SUBSET Nat
    OBVIOUS
  <2> HIDE DEF S
  <2> QED BY <1>1, <1>2, <2>1, SetInduction
<1> QED
  BY <1>3 DEF Runs

(* The least and the greatest of two numbers, and of three.                      *)
LEMMA OfTwo ==
  ASSUME NEW a \in Int, NEW b \in Int
  PROVE  /\ Min({a, b}) \in {a, b} /\ Min({a, b}) <= a /\ Min({a, b}) <= b
         /\ Max({a, b}) \in {a, b} /\ Max({a, b}) >= a /\ Max({a, b}) >= b
<1>1. \E x \in {a, b} : \A y \in {a, b} : x <= y
  OBVIOUS
<1>2. \E x \in {a, b} : \A y \in {a, b} : x >= y
  OBVIOUS
<1> QED
  BY <1>1, <1>2 DEF Min, Max

LEMMA OfThree ==
  ASSUME NEW a \in Int, NEW b \in Int, NEW c \in Int
  PROVE  /\ Min({a, b, c}) \in {a, b, c}
         /\ Min({a, b, c}) <= a /\ Min({a, b, c}) <= b /\ Min({a, b, c}) <= c
         /\ Max({a, b, c}) \in {a, b, c}
         /\ Max({a, b, c}) >= a /\ Max({a, b, c}) >= b /\ Max({a, b, c}) >= c
<1>1. \E x \in {a, b, c} : \A y \in {a, b, c} : x <= y
  OBVIOUS
<1>2. \E x \in {a, b, c} : \A y \in {a, b, c} : x >= y
  OBVIOUS
<1> QED
  BY <1>1, <1>2 DEF Min, Max

-------------------------------------------------------------------------------
(* A route: each visit after the one before it and the way from there, inside    *)
(* its hours, and long enough.                                                   *)
DayVisit == [a : DOMAIN plan, at : Nat, stay : Nat, via : Nat]
InOrder(r) == \A n \in 1 .. Len(r) - 1 : Leave(r[n]) + r[n + 1].via <= r[n + 1].at
RidesAlong(r) == \A n \in 1 .. Len(r) - 1 : r[n + 1].via = ride[r[n].a][r[n + 1].a]
LongEnough(r) == \A n \in DOMAIN r : plan[r[n].a].required <= r[n].stay
Sound(r) ==
  /\ r \in Seq(DayVisit)
  /\ InOrder(r) /\ RidesAlong(r) /\ TimesFit(r) /\ LongEnough(r)

LEMMA RouteTyped ==
  ASSUME NEW r \in Seq(DayVisit)
  PROVE  /\ Len(r) \in Nat /\ DOMAIN r = 1 .. Len(r)
         /\ \A n \in DOMAIN r :
              /\ r[n] \in DayVisit /\ r[n].a \in DOMAIN plan
              /\ r[n].at \in Nat /\ r[n].stay \in Nat /\ r[n].via \in Nat
              /\ Leave(r[n]) = r[n].at + r[n].stay
<1>1. /\ Len(r) \in Nat /\ DOMAIN r = 1 .. Len(r)
      /\ \A n \in DOMAIN r : r[n] \in DayVisit
  OBVIOUS
<1>2. \A v \in DayVisit :
        v.a \in DOMAIN plan /\ v.at \in Nat /\ v.stay \in Nat /\ v.via \in Nat
  BY DEF DayVisit
<1> QED
  BY <1>1, <1>2 DEF Leave

(* What lies before a visit of a route is over when the way to it begins.        *)
LEMMA InOrderThroughout ==
  ASSUME NEW r \in Seq(DayVisit), InOrder(r), NEW i \in DOMAIN r, NEW j \in DOMAIN r, i < j
  PROVE  Leave(r[i]) + r[j].via <= r[j].at
<1> DEFINE P(d) == \A m \in DOMAIN r : i + d + 1 = m => Leave(r[i]) + r[m].via <= r[m].at
           S == {d \in Nat : P(d)}
<1>1. /\ Len(r) \in Nat /\ DOMAIN r = 1 .. Len(r)
      /\ \A n \in DOMAIN r : /\ r[n].at \in Nat /\ r[n].stay \in Nat /\ r[n].via \in Nat
                             /\ Leave(r[n]) = r[n].at + r[n].stay
  BY RouteTyped
<1>2. 0 \in S
  BY <1>1 DEF InOrder
<1>3. ASSUME NEW d \in S PROVE d + 1 \in S
  <2> SUFFICES ASSUME NEW m \in DOMAIN r, i + (d + 1) + 1 = m
               PROVE  Leave(r[i]) + r[m].via <= r[m].at
    OBVIOUS
  <2>1. m - 1 \in DOMAIN r /\ i + d + 1 = m - 1
    BY <1>1
  <2>2. Leave(r[i]) + r[m - 1].via <= r[m - 1].at
    BY <2>1
  <2>3. Leave(r[m - 1]) + r[m].via <= r[m].at
    BY <1>1, <2>1 DEF InOrder
  <2> QED
    <3> DEFINE from == Leave(r[i])
               by == r[m - 1].via
               at == r[m - 1].at
               stay == r[m - 1].stay
               via == r[m].via
               then == r[m].at
    <3>1. at \in Nat /\ stay \in Nat /\ by \in Nat /\ via \in Nat /\ then \in Nat
      BY <1>1, <2>1
    <3>2. from \in Nat
      <4> DEFINE x == r[i].at
                 y == r[i].stay
      <4>1. from = x + y /\ x \in Nat /\ y \in Nat
        BY <1>1
      <4> HIDE DEF from, x, y
      <4> QED BY <4>1
    <3>3. from + by <= at
      BY <2>2
    <3>4. at + stay + via <= then
      BY <1>1, <2>1, <2>3
    <3> HIDE DEF from, by, at, stay, via, then
    <3>5. from + via <= then
      BY <3>1, <3>2, <3>3, <3>4
    <3> QED BY <3>5 DEF from, via, then
<1>4. j - i - 1 \in S
  <2>1. S \in SUBSET Nat /\ j - i - 1 \in Nat
    BY <1>1
  <2> HIDE DEF S
  <2> QED BY <1>2, <1>3, <2>1, SetInduction
<1>5. P(j - i - 1) /\ i + (j - i - 1) + 1 = j
  BY <1>1, <1>4
<1> QED
  BY <1>5

(* Bounds and the rides of a day.                                                *)
LEMMA GivenTyped ==
  ASSUME DayGiven
  PROVE  /\ bounds.start \in Nat /\ bounds.end \in Nat
         /\ \A a \in DOMAIN plan :
              /\ plan[a].open \in Nat /\ plan[a].close \in Nat /\ plan[a].last \in Nat
              /\ plan[a].suggested \in Nat /\ plan[a].required \in Nat
              /\ 5 * plan[a].required >= 3 * plan[a].suggested
         /\ \A a, b \in DOMAIN plan : ride[a][b] \in Nat \cup {NoRoute}
BY DEF DayGiven, Allocation

(* Fits, with its extremes resolved.                                             *)
LEMMA FitsIff ==
  ASSUME DayGiven, NEW v \in DayVisit
  PROVE  Fits(v) <=>
           /\ bounds.start <= v.at /\ plan[v.a].open <= v.at
           /\ v.at <= plan[v.a].last
           /\ v.at + v.stay <= plan[v.a].close /\ v.at + v.stay <= bounds.end
<1> DEFINE p == plan[v.a]
<1>1. /\ v.at \in Nat /\ v.stay \in Nat /\ bounds.start \in Nat /\ bounds.end \in Nat
      /\ p.open \in Nat /\ p.last \in Nat /\ p.close \in Nat
  BY GivenTyped DEF DayVisit
<1>2. /\ Max({bounds.start, p.open}) \in {bounds.start, p.open}
      /\ Max({bounds.start, p.open}) >= bounds.start /\ Max({bounds.start, p.open}) >= p.open
  <2>1. bounds.start \in Int /\ p.open \in Int
    BY <1>1
  <2> HIDE DEF p
  <2> QED BY <2>1, OfTwo
<1>3. LET m == Min({p.last, p.close - v.stay, bounds.end - v.stay}) IN
      /\ m \in {p.last, p.close - v.stay, bounds.end - v.stay}
      /\ m <= p.last /\ m <= p.close - v.stay /\ m <= bounds.end - v.stay
  <2>1. p.close - v.stay \in Int /\ bounds.end - v.stay \in Int /\ p.last \in Int
    BY <1>1
  <2> QED BY <2>1, OfThree
<1> HIDE DEF p
<1>4. Fits(v) <=> /\ Max({bounds.start, p.open}) <= v.at
                  /\ v.at <= Min({p.last, p.close - v.stay, bounds.end - v.stay})
  BY DEF Fits, p
<1>5. Fits(v) <=>
           /\ bounds.start <= v.at /\ p.open <= v.at
           /\ v.at <= p.last
           /\ v.at + v.stay <= p.close /\ v.at + v.stay <= bounds.end
  BY <1>1, <1>2, <1>3, <1>4
<1> QED
  BY <1>5 DEF p

(* A sound route passes validation.                                              *)
LEMMA SoundIsValidated ==
  ASSUME DayGiven, NEW r, Sound(r)
  PROVE  Validated(r)
<1>1. r \in Seq(DayVisit) /\ Len(r) \in Nat /\ DOMAIN r = 1 .. Len(r)
  BY DEF Sound
<1>2. ASSUME NEW n \in DOMAIN r
      PROVE  LET p == plan[r[n].a] IN
             /\ p.open <= r[n].at /\ r[n].at <= Min({p.last, p.close - r[n].stay})
             /\ 5 * r[n].stay >= 3 * p.suggested
             /\ bounds.start <= r[n].at /\ Leave(r[n]) <= bounds.end
  <2>1. r[n] \in DayVisit /\ Fits(r[n]) /\ plan[r[n].a].required <= r[n].stay
    BY <1>1 DEF Sound, TimesFit, LongEnough
  <2> DEFINE v == r[n]
             p == plan[v.a]
  <2>2. /\ v.at \in Nat /\ v.stay \in Nat /\ v.a \in DOMAIN plan
        /\ p.last \in Nat /\ p.close \in Nat /\ p.suggested \in Nat /\ p.required \in Nat
        /\ 5 * p.required >= 3 * p.suggested
    BY <2>1, GivenTyped DEF DayVisit
  <2>3. /\ bounds.start <= v.at /\ p.open <= v.at /\ v.at <= p.last
        /\ v.at + v.stay <= p.close /\ v.at + v.stay <= bounds.end
    BY <2>1, FitsIff
  <2>4. Min({p.last, p.close - v.stay}) \in {p.last, p.close - v.stay}
    <3>1. p.close - v.stay \in Int /\ p.last \in Int
      BY <2>2
    <3> QED BY <3>1, OfTwo
  <2>5. p.required <= v.stay
    BY <2>1
  <2> HIDE DEF p, v
  <2>6. /\ p.open <= v.at /\ v.at <= Min({p.last, p.close - v.stay})
        /\ 5 * v.stay >= 3 * p.suggested
        /\ bounds.start <= v.at /\ Leave(v) <= bounds.end
    BY <2>2, <2>3, <2>4, <2>5 DEF Leave
  <2> QED
    BY <2>6 DEF p, v
<1>3. Connected(r)
  <2> SUFFICES ASSUME NEW n \in 1 .. Len(r) - 1
               PROVE  /\ ride[r[n].a][r[n + 1].a] # NoRoute
                      /\ r[n + 1].at >= Leave(r[n]) + ride[r[n].a][r[n + 1].a]
    BY DEF Connected
  <2>1. r[n] \in DayVisit /\ r[n + 1] \in DayVisit
    BY <1>1
  <2>2. /\ Leave(r[n]) + r[n + 1].via <= r[n + 1].at
        /\ r[n + 1].via = ride[r[n].a][r[n + 1].a]
    BY DEF Sound, InOrder, RidesAlong
  <2>3. r[n + 1].via \in Nat /\ NoRoute \notin Int
    BY <2>1, DayConstants DEF DayVisit
  <2>4. r[n + 1].at \in Nat /\ r[n].at \in Nat /\ r[n].stay \in Nat
    BY <2>1 DEF DayVisit
  <2> QED
    BY <2>2, <2>3, <2>4 DEF Leave
<1> QED
  BY <1>2, <1>3 DEF Validated

-------------------------------------------------------------------------------
(* _minimum_finish: without waiting, the visits end no later than they do.       *)
LEMMA MinimumFinishBound ==
  ASSUME NEW r \in Seq(DayVisit), r # << >>, InOrder(r)
  PROVE  MinimumFinish(r) \in Int /\ MinimumFinish(r) <= Leave(LastOf(r))
<1> DEFINE by(n) == (IF n = 1 THEN 0 ELSE r[n].via) + r[n].stay
           G == [n \in 1 .. Len(r) |-> [x \in Int |-> x + by(n)]]
           e(f) == [n \in 0 .. Len(r) |->
                     IF n = 0 THEN r[1].at
                     ELSE f[n - 1] + (IF n = 1 THEN 0 ELSE r[n].via) + r[n].stay]
           F == CHOOSE f : f = e(f)
<1>1. /\ Len(r) \in Nat /\ DOMAIN r = 1 .. Len(r) /\ Len(r) > 0
      /\ \A n \in DOMAIN r : /\ r[n].at \in Nat /\ r[n].stay \in Nat /\ r[n].via \in Nat
                             /\ Leave(r[n]) = r[n].at + r[n].stay
  BY RouteTyped, EmptySeq
<1>2. G \in [1 .. Len(r) -> [Int -> Int]] /\ r[1].at \in Int
  BY <1>1
<1>3. PICK f \in [0 .. Len(r) -> Int] : f[0] = r[1].at /\ \A n \in 1 .. Len(r) : f[n] = G[n][f[n - 1]]
  <2> DEFINE l == Len(r)
             B == Int
  <2>1. l \in Nat /\ G \in [1 .. l -> [B -> B]]
    BY <1>1, <1>2
  <2> HIDE DEF G, B, l, e, F
  <2>2. \A c \in B : \E f \in [0 .. l -> B] : Runs(f, l, c, G)
    BY <2>1, Recursion
  <2> QED BY <1>2, <2>2 DEF l, B, Runs
<1>4. ASSUME NEW n \in 0 .. Len(r) PROVE f[n] = e(f)[n]
  <2>1. CASE n = 0
    BY <1>3, <2>1
  <2>2. CASE n \in 1 .. Len(r)
    <3>1. f[n - 1] \in Int /\ f[n] = f[n - 1] + by(n)
      <4>1. n - 1 \in 0 .. Len(r)
        BY <1>1, <2>2
      <4>2. f[n - 1] \in Int
        BY <1>3, <4>1
      <4> QED BY <1>3, <2>2, <4>2
    <3>2. r[n].via \in Nat /\ r[n].stay \in Nat
      BY <1>1, <2>2
    <3> QED BY <3>1, <3>2, <2>2
  <2> QED BY <1>1, <2>1, <2>2
<1>5. f = e(f)
  BY <1>3, <1>4
<1>6. F = e(F)
  <2> HIDE DEF e
  <2> QED BY <1>5
<1>7. MinimumFinish(r) = F[Len(r)]
  BY DEF MinimumFinish
<1>8. /\ F[0] = r[1].at
      /\ \A n \in 1 .. Len(r) : F[n] = F[n - 1] + (IF n = 1 THEN 0 ELSE r[n].via) + r[n].stay
  <2> HIDE DEF F
  <2> QED BY <1>1, <1>6
<1> HIDE DEF F, e, G, by
<1> DEFINE P(n) == n + 1 \in DOMAIN r => F[n + 1] \in Int /\ F[n + 1] <= r[n + 1].at + r[n + 1].stay
           S == {n \in Nat : P(n)}
<1>9. 0 \in S
  <2>1. F[1] = F[0] + 0 + r[1].stay
    BY <1>1, <1>8
  <2> QED BY <1>1, <1>8, <2>1
<1>10. ASSUME NEW n \in S PROVE n + 1 \in S
  <2> SUFFICES ASSUME n + 1 + 1 \in DOMAIN r
               PROVE  F[n + 1 + 1] \in Int /\ F[n + 1 + 1] <= r[n + 1 + 1].at + r[n + 1 + 1].stay
    OBVIOUS
  <2> DEFINE m == n + 1
  <2>1. m \in DOMAIN r /\ m + 1 \in DOMAIN r /\ m \in 1 .. Len(r) - 1 /\ m + 1 # 1
    BY <1>1
  <2>2. F[m + 1] = F[m] + r[m + 1].via + r[m + 1].stay
    <3>1. m + 1 - 1 = m
      BY <2>1
    <3> HIDE DEF m
    <3> QED BY <1>1, <1>8, <2>1, <3>1
  <2>3. F[m] \in Int /\ F[m] <= r[m].at + r[m].stay
    BY <2>1
  <2>4. r[m].at + r[m].stay + r[m + 1].via <= r[m + 1].at
    BY <1>1, <2>1 DEF InOrder
  <2>5. /\ r[m].at \in Nat /\ r[m].stay \in Nat
        /\ r[m + 1].at \in Nat /\ r[m + 1].stay \in Nat /\ r[m + 1].via \in Nat
    BY <1>1, <2>1
  <2>6. F[m + 1] \in Int /\ F[m + 1] <= r[m + 1].at + r[m + 1].stay
    <3> DEFINE x == F[m]
               y == F[m + 1]
               was == r[m].at + r[m].stay
               at == r[m + 1].at
               stay == r[m + 1].stay
               via == r[m + 1].via
    <3>1. x \in Int /\ x <= was
      <4> HIDE DEF m
      <4> QED BY <2>3
    <3>2. was \in Nat /\ at \in Nat /\ stay \in Nat /\ via \in Nat
      BY <2>5
    <3>3. y = x + via + stay
      BY <2>2
    <3>4. was + via <= at
      BY <2>4
    <3> HIDE DEF x, y, was, at, stay, via
    <3>5. y \in Int /\ y <= at + stay
      BY <3>1, <3>2, <3>3, <3>4
    <3> QED BY <3>5 DEF y, at, stay
  <2> HIDE DEF m
  <2> QED BY <2>6 DEF m
<1>11. P(Len(r) - 1)
  <2>1. S \in SUBSET Nat /\ Len(r) - 1 \in Nat
    BY <1>1
  <2>2. S = Nat
    <3> HIDE DEF S
    <3> QED BY <1>9, <1>10, <2>1, SetInduction
  <2> QED BY <2>1, <2>2
<1> QED
  <2>1. Len(r) - 1 + 1 = Len(r) /\ Len(r) \in DOMAIN r
    BY <1>1
  <2> QED BY <1>1, <1>7, <1>11, <2>1 DEF LastOf

(* The total of the stays is a number.                                           *)
LEMMA StaysTyped ==
  ASSUME NEW r \in Seq(DayVisit)
  PROVE  Stays(r) \in Int
<1> DEFINE G == [n \in 1 .. Len(r) |-> [x \in Int |-> x + r[n].stay]]
           e(f) == [n \in 0 .. Len(r) |-> IF n = 0 THEN 0 ELSE f[n - 1] + r[n].stay]
           F == CHOOSE f : f = e(f)
<1>1. /\ Len(r) \in Nat /\ DOMAIN r = 1 .. Len(r)
      /\ \A n \in DOMAIN r : r[n].stay \in Nat
  BY RouteTyped
<1>2. G \in [1 .. Len(r) -> [Int -> Int]]
  BY <1>1
<1>3. PICK f \in [0 .. Len(r) -> Int] : f[0] = 0 /\ \A n \in 1 .. Len(r) : f[n] = G[n][f[n - 1]]
  <2> DEFINE l == Len(r)
             B == Int
  <2>1. l \in Nat /\ G \in [1 .. l -> [B -> B]]
    BY <1>1, <1>2
  <2> HIDE DEF G, B, l, e, F
  <2>2. \A c \in B : \E f \in [0 .. l -> B] : Runs(f, l, c, G)
    BY <2>1, Recursion
  <2> QED BY <1>2, <2>2 DEF l, B, Runs
<1>4. ASSUME NEW n \in 0 .. Len(r) PROVE f[n] = e(f)[n]
  <2>1. CASE n = 0
    BY <1>3, <2>1
  <2>2. CASE n \in 1 .. Len(r)
    <3>1. f[n - 1] \in Int /\ f[n] = f[n - 1] + r[n].stay
      <4>1. n - 1 \in 0 .. Len(r)
        BY <1>1, <2>2
      <4>2. f[n - 1] \in Int
        BY <1>3, <4>1
      <4> QED BY <1>3, <2>2, <4>2
    <3> QED BY <3>1, <2>2
  <2> QED BY <1>1, <2>1, <2>2
<1>5. f = e(f)
  BY <1>3, <1>4
<1>6. F = e(F)
  <2> HIDE DEF e
  <2> QED BY <1>5
<1>7. Stays(r) = F[Len(r)]
  BY DEF Stays
<1>8. F[0] = 0 /\ \A n \in 1 .. Len(r) : F[n] = F[n - 1] + r[n].stay
  <2> HIDE DEF F
  <2> QED BY <1>1, <1>6
<1> HIDE DEF F, e, G
<1> DEFINE S == {n \in Nat : n <= Len(r) => F[n] \in Int}
<1>9. 0 \in S
  BY <1>8
<1>10. ASSUME NEW n \in S PROVE n + 1 \in S
  <2> SUFFICES ASSUME n + 1 <= Len(r) PROVE F[n + 1] \in Int
    OBVIOUS
  <2>1. n + 1 \in 1 .. Len(r) /\ n + 1 - 1 = n /\ F[n] \in Int
    BY <1>1
  <2>2. F[n + 1] = F[n] + r[n + 1].stay
    BY <1>8, <2>1
  <2> QED BY <1>1, <2>1, <2>2
<1>11. Len(r) \in S
  <2>1. S \in SUBSET Nat
    OBVIOUS
  <2> HIDE DEF S
  <2> QED BY <1>1, <1>9, <1>10, <2>1, SetInduction
<1> QED
  BY <1>1, <1>7, <1>11

-------------------------------------------------------------------------------
(* s visits the first m attractions of r in their order, each as long at least.  *)
Keeps(s, r, m) ==
  /\ s \in Seq(DayVisit) /\ Len(s) = m
  /\ \A n \in 1 .. m : s[n].a = r[n].a /\ s[n].via = r[n].via /\ s[n].stay >= r[n].stay
  /\ InOrder(s)
Builds == [row : Seq(DayVisit), lunch : BOOLEAN]

LEMMA FunctionIsSequence ==
  ASSUME NEW S, NEW m \in Nat, NEW f \in [1 .. m -> S]
  PROVE  f \in Seq(S) /\ Len(f) = m /\ DOMAIN f = 1 .. m
OBVIOUS

LEMMA VisitTyped ==
  ASSUME NEW a \in DOMAIN plan, NEW at \in Nat, NEW stay \in Nat, NEW via \in Nat
  PROVE  /\ Visit(a, at, stay, via) \in DayVisit
         /\ Visit(a, at, stay, via).a = a /\ Visit(a, at, stay, via).at = at
         /\ Visit(a, at, stay, via).stay = stay /\ Visit(a, at, stay, via).via = via
         /\ Leave(Visit(a, at, stay, via)) = at + stay
BY DEF Visit, DayVisit, Leave

(* One more visit: not before the way to it, and as long at least.               *)
LEMMA AppendedVisit ==
  ASSUME DayGiven, NEW v \in DayVisit, NEW b \in Builds, NEW full \in BOOLEAN, NEW withLunch \in BOOLEAN
  PROVE  \E at \in Nat, stay \in Nat, lunch \in BOOLEAN :
           /\ Appended(b, v, full, withLunch) =
                [row |-> Append(b.row, Visit(v.a, at, stay, v.via)), lunch |-> lunch]
           /\ stay >= v.stay
           /\ b.row # << >> => at >= Leave(LastOf(b.row)) + v.via
<1> DEFINE stay == IF full THEN Max({v.stay, plan[v.a].suggested}) ELSE v.stay
           ready == IF b.row = << >> THEN v.at ELSE Leave(LastOf(b.row)) + v.via
           lunchHere ==
             /\ withLunch /\ ~ b.lunch /\ b.row # << >>
             /\ Leave(LastOf(b.row)) <= LunchTo
             /\ ready + Lunch >= LunchFrom
             /\ ready < LunchTo
           at == IF lunchHere THEN Max({ready + Lunch, LunchTarget}) ELSE Max({ready, v.at})
           lunch == b.lunch \/ lunchHere
<1>1. /\ v.a \in DOMAIN plan /\ v.at \in Nat /\ v.stay \in Nat /\ v.via \in Nat
      /\ plan[v.a].suggested \in Nat
  BY GivenTyped DEF DayVisit
<1>2. stay \in Nat /\ stay >= v.stay
  <2> DEFINE was == v.stay
             suggested == plan[v.a].suggested
  <2>1. was \in Nat /\ suggested \in Nat
    BY <1>1
  <2> HIDE DEF was, suggested
  <2>2. Max({was, suggested}) \in Nat /\ Max({was, suggested}) >= was
    BY <2>1, OfTwo
  <2> QED BY <2>1, <2>2 DEF was, suggested
<1>3. ready \in Nat
  <2>1. CASE b.row = << >>
    BY <1>1, <2>1
  <2>2. CASE b.row # << >>
    <3>1. b.row \in Seq(DayVisit)
      BY DEF Builds
    <3>2. Len(b.row) \in DOMAIN b.row
      BY <2>2, <3>1, RouteTyped, EmptySeq
    <3>3. LastOf(b.row).at \in Nat /\ LastOf(b.row).stay \in Nat
      BY <3>1, <3>2, RouteTyped DEF LastOf
    <3> QED BY <1>1, <2>2, <3>3 DEF Leave
  <2> QED BY <2>1, <2>2
<1>4. at \in Nat /\ at >= ready
  <2> HIDE DEF ready, lunchHere
  <2>1. ready + Lunch \in Int /\ LunchTarget \in Int /\ ready \in Int /\ v.at \in Int
    BY <1>1, <1>3 DEF Lunch, LunchTarget
  <2>2. /\ Max({ready + Lunch, LunchTarget}) \in Int /\ Max({ready + Lunch, LunchTarget}) >= ready + Lunch
        /\ Max({ready, v.at}) \in Int /\ Max({ready, v.at}) >= ready
    BY <2>1, OfTwo
  <2> QED BY <1>3, <2>2 DEF Lunch
<1>5. lunch \in BOOLEAN
  BY DEF Builds
<1>6. Appended(b, v, full, withLunch) =
        [row |-> Append(b.row, Visit(v.a, at, stay, v.via)), lunch |-> lunch]
  BY DEF Appended
<1>7. b.row # << >> => at >= Leave(LastOf(b.row)) + v.via
  <2> HIDE DEF at, lunchHere
  <2> QED BY <1>4
<1> HIDE DEF at, stay, lunch, ready, lunchHere
<1> QED
  BY <1>2, <1>4, <1>5, <1>6, <1>7

LEMMA AppendedKeeps ==
  ASSUME DayGiven, NEW r \in Seq(DayVisit), NEW n \in 1 .. Len(r), NEW b \in Builds,
         NEW full \in BOOLEAN, NEW withLunch \in BOOLEAN
  PROVE  /\ Appended(b, r[n], full, withLunch) \in Builds
         /\ Keeps(b.row, r, n - 1) => Keeps(Appended(b, r[n], full, withLunch).row, r, n)
<1> DEFINE w == r[n]
           row == b.row
<1>1. /\ w \in DayVisit /\ w.a \in DOMAIN plan /\ w.via \in Nat /\ w.stay \in Nat
      /\ n \in Nat /\ n >= 1 /\ row \in Seq(DayVisit)
  BY RouteTyped DEF Builds
<1> HIDE DEF w, row
<1>2. PICK at \in Nat, stay \in Nat, lunch \in BOOLEAN :
           /\ Appended(b, w, full, withLunch) =
                [row |-> Append(row, Visit(w.a, at, stay, w.via)), lunch |-> lunch]
           /\ stay >= w.stay
           /\ row # << >> => at >= Leave(LastOf(row)) + w.via
  BY <1>1, AppendedVisit DEF row
<1> DEFINE v == Visit(w.a, at, stay, w.via)
           s == Append(row, v)
<1>3. /\ v \in DayVisit /\ v.a = w.a /\ v.via = w.via /\ v.stay = stay /\ v.at = at
  BY <1>1 DEF Visit, DayVisit
<1>4. row \in Seq(DayVisit)
  BY <1>1
<1> HIDE DEF v
<1>5. /\ s \in Seq(DayVisit) /\ Len(s) = Len(row) + 1
      /\ s[Len(row) + 1] = v
      /\ \A m \in 1 .. Len(row) : s[m] = row[m]
  BY <1>3, <1>4
<1> HIDE DEF s
<1>6. Appended(b, w, full, withLunch) = [row |-> s, lunch |-> lunch]
  BY <1>2 DEF v, s
<1>7. Appended(b, w, full, withLunch) \in Builds
  BY <1>5, <1>6 DEF Builds
<1>8. ASSUME Keeps(row, r, n - 1) PROVE Keeps(s, r, n)
  <2>1. Len(row) = n - 1 /\ Len(s) = n
    BY <1>1, <1>5, <1>8 DEF Keeps
  <2>2. ASSUME NEW m \in 1 .. n
        PROVE  /\ s[m].a = r[m].a /\ s[m].via = r[m].via
               /\ s[m].stay >= r[m].stay
    <3>1. CASE m = n
      <4>1. s[m] = v /\ r[m] = w
        BY <1>1, <1>5, <2>1, <3>1 DEF w
      <4>2. v.a = w.a /\ v.via = w.via /\ v.stay >= w.stay
        BY <1>2, <1>3
      <4> QED BY <4>1, <4>2
    <3>2. CASE m \in 1 .. n - 1
      BY <1>5, <1>8, <2>1, <3>2 DEF Keeps
    <3> QED BY <1>1, <3>1, <3>2
  <2>3. InOrder(s)
    <3> SUFFICES ASSUME NEW m \in 1 .. n - 1
                 PROVE  Leave(s[m]) + s[m + 1].via <= s[m + 1].at
      BY <2>1 DEF InOrder
    <3>1. CASE m = n - 1
      <4>1. row # << >> /\ LastOf(row) = row[m] /\ m \in 1 .. Len(row)
        BY <1>1, <2>1, <3>1, EmptySeq DEF LastOf
      <4>2. s[m] = row[m] /\ s[m + 1] = v
        BY <1>1, <1>5, <2>1, <3>1, <4>1
      <4>3. at >= Leave(row[m]) + w.via
        BY <1>2, <4>1
      <4>4. Leave(row[m]) \in Int
        BY <1>4, <4>1, RouteTyped
      <4>5. w.via \in Nat /\ v.via = w.via /\ v.at = at
        BY <1>1, <1>3
      <4>6. Leave(row[m]) + v.via <= v.at
        BY <4>3, <4>4, <4>5
      <4> QED BY <4>2, <4>6
    <3>2. CASE m \in 1 .. n - 2
      <4>1. m \in 1 .. Len(row) /\ m + 1 \in 1 .. Len(row) /\ m \in 1 .. Len(row) - 1
        BY <1>1, <2>1, <3>2
      <4>2. s[m] = row[m] /\ s[m + 1] = row[m + 1]
        BY <1>5, <4>1
      <4>3. Leave(row[m]) + row[m + 1].via <= row[m + 1].at
        BY <1>8, <4>1 DEF Keeps, InOrder
      <4> QED BY <4>2, <4>3
    <3> QED BY <1>1, <3>1, <3>2
  <2> QED BY <1>5, <2>1, <2>2, <2>3 DEF Keeps
<1> QED
  BY <1>6, <1>7, <1>8 DEF row, w
LEMMA CandidateKeeps ==
  ASSUME DayGiven, NEW r \in Seq(DayVisit), NEW full \in BOOLEAN, NEW withLunch \in BOOLEAN
  PROVE  Candidate(r, full, withLunch) \in Builds /\ Keeps(Candidate(r, full, withLunch).row, r, Len(r))
<1> DEFINE none == [row |-> << >>, lunch |-> FALSE]
           G == [n \in 1 .. Len(r) |-> [b \in Builds |-> Appended(b, r[n], full, withLunch)]]
           e(f) == [n \in 0 .. Len(r) |->
                     IF n = 0 THEN none ELSE Appended(f[n - 1], r[n], full, withLunch)]
           F == CHOOSE f : f = e(f)
           l == Len(r)
<1>1. l \in Nat /\ none \in Builds
  BY RouteTyped, EmptySeq DEF Builds
<1>2. G \in [1 .. l -> [Builds -> Builds]]
  BY AppendedKeeps
<1>3. PICK f \in [0 .. l -> Builds] : Runs(f, l, none, G)
  <2> HIDE DEF G, none, l
  <2> QED BY <1>1, <1>2, Recursion
<1>4. ASSUME NEW n \in 0 .. l PROVE f[n] = e(f)[n]
  <2>1. CASE n = 0
    BY <1>3, <2>1 DEF Runs
  <2>2. CASE n \in 1 .. l
    <3>1. n - 1 \in 0 .. l /\ n # 0
      BY <1>1, <2>2
    <3>2. f[n - 1] \in Builds
      BY <1>3, <3>1
    <3>3. f[n] = G[n][f[n - 1]]
      BY <1>3, <2>2 DEF Runs
    <3> QED BY <2>2, <3>1, <3>2, <3>3
  <2> QED BY <1>1, <2>1, <2>2
<1>5. f = e(f)
  BY <1>3, <1>4
<1>6. F = e(F)
  <2> HIDE DEF e
  <2> QED BY <1>5
<1>7. Candidate(r, full, withLunch) = F[l]
  BY DEF Candidate
<1>8. F[0] = none /\ \A n \in 1 .. l : F[n] = Appended(F[n - 1], r[n], full, withLunch)
  <2> HIDE DEF F, none, l
  <2>1. F = [n \in 0 .. l |-> IF n = 0 THEN none ELSE Appended(F[n - 1], r[n], full, withLunch)]
    BY <1>6 DEF l
  <2> HIDE DEF e
  <2> QED BY <1>1, <2>1
<1> HIDE DEF F, e, G
<1> DEFINE S == {n \in Nat : n <= l => F[n] \in Builds /\ Keeps(F[n].row, r, n)}
<1>9. 0 \in S
  <2>1. none.row = << >> /\ Keeps(<< >>, r, 0)
    BY EmptySeq DEF Keeps, InOrder
  <2> QED BY <1>1, <1>8, <2>1
<1>10. ASSUME NEW n \in S PROVE n + 1 \in S
  <2> SUFFICES ASSUME n + 1 <= l PROVE F[n + 1] \in Builds /\ Keeps(F[n + 1].row, r, n + 1)
    OBVIOUS
  <2>1. n + 1 \in 1 .. Len(r) /\ n + 1 - 1 = n /\ F[n] \in Builds /\ Keeps(F[n].row, r, n)
    BY <1>1
  <2>2. F[n + 1] = Appended(F[n], r[n + 1], full, withLunch)
    BY <1>8, <2>1
  <2> DEFINE m == n + 1
             b == F[n]
  <2>3. m \in 1 .. Len(r) /\ b \in Builds /\ Keeps(b.row, r, m - 1)
    BY <2>1
  <2> HIDE DEF m, b
  <2>4. /\ Appended(b, r[m], full, withLunch) \in Builds
        /\ Keeps(Appended(b, r[m], full, withLunch).row, r, m)
    BY <2>3, AppendedKeeps
  <2> QED BY <2>2, <2>4 DEF m, b
<1>11. l \in S
  <2>1. S \in SUBSET Nat
    OBVIOUS
  <2> HIDE DEF S, l
  <2> QED BY <1>1, <1>9, <1>10, <2>1, SetInduction
<1> QED
  BY <1>1, <1>7, <1>11

LEMMA DelayedKeeps ==
  ASSUME NEW r, NEW m \in Nat, m > 0, NEW row, Keeps(row, r, m), NEW deadline \in Int
  PROVE  Keeps(Delayed(row, deadline), r, m)
<1>1. /\ row \in Seq(DayVisit) /\ Len(row) = m /\ DOMAIN row = 1 .. m /\ InOrder(row)
      /\ \A n \in 1 .. m : /\ row[n].a \in DOMAIN plan /\ row[n] \in DayVisit
                           /\ row[n].at \in Nat /\ row[n].stay \in Nat /\ row[n].via \in Nat
                           /\ Leave(row[n]) = row[n].at + row[n].stay
  BY RouteTyped DEF Keeps
<1> DEFINE delay == Max({0, Min({SpreadDelay, Min({SpreadTarget, deadline}) - Leave(LastOf(row))})})
           last == row[m]
           later == [last EXCEPT !.at = last.at + delay]
           s == [row EXCEPT ![m] = later]
<1>2. delay \in Nat
  <2>1. Leave(LastOf(row)) \in Int
    BY <1>1 DEF LastOf
  <2>2. Min({SpreadTarget, deadline}) \in Int
    <3>1. SpreadTarget \in Int
      BY DEF SpreadTarget
    <3> QED BY <3>1, OfTwo
  <2>3. Min({SpreadDelay, Min({SpreadTarget, deadline}) - Leave(LastOf(row))}) \in Int
    <3> DEFINE x == Min({SpreadTarget, deadline}) - Leave(LastOf(row))
    <3>1. x \in Int /\ SpreadDelay \in Int
      BY <2>1, <2>2 DEF SpreadDelay
    <3> HIDE DEF x
    <3>2. Min({SpreadDelay, x}) \in Int
      BY <3>1, OfTwo
    <3> QED BY <3>2 DEF x
  <2> DEFINE y == Min({SpreadDelay, Min({SpreadTarget, deadline}) - Leave(LastOf(row))})
  <2>4. y \in Int
    BY <2>3
  <2> HIDE DEF y
  <2>5. Max({0, y}) \in Nat
    BY <2>4, OfTwo
  <2> QED BY <2>5 DEF y
<1>3. Delayed(row, deadline) = s
  BY <1>1 DEF Delayed
<1> HIDE DEF delay
<1>4. /\ later \in DayVisit /\ later.a = last.a /\ later.via = last.via
      /\ later.stay = last.stay /\ later.at = last.at + delay
  <2>1. last \in DayVisit
    BY <1>1
  <2> HIDE DEF last
  <2> QED BY <1>2, <2>1 DEF DayVisit
<1> HIDE DEF later
<1>5. /\ s \in Seq(DayVisit) /\ Len(s) = m /\ s[m] = later
      /\ \A n \in 1 .. m - 1 : s[n] = row[n]
  BY <1>1, <1>4, ExceptSeq
<1> HIDE DEF s
<1>6. ASSUME NEW n \in 1 .. m
      PROVE  s[n].a = r[n].a /\ s[n].via = r[n].via /\ s[n].stay >= r[n].stay
  <2>1. s[n].a = row[n].a /\ s[n].via = row[n].via /\ s[n].stay = row[n].stay
    <3>1. CASE n = m
      BY <1>4, <1>5, <3>1
    <3>2. CASE n \in 1 .. m - 1
      BY <1>5, <3>2
    <3> QED BY <3>1, <3>2
  <2> QED BY <2>1 DEF Keeps
<1>7. InOrder(s)
  <2> SUFFICES ASSUME NEW n \in 1 .. m - 1
               PROVE  Leave(s[n]) + s[n + 1].via <= s[n + 1].at
    BY <1>5 DEF InOrder
  <2>1. Leave(row[n]) + row[n + 1].via <= row[n + 1].at
    BY <1>1 DEF InOrder
  <2>2. s[n] = row[n] /\ s[n + 1].via = row[n + 1].via /\ s[n + 1].at >= row[n + 1].at /\ s[n + 1].at \in Nat
    <3>1. CASE n + 1 = m
      <4>1. n \in 1 .. m - 1 /\ n \in 1 .. m
        BY <1>1
      <4>2. s[n] = row[n]
        BY <1>5, <4>1
      <4>3. s[n + 1].via = row[n + 1].via /\ s[n + 1].at >= row[n + 1].at /\ s[n + 1].at \in Nat
        BY <1>1, <1>2, <1>4, <1>5, <3>1
      <4> QED BY <4>2, <4>3
    <3>2. CASE n + 1 \in 1 .. m - 1
      BY <1>1, <1>5, <3>2
    <3> QED BY <3>1, <3>2
  <2>3. Leave(row[n]) \in Nat /\ row[n + 1].via \in Nat /\ row[n + 1].at \in Nat
    <3>1. n \in 1 .. m /\ n + 1 \in 1 .. m
      BY <1>1
    <3>2. /\ row[n].at \in Nat /\ row[n].stay \in Nat /\ Leave(row[n]) = row[n].at + row[n].stay
          /\ row[n + 1].via \in Nat /\ row[n + 1].at \in Nat
      BY <1>1, <3>1
    <3> DEFINE x == row[n].at
               y == row[n].stay
    <3>3. x \in Nat /\ y \in Nat /\ Leave(row[n]) = x + y
      BY <3>2
    <3> HIDE DEF x, y
    <3>4. x + y \in Nat
      BY <3>3
    <3> QED BY <3>2, <3>3, <3>4
  <2> DEFINE from == Leave(row[n])
             via == row[n + 1].via
             was == row[n + 1].at
             at == s[n + 1].at
  <2>4. from \in Nat /\ via \in Nat /\ was \in Nat /\ at \in Nat /\ from + via <= was /\ was <= at
    BY <2>1, <2>2, <2>3
  <2>5. Leave(s[n]) = from /\ s[n + 1].via = via
    BY <2>2
  <2> HIDE DEF from, via, was, at
  <2>6. from + via <= at
    BY <2>4
  <2> QED BY <2>5, <2>6 DEF at
<1> QED
  BY <1>3, <1>5, <1>6, <1>7 DEF Keeps

LEMMA BuiltKeeps ==
  ASSUME DayGiven, NEW r \in Seq(DayVisit), r # << >>, NEW full \in BOOLEAN,
         NEW withLunch \in BOOLEAN, NEW deadline \in Int,
         Built(r, full, withLunch, deadline) # << >>
  PROVE  /\ Keeps(Built(r, full, withLunch, deadline), r, Len(r))
         /\ Leave(LastOf(Built(r, full, withLunch, deadline))) <= deadline
<1> DEFINE all == Candidate(r, full, withLunch)
           row == Delayed(all.row, deadline)
<1>1. Len(r) \in Nat /\ Len(r) > 0
  BY EmptySeq
<1>2. Keeps(all.row, r, Len(r))
  BY CandidateKeeps
<1>3. Keeps(row, r, Len(r))
  <2> HIDE DEF all
  <2> QED BY <1>1, <1>2, DelayedKeeps
<1>4. Built(r, full, withLunch, deadline) =
        IF (withLunch /\ ~ all.lunch) \/ Leave(LastOf(row)) > deadline THEN << >> ELSE row
  BY DEF Built
<1>5. Leave(LastOf(row)) \in Int
  <2>1. row \in Seq(DayVisit) /\ Len(row) = Len(r)
    BY <1>3 DEF Keeps
  <2> HIDE DEF row
  <2> QED BY <1>1, <2>1, RouteTyped DEF LastOf
<1> HIDE DEF all, row
<1> QED
  BY <1>3, <1>4, <1>5

-------------------------------------------------------------------------------
(* Of candidates that are totally ordered one comes before all the others.       *)
LEMMA FirstOfSome ==
  ASSUME NEW l \in Nat, NEW good \in SUBSET (1 .. l), good # {}, NEW R,
         \A m, n \in good : m # n => <<m, n>> \in R \/ <<n, m>> \in R,
         \A m, n, o \in good : <<m, n>> \in R /\ <<n, o>> \in R => <<m, o>> \in R
  PROVE  \E n \in good : \A m \in good \ {n} : <<n, m>> \in R
<1> DEFINE P(k) == \/ \A n \in good : n > k
                   \/ \E n \in good : n <= k /\ \A m \in good \ {n} : m <= k => <<n, m>> \in R
           S == {k \in Nat : P(k)}
<1>1. 0 \in S
  OBVIOUS
<1>2. ASSUME NEW k \in S PROVE k + 1 \in S
  <2>1. CASE k + 1 \notin good
    <3>1. \A m \in good : (m <= k + 1 <=> m <= k) /\ (m > k + 1 <=> m > k)
      BY <2>1
    <3> QED BY <3>1
  <2>2. CASE k + 1 \in good /\ \A n \in good : n > k
    <3>1. \A m \in good \ {k + 1} : ~ (m <= k + 1)
      BY <2>2
    <3> QED BY <2>2, <3>1
  <2>3. CASE k + 1 \in good /\ \E n \in good : n <= k /\ \A m \in good \ {n} : m <= k => <<n, m>> \in R
    <3>1. PICK n \in good : n <= k /\ \A m \in good \ {n} : m <= k => <<n, m>> \in R
      BY <2>3
    <3>2. CASE <<n, k + 1>> \in R
      <4>1. \A m \in good \ {n} : m <= k + 1 => <<n, m>> \in R
        <5> TAKE m \in good \ {n}
        <5>1. m <= k + 1 => m <= k \/ m = k + 1
          OBVIOUS
        <5> QED BY <3>1, <3>2, <5>1
      <4> QED BY <3>1, <4>1
    <3>3. CASE <<k + 1, n>> \in R
      <4>1. \A m \in good \ {k + 1} : m <= k + 1 => <<k + 1, m>> \in R
        <5> TAKE m \in good \ {k + 1}
        <5> HAVE m <= k + 1
        <5>1. m <= k
          OBVIOUS
        <5>2. m = n \/ <<n, m>> \in R
          BY <3>1, <5>1
        <5> QED BY <2>3, <3>1, <3>3, <5>2
      <4> QED BY <2>3, <4>1
    <3>4. n # k + 1
      BY <3>1
    <3> QED BY <2>3, <3>2, <3>3, <3>4
  <2> QED BY <2>1, <2>2, <2>3
<1>3. P(l)
  <2>1. S \in SUBSET Nat
    OBVIOUS
  <2>2. S = Nat
    <3> HIDE DEF S
    <3> QED BY <1>1, <1>2, <2>1, SetInduction
  <2> QED BY <2>2
<1>4. \A n \in good : n <= l
  OBVIOUS
<1>5. ~ \A n \in good : n > l
  <2>1. PICK n \in good : TRUE
    OBVIOUS
  <2>2. n \in Int /\ n <= l /\ ~ (n > l)
    BY <1>4
  <2> QED BY <2>2
<1>6. \E n \in good : n <= l /\ \A m \in good \ {n} : m <= l => <<n, m>> \in R
  BY <1>3, <1>5
<1> QED
  BY <1>4, <1>6

(* Scores are compared as Python compares tuples.                                *)
Scores == Int \X Int \X Int \X Int
LEMMA AboveIff ==
  ASSUME NEW s \in Scores, NEW t \in Scores
  PROVE  Above(s, t) <=>
           \/ s[1] > t[1]
           \/ s[1] = t[1] /\ s[2] > t[2]
           \/ s[1] = t[1] /\ s[2] = t[2] /\ s[3] > t[3]
           \/ s[1] = t[1] /\ s[2] = t[2] /\ s[3] = t[3] /\ s[4] > t[4]
<1>1. DOMAIN s = 1 .. 4
  BY DEF Scores
<1>2. Above(s, t) <=> \E n \in 1 .. 4 : s[n] > t[n] /\ \A m \in 1 .. n - 1 : s[m] = t[m]
  BY <1>1 DEF Above
<1>3. ASSUME NEW n \in 1 .. 4, s[n] > t[n], \A m \in 1 .. n - 1 : s[m] = t[m]
      PROVE  \/ s[1] > t[1]
             \/ s[1] = t[1] /\ s[2] > t[2]
             \/ s[1] = t[1] /\ s[2] = t[2] /\ s[3] > t[3]
             \/ s[1] = t[1] /\ s[2] = t[2] /\ s[3] = t[3] /\ s[4] > t[4]
  <2>1. n = 1 \/ n = 2 \/ n = 3 \/ n = 4
    OBVIOUS
  <2>2. /\ n > 1 => s[1] = t[1]
        /\ n > 2 => s[2] = t[2]
        /\ n > 3 => s[3] = t[3]
    BY <1>3
  <2> QED BY <1>3, <2>1, <2>2
<1>4. ASSUME s[1] > t[1] PROVE \E n \in 1 .. 4 : s[n] > t[n] /\ \A m \in 1 .. n - 1 : s[m] = t[m]
  <2>1. \A m \in 1 .. 1 - 1 : s[m] = t[m]
    OBVIOUS
  <2> QED BY <1>4, <2>1
<1>5. ASSUME s[1] = t[1], s[2] > t[2]
      PROVE  \E n \in 1 .. 4 : s[n] > t[n] /\ \A m \in 1 .. n - 1 : s[m] = t[m]
  <2>1. \A m \in 1 .. 2 - 1 : m = 1
    OBVIOUS
  <2> QED BY <1>5, <2>1
<1>6. ASSUME s[1] = t[1], s[2] = t[2], s[3] > t[3]
      PROVE  \E n \in 1 .. 4 : s[n] > t[n] /\ \A m \in 1 .. n - 1 : s[m] = t[m]
  <2>1. \A m \in 1 .. 3 - 1 : m = 1 \/ m = 2
    OBVIOUS
  <2> QED BY <1>6, <2>1
<1>7. ASSUME s[1] = t[1], s[2] = t[2], s[3] = t[3], s[4] > t[4]
      PROVE  \E n \in 1 .. 4 : s[n] > t[n] /\ \A m \in 1 .. n - 1 : s[m] = t[m]
  <2>1. \A m \in 1 .. 4 - 1 : m = 1 \/ m = 2 \/ m = 3
    OBVIOUS
  <2> QED BY <1>7, <2>1
<1> QED
  BY <1>2, <1>3, <1>4, <1>5, <1>6, <1>7

(* The choice of Spread is of the first of the best.                             *)
LEMMA BestIsChosen ==
  ASSUME NEW good \in SUBSET (1 .. 4), good # {}, NEW score \in [good -> Scores]
  PROVE  \E n \in good :
           \A m \in good \ {n} : ~ Above(score[m], score[n]) /\ (m < n => Above(score[n], score[m]))
<1> DEFINE R == {p \in good \X good :
                   \/ Above(score[p[1]], score[p[2]])
                   \/ ~ Above(score[p[2]], score[p[1]]) /\ p[1] < p[2]}
<1>1. /\ \A s, t \in Scores : ~ (Above(s, t) /\ Above(t, s))
      /\ \A s, t, u \in Scores : Above(s, t) /\ ~ Above(u, t) => Above(s, u)
      /\ \A s, t, u \in Scores : ~ Above(s, t) /\ ~ Above(t, u) => ~ Above(s, u)
  <2> DEFINE Higher(s, t) ==
           \/ s[1] > t[1]
           \/ s[1] = t[1] /\ s[2] > t[2]
           \/ s[1] = t[1] /\ s[2] = t[2] /\ s[3] > t[3]
           \/ s[1] = t[1] /\ s[2] = t[2] /\ s[3] = t[3] /\ s[4] > t[4]
  <2>1. \A s, t \in Scores : Above(s, t) <=> Higher(s, t)
    BY AboveIff
  <2>2. \A s \in Scores : s[1] \in Int /\ s[2] \in Int /\ s[3] \in Int /\ s[4] \in Int
    BY DEF Scores
  <2>3. \A s, t \in Scores : ~ (Higher(s, t) /\ Higher(t, s))
    BY <2>2
  <2>4. ASSUME NEW s \in Scores, NEW t \in Scores, NEW u \in Scores
        PROVE  /\ Higher(s, t) /\ ~ Higher(u, t) => Higher(s, u)
               /\ ~ Higher(s, t) /\ ~ Higher(t, u) => ~ Higher(s, u)
    BY <2>2
  <2> HIDE DEF Higher
  <2> QED BY <2>1, <2>3, <2>4
<1>2. \A m \in good : score[m] \in Scores /\ m \in Int
  OBVIOUS
<1>3. ASSUME NEW m \in good, NEW n \in good, m # n PROVE <<m, n>> \in R \/ <<n, m>> \in R
  BY <1>2, <1>3
<1>4. ASSUME NEW m \in good, NEW n \in good, NEW o \in good, <<m, n>> \in R, <<n, o>> \in R
      PROVE  <<m, o>> \in R
  <2>1. /\ Above(score[m], score[n]) \/ (~ Above(score[n], score[m]) /\ m < n)
        /\ Above(score[n], score[o]) \/ (~ Above(score[o], score[n]) /\ n < o)
    BY <1>4
  <2>2. Above(score[m], score[o]) \/ (~ Above(score[o], score[m]) /\ m < o)
    BY <1>1, <1>2, <2>1
  <2> QED BY <2>2
<1>5. \A m, n \in good : <<n, m>> \in R =>
        ~ Above(score[m], score[n]) /\ (m < n => Above(score[n], score[m]))
  BY <1>1, <1>2
<1> HIDE DEF R
<1>6. \E n \in good : \A m \in good \ {n} : <<n, m>> \in R
  <2> DEFINE l == 4
  <2>1. l \in Nat /\ good \in SUBSET (1 .. l)
    OBVIOUS
  <2> HIDE DEF l
  <2> QED BY <1>3, <1>4, <2>1, FirstOfSome
<1> QED
  BY <1>5, <1>6

-------------------------------------------------------------------------------
(* When a visit of the day must be over.                                         *)
LEMMA DeadlineBound ==
  ASSUME DayGiven, NEW r \in Seq(DayVisit), NEW k \in 1 .. Len(r), cross \in Nat, NEW finish \in Int
  PROVE  /\ Deadline(r, k, finish) \in Int /\ Deadline(r, k, finish) <= bounds.end
         /\ Len(r) > k => /\ r[k + 1].at \in Nat /\ AfterDinner(r, k) \in Int
                          /\ Deadline(r, k, finish) <= r[k + 1].at - cross
         /\ DinnerFits(r, k, finish) => Deadline(r, k, finish) <= AfterDinner(r, k)
<1>1. Len(r) \in Nat /\ k \in Nat /\ bounds.end \in Int
  BY RouteTyped, GivenTyped
<1>2. CASE Len(r) = k
  BY <1>1, <1>2 DEF Deadline, DinnerFits
<1>3. CASE Len(r) > k
  <2>1. k + 1 \in DOMAIN r /\ r[k + 1].at \in Nat
    BY <1>1, <1>3, RouteTyped
  <2> DEFINE x == r[k + 1].at - cross
             y == AfterDinner(r, k)
  <2>2. x \in Int /\ y = x - 90 /\ y \in Int
    BY <2>1 DEF AfterDinner, FullDinner
  <2>3. /\ Deadline(r, k, finish) = IF y >= finish THEN Min({bounds.end, y}) ELSE Min({bounds.end, x})
        /\ DinnerFits(r, k, finish) <=> y >= finish
    BY <1>1, <1>3 DEF Deadline, DinnerFits
  <2> HIDE DEF x, y
  <2>4. /\ Min({bounds.end, y}) \in Int /\ Min({bounds.end, y}) <= y /\ Min({bounds.end, y}) <= bounds.end
        /\ Min({bounds.end, x}) \in Int /\ Min({bounds.end, x}) <= x /\ Min({bounds.end, x}) <= bounds.end
    <3> DEFINE end == bounds.end
    <3>1. end \in Int /\ x \in Int /\ y \in Int
      BY <1>1, <2>2
    <3> HIDE DEF end
    <3>2. /\ Min({end, y}) \in Int /\ Min({end, y}) <= y /\ Min({end, y}) <= end
          /\ Min({end, x}) \in Int /\ Min({end, x}) <= x /\ Min({end, x}) <= end
      BY <3>1, OfTwo
    <3> QED BY <3>2 DEF end
  <2>5. /\ Deadline(r, k, finish) \in Int /\ Deadline(r, k, finish) <= bounds.end
        /\ Deadline(r, k, finish) <= x
        /\ DinnerFits(r, k, finish) => Deadline(r, k, finish) <= y
    BY <2>2, <2>3, <2>4
  <2> QED BY <2>1, <2>2, <2>5 DEF x, y
<1> QED
  BY <1>1, <1>2, <1>3

(* What refinement of a route whose first k visits are of the day may do.        *)
CrossKnown(r, k) == cross \in Nat /\ (Len(r) > k /\ k > 0 => r[k + 1].via = cross)
Continues(s, r, k) ==
  /\ Sound(s) /\ Keeps(s, r, Len(r))
  /\ \A n \in k + 1 .. Len(r) : s[n].at = r[n].at
  /\ k > 0 /\ DinnerFits(r, k, Leave(r[k])) => Leave(s[k]) <= AfterDinner(r, k)

LEMMA ContinuesItself ==
  ASSUME NEW r, Sound(r), NEW k \in 0 .. Len(r)
  PROVE  Continues(r, r, k)
<1>1. /\ r \in Seq(DayVisit) /\ InOrder(r) /\ Len(r) \in Nat /\ DOMAIN r = 1 .. Len(r)
      /\ \A n \in 1 .. Len(r) : /\ r[n].stay \in Nat /\ r[n].at \in Nat
                                /\ Leave(r[n]) = r[n].at + r[n].stay
  BY RouteTyped DEF Sound
<1>2. Keeps(r, r, Len(r))
  <2>1. \A n \in 1 .. Len(r) : r[n].stay >= r[n].stay
    BY <1>1
  <2> QED BY <1>1, <2>1 DEF Keeps
<1>3. k > 0 /\ DinnerFits(r, k, Leave(r[k])) => Leave(r[k]) <= AfterDinner(r, k)
  BY DEF DinnerFits
<1> QED
  BY <1>2, <1>3 DEF Continues

(* A route that keeps the visits of a sound one is sound if they fit.            *)
LEMMA KeepsSound ==
  ASSUME DayGiven, NEW r, Sound(r), NEW s, Keeps(s, r, Len(r)), TimesFit(s)
  PROVE  Sound(s)
<1>1. /\ r \in Seq(DayVisit) /\ Len(r) \in Nat /\ DOMAIN r = 1 .. Len(r)
      /\ \A n \in 1 .. Len(r) : r[n].stay \in Nat /\ r[n].a \in DOMAIN plan
      /\ s \in Seq(DayVisit) /\ Len(s) = Len(r) /\ DOMAIN s = 1 .. Len(r) /\ InOrder(s)
      /\ \A n \in 1 .. Len(r) : s[n].stay \in Nat
      /\ \A n \in 1 .. Len(r) : s[n].a = r[n].a /\ s[n].via = r[n].via /\ s[n].stay >= r[n].stay
  BY RouteTyped DEF Sound, Keeps
<1>2. RidesAlong(s)
  <2> SUFFICES ASSUME NEW n \in 1 .. Len(r) - 1
               PROVE  s[n + 1].via = ride[s[n].a][s[n + 1].a]
    BY <1>1 DEF RidesAlong
  <2>1. n \in 1 .. Len(r) /\ n + 1 \in 1 .. Len(r)
    BY <1>1
  <2>2. r[n + 1].via = ride[r[n].a][r[n + 1].a]
    BY DEF Sound, RidesAlong
  <2> QED BY <1>1, <2>1, <2>2
<1>3. LongEnough(s)
  <2> SUFFICES ASSUME NEW n \in 1 .. Len(r)
               PROVE  plan[s[n].a].required <= s[n].stay
    BY <1>1 DEF LongEnough
  <2>1. plan[r[n].a].required <= r[n].stay
    BY <1>1 DEF Sound, LongEnough
  <2>2. /\ plan[r[n].a].required \in Nat /\ r[n].stay \in Nat /\ s[n].stay \in Nat
        /\ s[n].stay >= r[n].stay /\ s[n].a = r[n].a
    BY <1>1, GivenTyped
  <2> DEFINE need == plan[r[n].a].required
  <2>3. need \in Nat /\ need <= r[n].stay
    BY <2>1, <2>2
  <2>4. plan[s[n].a].required = need
    BY <2>2
  <2> HIDE DEF need
  <2>5. need <= s[n].stay
    BY <2>2, <2>3
  <2> QED BY <2>4, <2>5
<1> QED
  BY <1>1, <1>2, <1>3 DEF Sound

(* Visits of the day that are over by the deadline, then the evening as it was.  *)
LEMMA EveningFollows ==
  ASSUME DayGiven, NEW r, Sound(r), NEW k \in 1 .. Len(r), CrossKnown(r, k), NEW finish \in Int,
         NEW b, Keeps(b, SubSeq(r, 1, k), k), Leave(b[k]) <= Deadline(r, k, finish),
         DinnerFits(r, k, Leave(r[k])) => DinnerFits(r, k, finish),
         TimesFit(b \o SubSeq(r, k + 1, Len(r)))
  PROVE  Continues(b \o SubSeq(r, k + 1, Len(r)), r, k)
<1> DEFINE rest == SubSeq(r, k + 1, Len(r))
           s == b \o rest
           l == Len(r)
<1>1. /\ r \in Seq(DayVisit) /\ l \in Nat /\ DOMAIN r = 1 .. l /\ InOrder(r)
      /\ k \in Nat /\ k > 0 /\ k <= l
      /\ \A n \in 1 .. l : /\ r[n].stay \in Nat /\ r[n].at \in Nat /\ r[n].via \in Nat
                           /\ r[n] \in DayVisit
                           /\ Leave(r[n]) = r[n].at + r[n].stay
  BY RouteTyped DEF Sound
<1>2. /\ SubSeq(r, 1, k) \in Seq(DayVisit) /\ Len(SubSeq(r, 1, k)) = k
      /\ \A n \in 1 .. k : SubSeq(r, 1, k)[n] = r[n]
  BY <1>1, SubSeqProperties
<1>3. /\ rest \in Seq(DayVisit) /\ Len(rest) = l - k
      /\ \A n \in 1 .. l - k : rest[n] = r[k + n]
  <2>1. \A n \in k + 1 .. l : r[n] \in DayVisit
    BY <1>1
  <2>2. /\ rest \in Seq(DayVisit) /\ Len(rest) = IF k + 1 <= l THEN l - (k + 1) + 1 ELSE 0
        /\ \A n \in 1 .. l - (k + 1) + 1 : rest[n] = r[k + 1 + n - 1]
    BY <1>1, <2>1, SubSeqProperties
  <2> HIDE DEF rest, l
  <2> QED BY <1>1, <2>2
<1>4. /\ b \in Seq(DayVisit) /\ Len(b) = k /\ DOMAIN b = 1 .. k /\ InOrder(b)
      /\ \A n \in 1 .. k : /\ b[n].a = r[n].a /\ b[n].via = r[n].via /\ b[n].stay >= r[n].stay
                           /\ b[n].stay \in Nat /\ b[n].at \in Nat
                           /\ Leave(b[n]) = b[n].at + b[n].stay
  BY <1>2, RouteTyped DEF Keeps
<1> HIDE DEF rest
<1>5. /\ s \in Seq(DayVisit) /\ Len(s) = l
      /\ \A n \in 1 .. k : s[n] = b[n]
      /\ \A n \in k + 1 .. l : s[n] = r[n]
  <2>1. /\ s \in Seq(DayVisit) /\ Len(s) = k + (l - k)
        /\ \A n \in 1 .. k + (l - k) : s[n] = IF n <= k THEN b[n] ELSE rest[n - k]
    <3>1. /\ s \in Seq(DayVisit) /\ Len(s) = Len(b) + Len(rest)
          /\ \A n \in 1 .. Len(b) + Len(rest) : s[n] = IF n <= Len(b) THEN b[n] ELSE rest[n - Len(b)]
      <4>1. b \in Seq(DayVisit) /\ rest \in Seq(DayVisit)
        BY <1>3, <1>4
      <4> QED BY <4>1, ConcatProperties
    <3> HIDE DEF s, l
    <3> QED BY <1>3, <1>4, <3>1
  <2> HIDE DEF s, l
  <2>2. Len(s) = l
    BY <1>1, <2>1
  <2>3. ASSUME NEW n \in 1 .. k PROVE s[n] = b[n]
    BY <1>1, <2>1
  <2>4. ASSUME NEW n \in k + 1 .. l PROVE s[n] = r[n]
    <3>1. n - k \in 1 .. l - k /\ k + (n - k) = n /\ n \in 1 .. k + (l - k) /\ ~ (n <= k)
      BY <1>1
    <3>2. s[n] = rest[n - k] /\ rest[n - k] = r[k + (n - k)]
      BY <1>3, <2>1, <3>1
    <3> QED BY <3>1, <3>2
  <2> QED BY <2>1, <2>2, <2>3, <2>4
<1> HIDE DEF s
<1>6. InOrder(s)
  <2> SUFFICES ASSUME NEW n \in 1 .. l - 1
               PROVE  Leave(s[n]) + s[n + 1].via <= s[n + 1].at
    BY <1>5 DEF InOrder
  <2>1. CASE n < k
    <3>1. Leave(b[n]) + b[n + 1].via <= b[n + 1].at
      BY <1>1, <1>4, <2>1 DEF InOrder
    <3>2. s[n] = b[n] /\ s[n + 1] = b[n + 1]
      BY <1>1, <1>5, <2>1
    <3> QED BY <3>1, <3>2
  <2>2. CASE n = k
    <3>1. s[n] = b[k] /\ s[n + 1] = r[k + 1] /\ k + 1 \in 1 .. l /\ Len(r) > k
      <4>1. k \in 1 .. k /\ k + 1 \in k + 1 .. l /\ k + 1 \in 1 .. l /\ l > k
        BY <1>1, <2>2
      <4>2. s[k] = b[k] /\ s[k + 1] = r[k + 1]
        BY <1>5, <4>1
      <4> QED BY <2>2, <4>1, <4>2
    <3>2. Leave(b[k]) <= r[k + 1].at - cross
      <4>1. /\ Deadline(r, k, finish) \in Int
            /\ Deadline(r, k, finish) <= r[k + 1].at - cross
        BY <1>1, <3>1, DeadlineBound DEF CrossKnown
      <4>2. Leave(b[k]) \in Int /\ r[k + 1].at - cross \in Int
        <5>1. k \in 1 .. k
          BY <1>1
        <5>2. Leave(b[k]) = b[k].at + b[k].stay /\ b[k].at \in Nat /\ b[k].stay \in Nat
          BY <1>4, <5>1
        <5>3. r[k + 1].at \in Nat /\ cross \in Nat
          BY <1>1, <3>1 DEF CrossKnown
        <5> DEFINE x == b[k].at
                   y == b[k].stay
                   z == r[k + 1].at
        <5>4. x \in Nat /\ y \in Nat /\ z \in Nat /\ Leave(b[k]) = x + y
          BY <5>2, <5>3
        <5> HIDE DEF x, y, z
        <5>5. x + y \in Int /\ z - cross \in Int
          BY <5>3, <5>4
        <5> QED BY <5>4, <5>5 DEF z
      <4> QED BY <4>1, <4>2
    <3>3. r[k + 1].via = cross /\ cross \in Nat
      BY <1>1, <3>1 DEF CrossKnown
    <3>4. Leave(b[k]) \in Int /\ r[k + 1].at \in Int
      <4>1. k \in 1 .. k
        BY <1>1
      <4>2. Leave(b[k]) = b[k].at + b[k].stay /\ b[k].at \in Nat /\ b[k].stay \in Nat
        BY <1>4, <4>1
      <4> QED BY <1>1, <3>1, <4>2
    <3>5. Leave(b[k]) + r[k + 1].via <= r[k + 1].at
      BY <3>2, <3>3, <3>4
    <3> QED BY <3>1, <3>5
  <2>3. CASE n > k
    <3>1. s[n] = r[n] /\ s[n + 1] = r[n + 1]
      BY <1>1, <1>5, <2>3
    <3>2. Leave(r[n]) + r[n + 1].via <= r[n + 1].at
      BY <1>1 DEF InOrder
    <3> QED BY <3>1, <3>2
  <2> QED BY <1>1, <2>1, <2>2, <2>3
<1>7. Keeps(s, r, Len(r))
  <2> SUFFICES ASSUME NEW n \in 1 .. l
               PROVE  s[n].a = r[n].a /\ s[n].via = r[n].via /\ s[n].stay >= r[n].stay
    BY <1>5, <1>6 DEF Keeps
  <2>1. CASE n <= k
    BY <1>1, <1>4, <1>5, <2>1
  <2>2. CASE n > k
    <3>1. s[n] = r[n] /\ r[n].stay \in Nat
      BY <1>1, <1>5, <2>2
    <3> QED BY <3>1
  <2> QED BY <1>1, <2>1, <2>2
<1>8. Sound(s)
  BY <1>7, KeepsSound DEF s, rest
<1>9. DinnerFits(r, k, Leave(r[k])) => Leave(s[k]) <= AfterDinner(r, k)
  <2> SUFFICES ASSUME DinnerFits(r, k, Leave(r[k])) PROVE Leave(s[k]) <= AfterDinner(r, k)
    OBVIOUS
  <2>1. Deadline(r, k, finish) \in Int /\ Deadline(r, k, finish) <= AfterDinner(r, k)
    BY <1>1, DeadlineBound DEF CrossKnown
  <2>2. AfterDinner(r, k) \in Int
    BY <1>1, DeadlineBound DEF CrossKnown, DinnerFits
  <2>3. Leave(b[k]) \in Int /\ s[k] = b[k]
    BY <1>1, <1>4, <1>5
  <2>4. Leave(b[k]) <= AfterDinner(r, k)
    BY <2>1, <2>2, <2>3
  <2> QED BY <2>3, <2>4
<1>10. \A n \in k + 1 .. Len(r) : s[n].at = r[n].at
  BY <1>5
<1> QED
  BY <1>7, <1>8, <1>9, <1>10 DEF Continues, s, rest

-------------------------------------------------------------------------------
(* _expand_evening_durations: an evening visit stays until closing at the latest, *)
(* or until leaving for the next.                                                *)
LEMMA LongerVisit ==
  ASSUME DayGiven, NEW v \in DayVisit, NEW next \in Int, Fits(v), Leave(v) <= next, next <= bounds.end
  PROVE  LET until == Min({plan[v.a].close, next})
             stay == Max({v.stay, Min({plan[v.a].suggested, until - v.at})})
             w == [v EXCEPT !.stay = stay] IN
         /\ w \in DayVisit /\ w.a = v.a /\ w.at = v.at /\ w.via = v.via /\ w.stay = stay
         /\ stay >= v.stay /\ Leave(w) <= next /\ Fits(w)
<1> DEFINE close == plan[v.a].close
           suggested == plan[v.a].suggested
           until == Min({close, next})
           most == Min({suggested, until - v.at})
           stay == Max({v.stay, most})
           w == [v EXCEPT !.stay = stay]
           was == v.stay
           at == v.at
<1>1. /\ at \in Nat /\ was \in Nat /\ close \in Nat /\ suggested \in Nat /\ bounds.end \in Nat
      /\ v.a \in DOMAIN plan
  BY GivenTyped DEF DayVisit
<1>2. at + was <= close /\ at + was <= next
  BY FitsIff DEF Leave
<1> HIDE DEF close, suggested, at, was
<1>3. until \in Int /\ until <= close /\ until <= next
  <2>1. close \in Int /\ next \in Int
    BY <1>1
  <2> QED BY <2>1, OfTwo
<1> HIDE DEF until
<1>4. most \in Int /\ most <= until - v.at
  <2> DEFINE left == until - v.at
  <2>1. left \in Int
    BY <1>1, <1>3 DEF at
  <2> HIDE DEF left
  <2>2. Min({suggested, left}) \in Int /\ Min({suggested, left}) <= left
    BY <1>1, <2>1, OfTwo
  <2> QED BY <2>2 DEF left
<1> HIDE DEF most
<1>5. Max({was, most}) \in {was, most} /\ Max({was, most}) >= was
  <2>1. was \in Int /\ most \in Int
    BY <1>1, <1>4
  <2> QED BY <2>1, OfTwo
<1>6. stay \in Nat /\ stay >= was /\ at + stay <= close /\ at + stay <= next
  <2>1. stay \in {was, most} /\ stay >= was
    BY <1>5 DEF was
  <2>2. most <= until - at
    BY <1>4 DEF at
  <2> HIDE DEF stay
  <2> QED BY <1>1, <1>2, <1>3, <1>4, <2>1, <2>2
<1> HIDE DEF stay
<1>7. /\ w \in DayVisit /\ w.a = v.a /\ w.at = at /\ w.via = v.via /\ w.stay = stay
      /\ Leave(w) = at + stay
  BY <1>6 DEF DayVisit, Leave, at
<1> HIDE DEF w
<1>8. Fits(w)
  <2>1. /\ bounds.start <= at /\ plan[v.a].open <= at /\ at <= plan[v.a].last
    BY FitsIff DEF at
  <2>2. at + stay <= bounds.end
    BY <1>1, <1>6
  <2>3. w.at + w.stay <= plan[w.a].close /\ w.at + w.stay <= bounds.end
    BY <1>6, <1>7, <2>2 DEF close
  <2>4. bounds.start <= w.at /\ plan[w.a].open <= w.at /\ w.at <= plan[w.a].last
    BY <1>7, <2>1
  <2> QED BY <1>7, <2>3, <2>4, FitsIff
<1>9. /\ w \in DayVisit /\ w.a = v.a /\ w.at = v.at /\ w.via = v.via /\ w.stay = stay
      /\ stay >= v.stay /\ Leave(w) <= next /\ Fits(w)
  BY <1>6, <1>7, <1>8 DEF at, was
<1> QED
  BY <1>9 DEF w, stay, most, until, close, suggested

LEMMA LengthenedKeeps ==
  ASSUME DayGiven, NEW r, Sound(r), NEW k \in 0 .. Len(r)
  PROVE  LET s == Lengthened(r, k) IN
         /\ Sound(s) /\ Keeps(s, r, Len(r))
         /\ \A n \in 1 .. Len(r) : s[n].at = r[n].at
         /\ \A n \in 1 .. k : s[n] = r[n]
<1> DEFINE s == Lengthened(r, k)
           l == Len(r)
           next(n) == IF n = l THEN bounds.end ELSE r[n + 1].at - r[n + 1].via
           stay(n) == Max({r[n].stay, Min({plan[r[n].a].suggested,
                                           Min({plan[r[n].a].close, next(n)}) - r[n].at})})
           longer(n) == [r[n] EXCEPT !.stay = stay(n)]
<1>1. /\ r \in Seq(DayVisit) /\ l \in Nat /\ DOMAIN r = 1 .. l /\ InOrder(r) /\ k \in Nat
      /\ \A n \in 1 .. l : /\ r[n].stay \in Nat /\ r[n].at \in Nat /\ r[n].via \in Nat
                           /\ r[n] \in DayVisit /\ Fits(r[n])
                           /\ Leave(r[n]) = r[n].at + r[n].stay
      /\ bounds.end \in Nat
  BY RouteTyped, GivenTyped DEF Sound, TimesFit
<1>2. ASSUME NEW n \in 1 .. l
      PROVE  next(n) \in Int /\ Leave(r[n]) <= next(n) /\ next(n) <= bounds.end
  <2>1. CASE n = l
    <3>1. r[n].at + r[n].stay <= bounds.end
      BY <1>1, FitsIff
    <3> QED BY <1>1, <2>1, <3>1
  <2>2. CASE n < l
    <3>1. n \in 1 .. l - 1 /\ n + 1 \in 1 .. l /\ n # l
      BY <1>1, <2>2
    <3>2. Leave(r[n]) + r[n + 1].via <= r[n + 1].at
      BY <1>1, <3>1 DEF InOrder
    <3>3. r[n + 1].at + r[n + 1].stay <= bounds.end
      BY <1>1, <3>1, FitsIff
    <3>4. /\ r[n + 1].at \in Nat /\ r[n + 1].via \in Nat /\ r[n + 1].stay \in Nat
          /\ Leave(r[n]) = r[n].at + r[n].stay /\ r[n].at \in Nat /\ r[n].stay \in Nat
      BY <1>1, <3>1
    <3> DEFINE from == Leave(r[n])
               at == r[n + 1].at
               via == r[n + 1].via
               more == r[n + 1].stay
               end == bounds.end
    <3>5. /\ from \in Nat /\ at \in Nat /\ via \in Nat /\ more \in Nat /\ end \in Nat
          /\ from + via <= at /\ at + more <= end
      BY <1>1, <3>2, <3>3, <3>4
    <3>6. next(n) = at - via
      BY <3>1
    <3> HIDE DEF from, at, via, more, end
    <3>7. at - via \in Int /\ from <= at - via /\ at - via <= end
      BY <3>5
    <3> HIDE DEF next
    <3> QED BY <3>6, <3>7 DEF from, end
  <2>3. n = l \/ n < l
    <3>1. l \in Nat
      BY <1>1
    <3> HIDE DEF l
    <3> QED BY <3>1
  <2> HIDE DEF next
  <2> QED BY <2>1, <2>2, <2>3
<1>3. ASSUME NEW n \in 1 .. l
      PROVE  /\ longer(n) \in DayVisit /\ longer(n).a = r[n].a /\ longer(n).at = r[n].at
             /\ longer(n).via = r[n].via /\ longer(n).stay >= r[n].stay
             /\ Leave(longer(n)) <= next(n) /\ Fits(longer(n))
  <2> DEFINE v == r[n]
             x == next(n)
  <2>1. v \in DayVisit /\ x \in Int /\ Fits(v) /\ Leave(v) <= x /\ x <= bounds.end
    BY <1>1, <1>2
  <2> HIDE DEF v, x
  <2>2. LET until == Min({plan[v.a].close, x})
            most == Max({v.stay, Min({plan[v.a].suggested, until - v.at})})
            w == [v EXCEPT !.stay = most] IN
        /\ w \in DayVisit /\ w.a = v.a /\ w.at = v.at /\ w.via = v.via /\ w.stay = most
        /\ most >= v.stay /\ Leave(w) <= x /\ Fits(w)
    BY <2>1, LongerVisit
  <2> QED BY <2>2 DEF v, x
<1>4. s = [n \in 1 .. l |-> IF n <= k THEN r[n] ELSE longer(n)]
  BY <1>1 DEF Lengthened
<1> HIDE DEF s, longer, l
<1>5. /\ s \in Seq(DayVisit) /\ Len(s) = l /\ DOMAIN s = 1 .. l
      /\ \A n \in 1 .. l : s[n] = IF n <= k THEN r[n] ELSE longer(n)
  <2>1. s \in [1 .. l -> DayVisit]
    BY <1>1, <1>3, <1>4
  <2>2. s \in Seq(DayVisit) /\ Len(s) = l /\ DOMAIN s = 1 .. l
    BY <1>1, <2>1, FunctionIsSequence
  <2> QED BY <1>4, <2>2
<1>6. ASSUME NEW n \in 1 .. l
      PROVE  /\ s[n].a = r[n].a /\ s[n].at = r[n].at /\ s[n].via = r[n].via /\ s[n].stay >= r[n].stay
             /\ Leave(s[n]) <= next(n) /\ Fits(s[n])
  <2>1. CASE n <= k
    <3>1. s[n] = r[n] /\ r[n].stay >= r[n].stay
      BY <1>1, <1>5, <2>1
    <3>2. Leave(r[n]) <= next(n) /\ Fits(r[n])
      BY <1>1, <1>2
    <3> HIDE DEF next
    <3> QED BY <3>1, <3>2
  <2>2. CASE n > k
    <3>1. s[n] = longer(n)
      BY <1>1, <1>5, <2>2
    <3> HIDE DEF next
    <3> QED BY <1>3, <3>1
  <2> QED BY <1>1, <2>1, <2>2
<1>7. InOrder(s)
  <2> SUFFICES ASSUME NEW n \in 1 .. l - 1 PROVE Leave(s[n]) + s[n + 1].via <= s[n + 1].at
    BY <1>5 DEF InOrder
  <2>1. n \in 1 .. l /\ n + 1 \in 1 .. l /\ n # l
    BY <1>1
  <2>2. Leave(s[n]) <= r[n + 1].at - r[n + 1].via
    BY <1>6, <2>1
  <2>3. s[n + 1].via = r[n + 1].via /\ s[n + 1].at = r[n + 1].at
    BY <1>6, <2>1
  <2>4. r[n + 1].at \in Nat /\ r[n + 1].via \in Nat
    BY <1>1, <2>1
  <2>5. Leave(s[n]) \in Nat
    <3>1. s[n].at \in Nat /\ s[n].stay \in Nat /\ Leave(s[n]) = s[n].at + s[n].stay
      BY <1>5, <2>1, RouteTyped
    <3> QED BY <3>1
  <2> DEFINE from == Leave(s[n])
             at == r[n + 1].at
             via == r[n + 1].via
  <2>6. from \in Nat /\ at \in Nat /\ via \in Nat /\ from <= at - via
    BY <2>2, <2>4, <2>5
  <2> HIDE DEF from, at, via
  <2>7. from + via <= at
    BY <2>6
  <2> QED BY <2>3, <2>7 DEF from, at, via
<1>8. TimesFit(s)
  BY <1>5, <1>6 DEF TimesFit
<1>9. Keeps(s, r, Len(r))
  BY <1>5, <1>6, <1>7 DEF Keeps, l
<1>10. Sound(s)
  BY <1>8, <1>9, KeepsSound
<1>11. \A n \in 1 .. k : s[n] = r[n]
  <2> TAKE n \in 1 .. k
  <2>1. n \in 1 .. l /\ n <= k
    BY <1>1 DEF l
  <2> QED BY <1>5, <2>1
<1> QED
  BY <1>6, <1>9, <1>10, <1>11 DEF s, l

-------------------------------------------------------------------------------
LEMMA OfFour ==
  ASSUME NEW a \in Int, NEW b \in Int, NEW c \in Int, NEW d \in Int
  PROVE  Min({a, b, c, d}) \in Int /\ Min({a, b, c, d}) <= d
<1>1. \E x \in {a, b, c, d} : \A y \in {a, b, c, d} : x <= y
  OBVIOUS
<1> QED
  BY <1>1 DEF Min

LEMMA FirstReplaced ==
  ASSUME NEW r \in Seq(DayVisit), r # << >>, NEW w \in DayVisit
  PROVE  [r EXCEPT ![1] = w] = <<w>> \o SubSeq(r, 2, Len(r))
<1> DEFINE l == Len(r)
           one == <<w>>
           rest == SubSeq(r, 2, l)
           s == [r EXCEPT ![1] = w]
<1>1. l \in Nat /\ l >= 1 /\ DOMAIN r = 1 .. l /\ \A n \in 1 .. l : r[n] \in DayVisit
  BY RouteTyped, EmptySeq
<1>2. /\ rest \in Seq(DayVisit) /\ Len(rest) = l - 1
      /\ \A n \in 1 .. l - 1 : rest[n] = r[n + 1]
  <2>1. \A n \in 2 .. l : r[n] \in DayVisit
    BY <1>1
  <2>2. /\ rest \in Seq(DayVisit) /\ Len(rest) = IF 2 <= l THEN l - 2 + 1 ELSE 0
        /\ \A n \in 1 .. l - 2 + 1 : rest[n] = r[2 + n - 1]
    BY <1>1, <2>1, SubSeqProperties
  <2> HIDE DEF rest, l
  <2> QED BY <1>1, <2>2
<1>3. one \in Seq(DayVisit) /\ Len(one) = 1 /\ one[1] = w
  OBVIOUS
<1>4. s \in Seq(DayVisit) /\ Len(s) = l /\ \A n \in 1 .. l : s[n] = IF n = 1 THEN w ELSE r[n]
  BY <1>1, ExceptSeq
<1> HIDE DEF one, rest, s
<1> DEFINE t == one \o rest
<1>5. /\ t \in Seq(DayVisit) /\ Len(t) = Len(one) + Len(rest)
      /\ \A n \in 1 .. Len(one) + Len(rest) : t[n] = IF n <= Len(one) THEN one[n] ELSE rest[n - Len(one)]
  <2>1. one \in Seq(DayVisit) /\ rest \in Seq(DayVisit)
    BY <1>2, <1>3
  <2> QED BY <2>1, ConcatProperties
<1> HIDE DEF t, l
<1>6. Len(t) = l
  BY <1>1, <1>2, <1>3, <1>5
<1>7. ASSUME NEW n \in 1 .. l PROVE s[n] = t[n]
  <2>1. t[n] = IF n <= 1 THEN one[n] ELSE rest[n - 1]
    BY <1>1, <1>2, <1>3, <1>5
  <2>2. CASE n = 1
    BY <1>3, <1>4, <2>1, <2>2
  <2>3. CASE n > 1
    <3>1. n - 1 \in 1 .. l - 1 /\ n - 1 + 1 = n /\ ~ (n <= 1) /\ n # 1
      BY <1>1, <2>3
    <3> QED BY <1>2, <1>4, <2>1, <3>1
  <2> QED BY <1>1, <2>2, <2>3
<1>8. s = t
  BY <1>4, <1>5, <1>6, <1>7, SeqEqual
<1> QED
  BY <1>8 DEF s, t, one, rest, l

(* One visit of the day, lengthened and moved: never later than its deadline.    *)
LEMMA OneVisit ==
  ASSUME DayGiven, NEW r, Sound(r), r # << >>, CrossKnown(r, 1),
         NEW at \in Nat, NEW stay \in Nat, stay >= r[1].stay,
         at + stay <= Deadline(r, 1, Leave(r[1])),
         NEW w, w = [[r[1] EXCEPT !.stay = stay] EXCEPT !.at = at],
         TimesFit([r EXCEPT ![1] = w])
  PROVE  Continues([r EXCEPT ![1] = w], r, 1)
<1>1. /\ r \in Seq(DayVisit) /\ Len(r) \in Nat /\ 1 \in 1 .. Len(r) /\ DOMAIN r = 1 .. Len(r)
      /\ r[1] \in DayVisit /\ r[1].via \in Nat /\ r[1].a \in DOMAIN plan
      /\ Leave(r[1]) = r[1].at + r[1].stay /\ r[1].at \in Nat /\ r[1].stay \in Nat
  BY RouteTyped, EmptySeq DEF Sound
<1>2. /\ w \in DayVisit /\ w.a = r[1].a /\ w.via = r[1].via /\ w.stay = stay /\ w.at = at
      /\ Leave(w) = at + stay
  <2> DEFINE v == r[1]
  <2>1. v \in DayVisit /\ w = [[v EXCEPT !.stay = stay] EXCEPT !.at = at]
    BY <1>1
  <2> HIDE DEF v
  <2>2. /\ w \in DayVisit /\ w.a = v.a /\ w.via = v.via /\ w.stay = stay /\ w.at = at
        /\ Leave(w) = at + stay
    BY <2>1 DEF DayVisit, Leave
  <2> QED BY <2>2 DEF v
<1> DEFINE b == <<w>>
<1>3. [r EXCEPT ![1] = w] = b \o SubSeq(r, 1 + 1, Len(r))
  BY <1>1, <1>2, FirstReplaced
<1>4. SubSeq(r, 1, 1)[1] = r[1]
  BY <1>1, SubSeqProperties
<1>5. b \in Seq(DayVisit) /\ Len(b) = 1 /\ b[1] = w
  BY <1>2
<1> HIDE DEF b
<1>6. Keeps(b, SubSeq(r, 1, 1), 1)
  <2>1. \A n \in 1 .. 1 : n = 1
    OBVIOUS
  <2>2. \A n \in 1 .. Len(b) - 1 : FALSE
    BY <1>5
  <2>3. InOrder(b)
    BY <2>2 DEF InOrder
  <2>4. w.stay >= r[1].stay
    BY <1>2
  <2> QED BY <1>2, <1>4, <1>5, <2>1, <2>3, <2>4 DEF Keeps
<1> DEFINE finish == Leave(r[1])
           k == 1
<1>7. /\ k \in 1 .. Len(r) /\ CrossKnown(r, k) /\ finish \in Int
      /\ Keeps(b, SubSeq(r, 1, k), k) /\ Leave(b[k]) <= Deadline(r, k, finish)
      /\ DinnerFits(r, k, Leave(r[k])) => DinnerFits(r, k, finish)
      /\ TimesFit(b \o SubSeq(r, k + 1, Len(r)))
  <2>1. k \in 1 .. Len(r) /\ CrossKnown(r, k) /\ finish \in Int
    BY <1>1
  <2>2. Leave(b[k]) <= Deadline(r, k, finish)
    BY <1>2, <1>5
  <2>3. TimesFit(b \o SubSeq(r, k + 1, Len(r)))
    BY <1>3
  <2> QED BY <1>6, <2>1, <2>2, <2>3
<1> HIDE DEF finish, k
<1>8. Continues(b \o SubSeq(r, k + 1, Len(r)), r, k)
  BY <1>7, EveningFollows
<1> QED
  BY <1>3, <1>8 DEF k

LEMMA AloneContinues ==
  ASSUME DayGiven, NEW r, Sound(r), r # << >>, CrossKnown(r, 1)
  PROVE  Continues(Alone(r), r, 1)
<1> DEFINE v == r[1]
           p == plan[v.a]
           limit == Deadline(r, 1, Leave(v))
           deadline == Min({p.close, limit})
           stay == Min({p.suggested, deadline - v.at})
           longer == [r EXCEPT ![1].stay = stay]
           from == Max({bounds.start, LunchFrom})
           goal == Min({SpreadTarget, deadline})
           at == Max({v.at, from + Lunch, goal - stay})
           latest == Min({p.last, p.close - stay, bounds.end - stay, deadline - stay})
           later == [longer EXCEPT ![1].at = at]
           w1 == [[v EXCEPT !.stay = stay] EXCEPT !.at = v.at]
           w2 == [[v EXCEPT !.stay = stay] EXCEPT !.at = at]
<1>1. /\ r \in Seq(DayVisit) /\ Len(r) \in Nat /\ 1 \in 1 .. Len(r) /\ DOMAIN r = 1 .. Len(r)
      /\ v \in DayVisit /\ v.a \in DOMAIN plan /\ v.at \in Nat /\ v.stay \in Nat
      /\ Leave(v) = v.at + v.stay
  BY RouteTyped, EmptySeq DEF Sound
<1>2. /\ p.close \in Int /\ p.suggested \in Int /\ p.last \in Int
      /\ bounds.start \in Int /\ bounds.end \in Int
  BY <1>1, GivenTyped
<1>3. limit \in Int
  <2>1. Leave(v) \in Int /\ cross \in Nat
    BY <1>1 DEF CrossKnown
  <2> QED BY <1>1, <2>1, DeadlineBound
<1>4. deadline \in Int /\ deadline <= limit
  <2> HIDE DEF limit, p
  <2> QED BY <1>2, <1>3, OfTwo
<1>5. stay \in Int /\ stay <= deadline - v.at
  <2> DEFINE left == deadline - v.at
             suggested == p.suggested
  <2>1. left \in Int /\ suggested \in Int
    BY <1>1, <1>2, <1>4
  <2> HIDE DEF left, suggested
  <2>2. Min({suggested, left}) \in Int /\ Min({suggested, left}) <= left
    BY <2>1, OfTwo
  <2> QED BY <2>2 DEF left, suggested
<1>6. at \in Int /\ at >= v.at
  <2> HIDE DEF stay, deadline
  <2> DEFINE start == bounds.start
             x == v.at
             y == from + Lunch
             z == goal - stay
  <2>1. from \in Int
    <3>1. start \in Int /\ LunchFrom \in Int
      BY <1>2 DEF LunchFrom
    <3> HIDE DEF start
    <3>2. Max({start, LunchFrom}) \in Int
      BY <3>1, OfTwo
    <3> QED BY <3>2 DEF start
  <2>2. goal \in Int
    <3>1. SpreadTarget \in Int
      BY DEF SpreadTarget
    <3> QED BY <1>4, <3>1, OfTwo
  <2> HIDE DEF from, goal
  <2>3. x \in Int /\ y \in Int /\ z \in Int
    BY <1>1, <1>5, <2>1, <2>2 DEF Lunch
  <2> HIDE DEF x, y, z
  <2>4. Max({x, y, z}) \in Int /\ Max({x, y, z}) >= x
    BY <2>3, OfThree
  <2> QED BY <2>4 DEF x, y, z
<1>7. latest \in Int /\ latest <= deadline - stay
  <2> HIDE DEF stay, deadline
  <2> DEFINE a == p.last
             b == p.close - stay
             c == bounds.end - stay
             d == deadline - stay
  <2>1. a \in Int /\ b \in Int /\ c \in Int /\ d \in Int
    BY <1>2, <1>4, <1>5
  <2> HIDE DEF a, b, c, d
  <2>2. Min({a, b, c, d}) \in Int /\ Min({a, b, c, d}) <= d
    BY <2>1, OfFour
  <2> QED BY <2>2 DEF a, b, c, d
<1>8. longer = [r EXCEPT ![1] = w1] /\ later = [r EXCEPT ![1] = w2]
  <2> HIDE DEF stay, at
  <2>1. w1 = [v EXCEPT !.stay = stay]
    <3> HIDE DEF v
    <3> QED BY <1>1 DEF DayVisit
  <2>2. longer = [r EXCEPT ![1] = w1]
    BY <1>1, <2>1
  <2>3. later = [r EXCEPT ![1] = w2]
    BY <1>1
  <2> QED BY <2>2, <2>3
<1>9. \/ Alone(r) = r
      \/ stay >= v.stay /\ TimesFit(longer) /\ Alone(r) = longer
      \/ stay >= v.stay /\ at <= latest /\ TimesFit(later) /\ Alone(r) = later
  <2>1. Alone(r) =
          IF stay < v.stay \/ ~ TimesFit(longer) THEN r
          ELSE IF DinnerFits(r, 1, Leave(v)) /\ from + Lunch <= LunchTo
                  /\ at <= latest /\ TimesFit(later)
          THEN later
          ELSE longer
    BY DEF Alone
  <2> HIDE DEF stay, longer, from, at, latest, later
  <2>2. stay \in Int /\ v.stay \in Int
    BY <1>1, <1>5
  <2>3. stay < v.stay \/ stay >= v.stay
    <3> HIDE DEF v
    <3> QED BY <2>2
  <2> QED BY <2>1, <2>3
<1> HIDE DEF stay, longer, from, at, latest, later, deadline
<1>10. CASE Alone(r) = r
  BY <1>1, <1>10, ContinuesItself
<1>11. CASE stay >= v.stay /\ TimesFit(longer) /\ Alone(r) = longer
  <2> DEFINE x == v.at
  <2>1. x \in Nat /\ stay \in Nat /\ x + stay <= limit /\ stay >= r[1].stay
    <3> HIDE DEF limit
    <3>1. x \in Nat /\ v.stay \in Nat /\ stay \in Int /\ stay <= deadline - x
      BY <1>1, <1>5
    <3> DEFINE was == v.stay
    <3>2. was \in Nat /\ stay >= was
      BY <1>11, <3>1
    <3> HIDE DEF x, v, was
    <3>3. stay \in Nat /\ x + stay <= limit
      BY <1>3, <1>4, <3>1, <3>2
    <3> QED BY <3>1, <3>2, <3>3 DEF was, v
  <2>2. TimesFit([r EXCEPT ![1] = w1])
    BY <1>8, <1>11
  <2> DEFINE w == [[r[1] EXCEPT !.stay = stay] EXCEPT !.at = x]
  <2>3. w = w1
    OBVIOUS
  <2> HIDE DEF x, w1, w
  <2>4. Continues([r EXCEPT ![1] = w], r, 1)
    BY <2>1, <2>2, <2>3, OneVisit DEF w
  <2> QED BY <1>8, <1>11, <2>3, <2>4
<1>12. CASE stay >= v.stay /\ at <= latest /\ TimesFit(later) /\ Alone(r) = later
  <2>1. at \in Nat /\ stay \in Nat /\ at + stay <= limit /\ stay >= r[1].stay
    <3> HIDE DEF limit
    <3> DEFINE was == v.stay
               x == v.at
    <3>1. was \in Nat /\ x \in Nat /\ stay >= was /\ at <= latest /\ at >= x
      BY <1>1, <1>6, <1>12
    <3> HIDE DEF v, was, x
    <3>2. at \in Nat /\ stay \in Nat /\ at + stay <= limit
      BY <1>3, <1>4, <1>5, <1>6, <1>7, <3>1
    <3> QED BY <3>1, <3>2 DEF was, v
  <2>2. TimesFit([r EXCEPT ![1] = w2])
    BY <1>8, <1>12
  <2> DEFINE w == [[r[1] EXCEPT !.stay = stay] EXCEPT !.at = at]
  <2>3. w = w2
    OBVIOUS
  <2> HIDE DEF w2, w
  <2>4. Continues([r EXCEPT ![1] = w], r, 1)
    BY <2>1, <2>2, <2>3, OneVisit DEF w
  <2> QED BY <1>8, <1>12, <2>3, <2>4
<1> QED
  BY <1>9, <1>10, <1>11, <1>12
(* Several visits of the day: the best candidate that fits, or as they were.     *)
LEMMA SpreadContinues ==
  ASSUME DayGiven, NEW r, Sound(r), NEW k \in 1 .. Len(r), CrossKnown(r, k)
  PROVE  Continues(Spread(r, k), r, k)
<1> DEFINE visits == SubSeq(r, 1, k)
           finish == MinimumFinish(visits)
           deadline == Deadline(r, k, finish)
           built == [n \in 1 .. 4 |-> Built(visits, n <= 2, n \in {1, 3}, deadline)]
           whole(n) == built[n] \o SubSeq(r, k + 1, Len(r))
           good == {n \in 1 .. 4 : built[n] # << >> /\ TimesFit(whole(n))}
           score == [n \in good |-> Score(built[n], deadline)]
           First(n) == \A m \in good \ {n} :
                         ~ Above(score[m], score[n]) /\ (m < n => Above(score[n], score[m]))
           best == CHOOSE n \in good : First(n)
<1>1. /\ r \in Seq(DayVisit) /\ Len(r) \in Nat /\ k \in Nat /\ k >= 1 /\ k <= Len(r) /\ InOrder(r)
      /\ \A n \in 1 .. Len(r) : r[n] \in DayVisit
      /\ cross \in Nat
  BY RouteTyped DEF Sound, CrossKnown
<1>2. /\ visits \in Seq(DayVisit) /\ Len(visits) = k
      /\ \A n \in 1 .. k : visits[n] = r[n]
  <2>1. \A n \in 1 .. k : r[n] \in DayVisit
    BY <1>1
  <2>2. /\ visits \in Seq(DayVisit) /\ Len(visits) = IF 1 <= k THEN k - 1 + 1 ELSE 0
        /\ \A n \in 1 .. k - 1 + 1 : visits[n] = r[1 + n - 1]
    BY <1>1, <2>1, SubSeqProperties
  <2> HIDE DEF visits
  <2> QED BY <1>1, <2>2
<1>3. visits # << >> /\ InOrder(visits)
  <2> HIDE DEF visits
  <2>1. visits # << >>
    BY <1>1, <1>2, EmptySeq
  <2>2. \A n \in 1 .. k - 1 : Leave(visits[n]) + visits[n + 1].via <= visits[n + 1].at
    <3> TAKE n \in 1 .. k - 1
    <3>1. visits[n] = r[n] /\ visits[n + 1] = r[n + 1] /\ n \in 1 .. Len(r) - 1
      BY <1>1, <1>2
    <3>2. Leave(r[n]) + r[n + 1].via <= r[n + 1].at
      BY <1>1, <3>1 DEF InOrder
    <3> QED BY <3>1, <3>2
  <2> QED BY <1>2, <2>1, <2>2 DEF InOrder
<1>4. finish \in Int /\ finish <= Leave(r[k])
  <2> HIDE DEF visits
  <2>1. MinimumFinish(visits) \in Int /\ MinimumFinish(visits) <= Leave(LastOf(visits))
    BY <1>2, <1>3, MinimumFinishBound
  <2>2. LastOf(visits) = r[k]
    BY <1>1, <1>2 DEF LastOf
  <2> QED BY <2>1, <2>2
<1> HIDE DEF finish
<1>5. deadline \in Int
  BY <1>1, <1>4, DeadlineBound
<1>6. DinnerFits(r, k, Leave(r[k])) => DinnerFits(r, k, finish)
  <2> SUFFICES ASSUME DinnerFits(r, k, Leave(r[k])) PROVE DinnerFits(r, k, finish)
    OBVIOUS
  <2>1. Len(r) > k /\ AfterDinner(r, k) >= Leave(r[k])
    BY DEF DinnerFits
  <2>2. AfterDinner(r, k) \in Int
    BY <1>1, <1>4, <2>1, DeadlineBound
  <2>3. Leave(r[k]) \in Int
    <3>1. k \in DOMAIN r
      BY <1>1
    <3>2. Leave(r[k]) = r[k].at + r[k].stay /\ r[k].at \in Nat /\ r[k].stay \in Nat
      BY <1>1, <3>1, RouteTyped
    <3> QED BY <3>2
  <2>4. AfterDinner(r, k) >= finish
    BY <1>4, <2>1, <2>2, <2>3
  <2> QED BY <2>1, <2>4 DEF DinnerFits
<1> HIDE DEF visits, deadline
<1>7. ASSUME NEW n \in 1 .. 4, built[n] # << >>
      PROVE  Keeps(built[n], visits, k) /\ Leave(built[n][k]) <= deadline
  <2> DEFINE full == n <= 2
             withLunch == n \in {1, 3}
             b == Built(visits, full, withLunch, deadline)
  <2>1. full \in BOOLEAN /\ withLunch \in BOOLEAN /\ built[n] = b
    OBVIOUS
  <2>2. b # << >>
    BY <1>7, <2>1
  <2> HIDE DEF full, withLunch, built
  <2>3. Keeps(b, visits, Len(visits)) /\ Leave(LastOf(b)) <= deadline
    BY <1>2, <1>3, <1>5, <2>1, <2>2, BuiltKeeps
  <2>4. Len(b) = k
    BY <1>2, <2>3 DEF Keeps
  <2> QED BY <1>2, <2>1, <2>3, <2>4 DEF LastOf
<1>8. score \in [good -> Scores]
  <2> SUFFICES ASSUME NEW n \in good PROVE Score(built[n], deadline) \in Scores
    OBVIOUS
  <2> DEFINE b == built[n]
  <2>1. n \in 1 .. 4 /\ b # << >>
    OBVIOUS
  <2>2. Keeps(b, visits, k)
    <3> HIDE DEF built, good
    <3> QED BY <1>7, <2>1
  <2> HIDE DEF b
  <2>3. b \in Seq(DayVisit) /\ Len(b) = k /\ k \in DOMAIN b
    <3>1. b \in Seq(DayVisit) /\ Len(b) = k
      BY <2>2 DEF Keeps
    <3> QED BY <1>1, <3>1, RouteTyped
  <2>4. Stays(b) \in Int
    BY <2>3, StaysTyped
  <2>5. Leave(LastOf(b)) \in Int
    <3>1. LastOf(b) = b[k]
      BY <2>3 DEF LastOf
    <3>2. Leave(b[k]) = b[k].at + b[k].stay /\ b[k].at \in Nat /\ b[k].stay \in Nat
      BY <2>3, RouteTyped
    <3> QED BY <3>1, <3>2
  <2>6. Min({SpreadTarget, deadline}) \in Int
    <3>1. SpreadTarget \in Int
      BY DEF SpreadTarget
    <3> QED BY <1>5, <3>1, OfTwo
  <2> DEFINE off == Leave(LastOf(b)) - Min({SpreadTarget, deadline})
  <2>7. off \in Int
    BY <2>5, <2>6
  <2>8. Score(b, deadline) = <<IF LunchGap(b) >= Lunch THEN 1 ELSE 0, Stays(b), IF off > 0 THEN -off ELSE off,
                               -Leave(LastOf(b))>>
    BY DEF Score
  <2> HIDE DEF off
  <2>9. Score(b, deadline) \in Scores
    BY <2>4, <2>5, <2>7, <2>8 DEF Scores
  <2> QED BY <2>9 DEF b
<1>9. Spread(r, k) = IF good = {} THEN r ELSE whole(best)
  BY DEF Spread, visits, finish, deadline
<1>10. ASSUME good # {} PROVE best \in good
  <2>1. good \in SUBSET (1 .. 4)
    OBVIOUS
  <2> HIDE DEF good, score
  <2>2. \E n \in good : First(n)
    BY <1>8, <1>10, <2>1, BestIsChosen
  <2> HIDE DEF First
  <2> QED BY <2>2
<1>11. ASSUME NEW n \in good PROVE Continues(whole(n), r, k)
  <2> DEFINE b == built[n]
  <2>1. n \in 1 .. 4 /\ b # << >> /\ TimesFit(b \o SubSeq(r, k + 1, Len(r)))
    OBVIOUS
  <2>2. Keeps(b, visits, k) /\ Leave(b[k]) <= deadline
    <3> HIDE DEF built, good
    <3> QED BY <1>7, <2>1
  <2> HIDE DEF b
  <2>3. Continues(b \o SubSeq(r, k + 1, Len(r)), r, k)
    BY <1>4, <1>6, <2>1, <2>2, EveningFollows DEF visits, deadline
  <2> QED BY <2>3 DEF b
<1> HIDE DEF good, score, whole, best
<1>12. CASE good = {}
  <2>1. k \in 0 .. Len(r)
    BY <1>1
  <2> QED BY <1>9, <1>12, <2>1, ContinuesItself
<1>13. CASE good # {}
  BY <1>9, <1>10, <1>11, <1>13
<1> QED
  BY <1>12, <1>13

-------------------------------------------------------------------------------
(* What a search returns is a sound route.                                       *)
LEMMA RoutesAreSound ==
  ASSUME DayGiven, NEW S \in SUBSET DOMAIN plan, NEW r \in Routes(S)
  PROVE  Sound(r)
<1>1. PICK T, order, at :
        /\ T \in SUBSET S /\ order \in SetToSeqs(T) /\ at \in [DOMAIN order -> Grid]
        /\ Reachable(order) /\ r = Along(order, at) /\ TimesFit(r) /\ Connected(r)
  <2>1. PICK order \in SetToAllKPermutations(S) :
          /\ Reachable(order)
          /\ r \in {q \in {Along(order, at) : at \in [DOMAIN order -> Grid]} :
                      TimesFit(q) /\ Connected(q)}
    BY DEF Routes
  <2>2. \E T \in SUBSET S : order \in SetToSeqs(T)
    BY DEF SetToAllKPermutations
  <2> QED BY <2>1, <2>2
<1> DEFINE c == Cardinality(T)
           via(n) == IF n = 1 THEN 0 ELSE ride[order[n - 1]][order[n]]
           w(n) == Visit(order[n], at[n], plan[order[n]].required, via(n))
<1>2. c \in Nat
  <2>1. IsFiniteSet(DOMAIN plan) /\ T \in SUBSET DOMAIN plan
    BY <1>1 DEF DayGiven
  <2> QED BY <2>1, FS_Subset, FS_CardinalityType
<1>3. /\ order \in [1 .. c -> T] /\ DOMAIN order = 1 .. c /\ Len(order) = c
      /\ \A n \in 1 .. c : order[n] \in DOMAIN plan
  <2>1. order \in [1 .. c -> T]
    BY <1>1 DEF SetToSeqs
  <2>2. T \in SUBSET DOMAIN plan
    BY <1>1
  <2> HIDE DEF c
  <2> QED BY <1>2, <2>1, <2>2, FunctionIsSequence
<1>4. \A n \in 1 .. c - 1 : /\ n \in 1 .. c /\ n + 1 \in 1 .. c /\ n + 1 # 1 /\ n + 1 - 1 = n
                            /\ ride[order[n]][order[n + 1]] \in Nat
  <2> TAKE n \in 1 .. c - 1
  <2>1. n \in 1 .. c /\ n + 1 \in 1 .. c /\ n + 1 # 1 /\ n + 1 - 1 = n
    BY <1>2
  <2>2. ride[order[n]][order[n + 1]] # NoRoute
    BY <1>1, <1>3 DEF Reachable
  <2> QED BY <1>3, <2>1, <2>2, GivenTyped
<1>5. \A n \in 1 .. c : via(n) \in Nat
  <2> TAKE n \in 1 .. c
  <2>1. CASE n # 1
    <3>1. n - 1 \in 1 .. c - 1 /\ n - 1 + 1 = n
      BY <1>2, <2>1
    <3>2. ride[order[n - 1]][order[n - 1 + 1]] \in Nat
      BY <1>4, <3>1
    <3> QED BY <2>1, <3>1, <3>2
  <2> QED BY <2>1
<1>6. r = [n \in 1 .. c |-> w(n)]
  BY <1>1, <1>3 DEF Along
<1>7. \A n \in 1 .. c :
        /\ r[n] \in DayVisit /\ r[n].a = order[n] /\ r[n].via = via(n)
        /\ r[n].stay = plan[order[n]].required
  <2> TAKE n \in 1 .. c
  <2>1. at[n] \in Nat /\ order[n] \in DOMAIN plan /\ plan[order[n]].required \in Nat
    BY <1>1, <1>3, DayConstants, GivenTyped
  <2>2. via(n) \in Nat
    BY <1>5
  <2>3. r[n] = w(n)
    BY <1>6
  <2> HIDE DEF via
  <2> QED BY <2>1, <2>2, <2>3 DEF Visit, DayVisit
<1>8. r \in Seq(DayVisit) /\ Len(r) = c /\ DOMAIN r = 1 .. c
  <2> HIDE DEF c, w
  <2>1. r \in [1 .. c -> DayVisit]
    BY <1>6, <1>7
  <2> QED BY <1>2, <2>1, FunctionIsSequence
<1>9. \A n \in 1 .. c - 1 : r[n + 1].via = ride[r[n].a][r[n + 1].a] /\ r[n + 1].via \in Nat
  <2> TAKE n \in 1 .. c - 1
  <2>1. r[n + 1].via = via(n + 1) /\ r[n].a = order[n] /\ r[n + 1].a = order[n + 1]
    BY <1>4, <1>7
  <2>2. via(n + 1) = ride[order[n]][order[n + 1]]
    BY <1>4
  <2> HIDE DEF via
  <2> QED BY <1>4, <2>1, <2>2
<1>10. RidesAlong(r)
  BY <1>8, <1>9 DEF RidesAlong
<1>11. InOrder(r)
  <2> SUFFICES ASSUME NEW n \in 1 .. c - 1 PROVE Leave(r[n]) + r[n + 1].via <= r[n + 1].at
    BY <1>8 DEF InOrder
  <2>1. r[n + 1].at >= Leave(r[n]) + r[n + 1].via
    BY <1>1, <1>8, <1>9 DEF Connected
  <2> QED
    <3> DEFINE x == r[n + 1].at
               y == r[n].at
               z == r[n].stay
               u == r[n + 1].via
    <3>1. x \in Nat /\ y \in Nat /\ z \in Nat /\ u \in Nat /\ x >= y + z + u /\ Leave(r[n]) = y + z
      BY <1>4, <1>8, <1>9, <2>1, RouteTyped
    <3> HIDE DEF x, y, z, u
    <3>2. y + z + u <= x
      BY <3>1
    <3> QED BY <3>1, <3>2 DEF x, u
<1>12. LongEnough(r)
  <2> SUFFICES ASSUME NEW n \in 1 .. c PROVE plan[r[n].a].required <= r[n].stay
    BY <1>8 DEF LongEnough
  <2>1. plan[order[n]].required \in Nat
    BY <1>3, GivenTyped
  <2> QED BY <1>7, <2>1
<1> QED
  BY <1>1, <1>8, <1>10, <1>11, <1>12 DEF Sound

(* The evening shifted until it can be reached follows the day.                  *)
LEMMA ShiftedVisit ==
  ASSUME NEW v \in DayVisit, NEW by \in Nat
  PROVE  LET w == [v EXCEPT !.at = @ + by] IN
         /\ w \in DayVisit /\ w.a = v.a /\ w.at = v.at + by /\ w.stay = v.stay /\ w.via = v.via
         /\ \A via \in Nat : LET u == [w EXCEPT !.via = via] IN
              u \in DayVisit /\ u.a = v.a /\ u.at = v.at + by /\ u.stay = v.stay /\ u.via = via
<1> DEFINE at == v.at + by
           w == [v EXCEPT !.at = at]
<1>1. at \in Nat
  BY DEF DayVisit
<1> HIDE DEF at
<1>2. w \in DayVisit /\ w.a = v.a /\ w.at = at /\ w.stay = v.stay /\ w.via = v.via
  BY <1>1 DEF DayVisit
<1> HIDE DEF w
<1>3. ASSUME NEW via \in Nat
      PROVE  LET u == [w EXCEPT !.via = via] IN
             u \in DayVisit /\ u.a = w.a /\ u.at = w.at /\ u.stay = w.stay /\ u.via = via
  BY <1>2 DEF DayVisit
<1> QED
  BY <1>2, <1>3 DEF w, at

LEMMA JoinedIsSound ==
  ASSUME DayGiven, Sound(daytime), Sound(evening), daytime # << >>, evening # << >>,
         NEW via, via = ride[LastOf(daytime).a][evening[1].a], via # NoRoute,
         TimesFit(Joined(via))
  PROVE  /\ Sound(Joined(via)) /\ via \in Nat
         /\ Len(daytime) \in Nat /\ Len(daytime) <= Len(Joined(via))
         /\ Joined(via)[Len(daytime) + 1].via = via
<1> DEFINE d == Len(daytime)
           l == Len(evening)
           last == LastOf(daytime)
           late == Leave(last) + via - evening[1].at
           shift == Max({0, late})
           e == [Shifted(evening, shift) EXCEPT ![1].via = via]
           r == daytime \o e
<1>1. /\ daytime \in Seq(DayVisit) /\ d \in Nat /\ d >= 1 /\ DOMAIN daytime = 1 .. d
      /\ \A n \in 1 .. d : /\ daytime[n] \in DayVisit /\ daytime[n].a \in DOMAIN plan
                           /\ daytime[n].at \in Nat /\ daytime[n].stay \in Nat
                           /\ Leave(daytime[n]) = daytime[n].at + daytime[n].stay
  BY RouteTyped, EmptySeq DEF Sound
<1>2. /\ evening \in Seq(DayVisit) /\ l \in Nat /\ l >= 1 /\ DOMAIN evening = 1 .. l
      /\ \A n \in 1 .. l : /\ evening[n] \in DayVisit /\ evening[n].a \in DOMAIN plan
                           /\ evening[n].at \in Nat /\ evening[n].stay \in Nat /\ evening[n].via \in Nat
                           /\ Leave(evening[n]) = evening[n].at + evening[n].stay
  BY RouteTyped, EmptySeq DEF Sound
<1>3. last = daytime[d] /\ via \in Nat
  <2>1. last = daytime[d]
    BY DEF LastOf
  <2>2. last.a \in DOMAIN plan /\ evening[1].a \in DOMAIN plan
    BY <1>1, <1>2, <2>1
  <2> HIDE DEF last
  <2> QED BY <2>1, <2>2, GivenTyped DEF last
<1>4. late \in Int /\ Leave(last) + via - evening[1].at = late /\ Leave(last) \in Nat /\ evening[1].at \in Nat
  <2>1. last.at \in Nat /\ last.stay \in Nat /\ Leave(last) = last.at + last.stay
    BY <1>1, <1>3
  <2>2. evening[1].at \in Nat
    BY <1>2
  <2> DEFINE x == Leave(last)
             y == evening[1].at
             u == via
  <2>3. x \in Nat /\ y \in Nat /\ u \in Nat
    BY <1>3, <2>1, <2>2
  <2>4. late = x + u - y
    OBVIOUS
  <2> HIDE DEF x, y, u, late
  <2>5. late \in Int /\ x + u - y = late
    BY <2>3, <2>4
  <2> QED BY <2>3, <2>5 DEF x, y, u
<1> HIDE DEF late
<1>5. shift \in Nat /\ shift >= late
  <2>1. Max({0, late}) \in {0, late} /\ Max({0, late}) >= 0 /\ Max({0, late}) >= late
    <3>1. 0 \in Int
      OBVIOUS
    <3> QED BY <1>4, <3>1, OfTwo
  <2> QED BY <1>4, <2>1
<1> HIDE DEF shift
<1>6. \A n \in 1 .. l :
        /\ e[n] \in DayVisit /\ e[n].a = evening[n].a /\ e[n].at = evening[n].at + shift
        /\ e[n].stay = evening[n].stay /\ e[n].via = IF n = 1 THEN via ELSE evening[n].via
  <2> TAKE n \in 1 .. l
  <2> DEFINE v == evening[n]
             w == [v EXCEPT !.at = @ + shift]
  <2>1. v \in DayVisit /\ Shifted(evening, shift)[n] = w
    BY <1>2 DEF Shifted
  <2>2. e[n] = IF n = 1 THEN [w EXCEPT !.via = via] ELSE w
    BY <1>2, <2>1 DEF Shifted
  <2> HIDE DEF v, e
  <2>3. /\ w \in DayVisit /\ w.a = v.a /\ w.at = v.at + shift /\ w.stay = v.stay /\ w.via = v.via
        /\ LET u == [w EXCEPT !.via = via] IN
           u \in DayVisit /\ u.a = v.a /\ u.at = v.at + shift /\ u.stay = v.stay /\ u.via = via
    <3>1. /\ w \in DayVisit /\ w.a = v.a /\ w.at = v.at + shift /\ w.stay = v.stay /\ w.via = v.via
          /\ \A x \in Nat : LET u == [w EXCEPT !.via = x] IN
               u \in DayVisit /\ u.a = v.a /\ u.at = v.at + shift /\ u.stay = v.stay /\ u.via = x
      BY <1>5, <2>1, ShiftedVisit
    <3> HIDE DEF w
    <3> QED BY <1>3, <3>1
  <2> HIDE DEF w
  <2> QED BY <2>2, <2>3 DEF v
<1>7. e \in Seq(DayVisit) /\ Len(e) = l
  <2>1. DOMAIN e = 1 .. l /\ e = [n \in 1 .. l |-> e[n]]
    BY <1>2 DEF Shifted
  <2> HIDE DEF e
  <2>2. e \in [1 .. l -> DayVisit]
    BY <1>6, <2>1
  <2> HIDE DEF l
  <2> QED BY <1>2, <2>2, FunctionIsSequence
<1> HIDE DEF e, last
<1>8. /\ r \in Seq(DayVisit) /\ Len(r) = d + l
      /\ \A n \in 1 .. d + l : r[n] = IF n <= d THEN daytime[n] ELSE e[n - d]
  <2>1. /\ r \in Seq(DayVisit) /\ Len(r) = Len(daytime) + Len(e)
        /\ \A n \in 1 .. Len(daytime) + Len(e) :
             r[n] = IF n <= Len(daytime) THEN daytime[n] ELSE e[n - Len(daytime)]
    BY <1>1, <1>7, ConcatProperties
  <2> HIDE DEF r, l
  <2> QED BY <1>7, <2>1
<1>9. Joined(via) = r
  BY DEF Joined, r, e, shift, late, last
<1> HIDE DEF r, d, l
<1>10. \A n \in 1 .. d : r[n] = daytime[n]
  BY <1>1, <1>2, <1>8
<1>11. \A n \in 1 .. l : r[d + n] = e[n] /\ d + n \in 1 .. d + l
  <2> TAKE n \in 1 .. l
  <2> DEFINE m == d + n
  <2>1. m \in 1 .. d + l /\ ~ (m <= d) /\ m - d = n
    BY <1>1, <1>2
  <2> HIDE DEF m
  <2>2. r[m] = e[n]
    BY <1>8, <2>1
  <2> QED BY <2>1, <2>2 DEF m
<1>12. DOMAIN r = 1 .. d + l
  BY <1>1, <1>2, <1>8
<1>13. ASSUME NEW n \in 1 .. d + l - 1
       PROVE  /\ Leave(r[n]) + r[n + 1].via <= r[n + 1].at
              /\ r[n + 1].via = ride[r[n].a][r[n + 1].a]
  <2>1. CASE n < d
    <3>1. n \in 1 .. d - 1 /\ n \in 1 .. d /\ n + 1 \in 1 .. d
      BY <1>1, <2>1
    <3>2. r[n] = daytime[n] /\ r[n + 1] = daytime[n + 1]
      BY <1>10, <3>1
    <3>3. /\ Leave(daytime[n]) + daytime[n + 1].via <= daytime[n + 1].at
          /\ daytime[n + 1].via = ride[daytime[n].a][daytime[n + 1].a]
      BY <3>1 DEF Sound, InOrder, RidesAlong, d
    <3> QED BY <3>2, <3>3
  <2>2. CASE n = d
    <3>1. n \in 1 .. d /\ 1 \in 1 .. l
      BY <1>1, <1>2, <2>2
    <3>2. r[n] = last /\ r[n + 1] = e[1]
      BY <1>3, <1>10, <1>11, <2>2, <3>1
    <3>3. e[1].via = via /\ e[1].at = evening[1].at + shift /\ e[1].a = evening[1].a
      BY <1>6, <3>1
    <3>4. Leave(last) + via <= evening[1].at + shift
      <4> DEFINE x == Leave(last)
                 y == evening[1].at
                 u == via
      <4>1. x + u - y = late /\ x \in Nat /\ y \in Nat /\ late \in Int /\ u \in Nat
        BY <1>3, <1>4
      <4> HIDE DEF x, y, u
      <4>2. x + u <= y + shift
        BY <1>5, <4>1
      <4> QED BY <4>2 DEF x, y, u
    <3> QED BY <3>2, <3>3, <3>4 DEF last
  <2>3. CASE n > d
    <3> DEFINE m == n - d
    <3>1. m \in 1 .. l - 1 /\ m \in 1 .. l /\ m + 1 \in 1 .. l /\ m + 1 # 1 /\ d + m = n /\ d + (m + 1) = n + 1
      BY <1>1, <1>2, <2>3
    <3> HIDE DEF m
    <3>2. r[n] = e[m] /\ r[n + 1] = e[m + 1]
      BY <1>11, <3>1
    <3>3. /\ e[m].at = evening[m].at + shift /\ e[m].stay = evening[m].stay /\ e[m].a = evening[m].a
          /\ e[m + 1].at = evening[m + 1].at + shift /\ e[m + 1].via = evening[m + 1].via
          /\ e[m + 1].a = evening[m + 1].a
      BY <1>6, <3>1
    <3>4. /\ Leave(evening[m]) + evening[m + 1].via <= evening[m + 1].at
          /\ evening[m + 1].via = ride[evening[m].a][evening[m + 1].a]
      BY <3>1 DEF Sound, InOrder, RidesAlong, l
    <3>5. Leave(e[m]) + e[m + 1].via <= e[m + 1].at
      <4> DEFINE x == evening[m].at
                 s == evening[m].stay
                 y == evening[m + 1].at
                 u == evening[m + 1].via
      <4>1. x + s + u <= y /\ x \in Nat /\ s \in Nat /\ y \in Nat /\ u \in Nat
        BY <1>2, <3>1, <3>4
      <4>2. Leave(e[m]) = (x + shift) + s /\ e[m + 1].via = u /\ e[m + 1].at = y + shift
        BY <3>3 DEF Leave
      <4> HIDE DEF x, s, y, u
      <4>3. (x + shift) + s + u <= y + shift
        BY <1>5, <4>1
      <4> QED BY <4>2, <4>3
    <3> QED BY <3>2, <3>3, <3>4, <3>5
  <2> QED BY <1>1, <1>2, <2>1, <2>2, <2>3
<1>14. ASSUME NEW n \in 1 .. d + l PROVE plan[r[n].a].required <= r[n].stay
  <2>1. CASE n <= d
    <3>1. n \in 1 .. d
      BY <2>1
    <3>2. plan[daytime[n].a].required <= daytime[n].stay
      BY <1>1, <3>1 DEF Sound, LongEnough
    <3> QED BY <1>10, <3>1, <3>2
  <2>2. CASE n > d
    <3> DEFINE m == n - d
    <3>1. m \in 1 .. l /\ d + m = n
      BY <1>1, <1>2, <2>2
    <3> HIDE DEF m
    <3>2. plan[evening[m].a].required <= evening[m].stay
      BY <1>2, <3>1 DEF Sound, LongEnough
    <3>3. r[n].a = evening[m].a /\ r[n].stay = evening[m].stay
      BY <1>6, <1>11, <3>1
    <3> QED BY <3>2, <3>3
  <2> QED BY <1>1, <1>2, <2>1, <2>2
<1>15. Sound(r)
  <2>1. InOrder(r) /\ RidesAlong(r)
    <3> SUFFICES ASSUME NEW n \in 1 .. Len(r) - 1
                 PROVE  /\ Leave(r[n]) + r[n + 1].via <= r[n + 1].at
                        /\ r[n + 1].via = ride[r[n].a][r[n + 1].a]
      BY DEF InOrder, RidesAlong
    <3>1. Len(r) = d + l
      BY <1>8
    <3>2. n \in 1 .. d + l - 1
      BY <1>1, <1>2, <3>1
    <3> QED BY <1>13, <3>2
  <2>2. LongEnough(r)
    BY <1>12, <1>14 DEF LongEnough
  <2>3. TimesFit(r)
    BY <1>9
  <2> QED BY <1>8, <2>1, <2>2, <2>3 DEF Sound
<1>16. r[d + 1].via = via
  <2>1. 1 \in 1 .. l
    BY <1>2
  <2> QED BY <1>6, <1>11, <2>1
<1> QED
  BY <1>1, <1>2, <1>3, <1>8, <1>9, <1>15, <1>16 DEF d

(* The empty route is sound.                                                     *)
LEMMA NothingIsSound == Sound(<< >>)
<1>1. << >> \in Seq(DayVisit) /\ Len(<< >>) = 0 /\ DOMAIN << >> = {}
  OBVIOUS
<1>2. 1 .. Len(<< >>) - 1 = {}
  BY <1>1
<1> QED
  BY <1>1, <1>2 DEF Sound, InOrder, RidesAlong, TimesFit, LongEnough

(* What joining the halves leaves is sound, and knows the way to its evening.    *)
LEMMA MergeKeepsSound ==
  ASSUME DayGiven, Sound(daytime), Sound(evening), Merge
  PROVE  /\ Sound(merged') /\ cross' \in Nat
         /\ Len(daytime) \in Nat /\ Len(daytime) <= Len(merged')
         /\ Len(daytime) > 0 /\ Len(merged') > Len(daytime) => merged'[Len(daytime) + 1].via = cross'
<1>1. daytime \in Seq(DayVisit) /\ evening \in Seq(DayVisit) /\ Len(daytime) \in Nat /\ Len(evening) \in Nat
  BY DEF Sound
<1>2. CASE daytime = << >>
  <2>1. daytime \o evening = evening
    BY <1>1, <1>2, ConcatEmptySeq
  <2>2. merged' = evening /\ cross' = 0 /\ Len(daytime) = 0
    BY <1>2, <2>1 DEF Merge
  <2> QED BY <1>1, <2>2
<1>3. CASE daytime # << >> /\ evening = << >>
  <2>1. daytime \o evening = daytime
    BY <1>1, <1>3, ConcatEmptySeq
  <2>2. merged' = daytime /\ cross' = 0
    BY <1>3, <2>1 DEF Merge
  <2> QED BY <1>1, <2>2
<1>4. CASE daytime # << >> /\ evening # << >>
  <2> DEFINE via == ride[LastOf(daytime).a][evening[1].a]
  <2>1. CASE via # NoRoute /\ TimesFit(Joined(via))
    <3>1. merged' = Joined(via) /\ cross' = via
      BY <1>4, <2>1 DEF Merge
    <3> DEFINE way == via
    <3>2. way = ride[LastOf(daytime).a][evening[1].a] /\ way # NoRoute /\ TimesFit(Joined(way))
      BY <2>1
    <3> HIDE DEF way, via
    <3>3. /\ Sound(Joined(way)) /\ way \in Nat
          /\ Len(daytime) <= Len(Joined(way)) /\ Joined(way)[Len(daytime) + 1].via = way
      BY <1>4, <3>2, JoinedIsSound
    <3> QED BY <1>1, <3>1, <3>3 DEF way
  <2>2. CASE ~ (via # NoRoute /\ TimesFit(Joined(via)))
    <3>1. merged' = daytime /\ cross' = 0
      BY <1>4, <2>2 DEF Merge, WithoutEvening
    <3> QED BY <1>1, <3>1
  <2> QED BY <2>1, <2>2
<1> QED
  BY <1>2, <1>3, <1>4

(* Refinement keeps the route sound, every attraction in its place and as long   *)
(* at least, the evening where it was, and a full dinner where there was one.    *)
LEMMA RefineContinues ==
  ASSUME DayGiven, Sound(merged), NEW k \in 0 .. Len(merged), k = Len(daytime),
         CrossKnown(merged, k), Refine
  PROVE  Continues(route', merged, k)
<1> DEFINE r == Lengthened(merged, k)
           s == route'
           l == Len(merged)
<1>1. merged \in Seq(DayVisit) /\ l \in Nat /\ k \in Nat /\ k <= l
  BY RouteTyped DEF Sound
<1>2. /\ Sound(r) /\ Keeps(r, merged, l)
      /\ \A n \in 1 .. l : r[n].at = merged[n].at
      /\ \A n \in 1 .. k : r[n] = merged[n]
  BY LengthenedKeeps
<1>3. s = CASE k = 0 -> r [] k = 1 -> Alone(r) [] OTHER -> Spread(r, k)
  BY DEF Refine
<1> HIDE DEF r, s, l
<1>4. r \in Seq(DayVisit) /\ Len(r) = l
  BY <1>2 DEF Keeps
<1>5. CASE k = 0
  <2>1. s = r
    BY <1>3, <1>5
  <2>2. \A n \in k + 1 .. l : n \in 1 .. l
    BY <1>1
  <2> QED BY <1>2, <1>5, <2>1, <2>2 DEF Continues, s, l
<1>6. CASE k # 0
  <2>1. k \in 1 .. Len(r) /\ k > 0
    BY <1>1, <1>4, <1>6
  <2>2. l > k => k + 1 \in 1 .. l
    BY <1>1
  <2>3. CrossKnown(r, k)
    <3>1. l > k => r[k + 1].via = merged[k + 1].via
      BY <1>2, <2>2 DEF Keeps
    <3> QED BY <1>4, <3>1 DEF CrossKnown, l
  <2>4. Continues(s, r, k)
    <3>1. CASE k = 1
      <4>1. r # << >> /\ CrossKnown(r, 1)
        BY <1>4, <2>1, <2>3, <3>1, EmptySeq
      <4>2. Continues(Alone(r), r, 1)
        BY <1>2, <4>1, AloneContinues
      <4>3. s = Alone(r)
        BY <1>3, <3>1
      <4> QED BY <3>1, <4>2, <4>3
    <3>2. CASE k # 1
      <4>1. s = Spread(r, k)
        BY <1>3, <1>6, <3>2
      <4>2. Continues(Spread(r, k), r, k)
        BY <1>2, <2>1, <2>3, SpreadContinues
      <4> QED BY <4>1, <4>2
    <3> QED BY <3>1, <3>2
  <2>5. /\ Sound(s) /\ Keeps(s, r, l)
        /\ \A n \in k + 1 .. l : s[n].at = r[n].at
        /\ DinnerFits(r, k, Leave(r[k])) => Leave(s[k]) <= AfterDinner(r, k)
    BY <1>4, <2>1, <2>4 DEF Continues
  <2>6. Keeps(s, merged, l)
    <3>1. \A n \in 1 .. l : s[n].stay >= merged[n].stay
      <4> TAKE n \in 1 .. l
      <4> DEFINE x == s[n].stay
                 y == r[n].stay
                 z == merged[n].stay
      <4>1. x >= y /\ y >= z
        BY <1>2, <2>5 DEF Keeps
      <4>2. x \in Nat /\ y \in Nat /\ z \in Nat
        <5>1. s \in Seq(DayVisit) /\ Len(s) = l
          BY <2>5 DEF Keeps
        <5> QED BY <1>1, <1>4, <5>1, RouteTyped DEF l
      <4> HIDE DEF x, y, z
      <4>3. x >= z
        BY <4>1, <4>2
      <4> QED BY <4>3 DEF x, z
    <3>2. \A n \in 1 .. l : s[n].a = merged[n].a /\ s[n].via = merged[n].via
      BY <1>2, <2>5 DEF Keeps
    <3>3. s \in Seq(DayVisit) /\ Len(s) = l /\ InOrder(s)
      BY <2>5 DEF Keeps
    <3> QED BY <3>1, <3>2, <3>3 DEF Keeps
  <2>7. \A n \in k + 1 .. l : s[n].at = merged[n].at
    <3> TAKE n \in k + 1 .. l
    <3>1. n \in 1 .. l
      BY <1>1
    <3> QED BY <1>2, <2>5, <3>1
  <2>8. r[k] = merged[k]
    BY <1>2, <2>1
  <2>9. l > k => AfterDinner(r, k) = AfterDinner(merged, k)
    BY <1>2, <2>2 DEF AfterDinner
  <2>10. DinnerFits(merged, k, Leave(merged[k])) => Leave(s[k]) <= AfterDinner(merged, k)
    BY <1>4, <2>5, <2>8, <2>9 DEF DinnerFits, l
  <2> QED BY <2>5, <2>6, <2>7, <2>10 DEF Continues, s, l
<1> QED
  BY <1>5, <1>6

-------------------------------------------------------------------------------
(* Time that no visit and no way to one takes.                                   *)
Busy(r, n) == r[n].at - (IF n = 1 THEN 0 ELSE r[n].via)
FreeGaps(r) ==
  {g \in [from : Int, to : Int, late : BOOLEAN] :
     \A n \in 1 .. Len(r) : g.to <= Busy(r, n) \/ Leave(r[n]) <= g.from}

LEMMA FreeGap ==
  ASSUME NEW r, NEW from \in Int, NEW to \in Int, NEW late \in BOOLEAN,
         \A n \in 1 .. Len(r) : to <= Busy(r, n) \/ Leave(r[n]) <= from
  PROVE  [from |-> from, to |-> to, late |-> late] \in FreeGaps(r)
BY DEF FreeGaps

(* Visits are left in their order, and each is reached after the ones before.    *)
LEMMA LeftInOrder ==
  ASSUME NEW r \in Seq(DayVisit), InOrder(r), NEW i \in 1 .. Len(r), NEW j \in 1 .. Len(r)
  PROVE  /\ Busy(r, j) \in Int /\ Leave(r[i]) \in Nat /\ r[i].at \in Nat
         /\ r[i].at <= Leave(r[i])
         /\ i < j => Leave(r[i]) <= Busy(r, j)
         /\ i <= j => Leave(r[i]) <= Leave(r[j])
<1>1. /\ Len(r) \in Nat /\ i \in DOMAIN r /\ j \in DOMAIN r
      /\ \A n \in DOMAIN r : /\ r[n].at \in Nat /\ r[n].stay \in Nat /\ r[n].via \in Nat
                             /\ Leave(r[n]) = r[n].at + r[n].stay
  BY RouteTyped
<1>2. i < j => Leave(r[i]) + r[j].via <= r[j].at /\ j # 1
  BY <1>1, InOrderThroughout
<1> DEFINE ai == r[i].at
           si == r[i].stay
           aj == r[j].at
           sj == r[j].stay
           vj == r[j].via
<1>3. ai \in Nat /\ si \in Nat /\ aj \in Nat /\ sj \in Nat /\ vj \in Nat
  BY <1>1
<1>4. Leave(r[i]) = ai + si /\ Leave(r[j]) = aj + sj /\ Busy(r, j) = aj - (IF j = 1 THEN 0 ELSE vj)
  BY <1>1 DEF Busy
<1>5. i < j => (ai + si) + vj <= aj /\ j # 1
  BY <1>2, <1>4
<1>6. i = j => ai + si = aj + sj
  OBVIOUS
<1>7. i <= j => i < j \/ i = j
  BY <1>1
<1>8. i <= j => ai + si <= aj + sj
  <2> HIDE DEF ai, si, aj, sj, vj
  <2> QED BY <1>3, <1>5, <1>6, <1>7
<1>9. i < j => ai + si <= aj - (IF j = 1 THEN 0 ELSE vj)
  <2> HIDE DEF ai, si, aj, sj, vj
  <2> QED BY <1>3, <1>5
<1>10. aj - (IF j = 1 THEN 0 ELSE vj) \in Int /\ ai + si \in Nat /\ ai <= ai + si
  <2> HIDE DEF ai, si, aj, sj, vj
  <2> QED BY <1>3
<1> QED
  BY <1>3, <1>4, <1>8, <1>9, <1>10

(* Every gap that dinner may be put in is free.                                  *)
LEMMA GapsAreFree ==
  ASSUME DayGiven, NEW r, Sound(r), NEW k \in 0 .. Len(r), k = Len(daytime), CrossKnown(r, k)
  PROVE  Gaps(r) \in Seq(FreeGaps(r)) /\ Len(Gaps(r)) \in 1 .. 3
<1> DEFINE l == Len(r)
           gap(from, to, late) == [from |-> from, to |-> to, late |-> late]
           first == gap(bounds.start, r[1].at, TRUE)
           last == gap(Leave(r[l]), bounds.end, FALSE)
           between == gap(Leave(r[k]), r[k + 1].at - cross, TRUE)
           ends == <<last, first>>
           middle == IF k > 0 /\ l > k THEN <<between>> ELSE << >>
<1>1. /\ r \in Seq(DayVisit) /\ InOrder(r) /\ l \in Nat /\ k \in Nat /\ k <= l
      /\ cross \in Nat /\ bounds.start \in Nat /\ bounds.end \in Nat
  BY RouteTyped, GivenTyped DEF Sound, CrossKnown
<1>2. CASE r = << >>
  <2> DEFINE g == gap(bounds.start, bounds.end, FALSE)
  <2>2. g \in FreeGaps(r)
    <3> DEFINE from == bounds.start
               to == bounds.end
    <3>1. \A n \in 1 .. Len(r) : FALSE
      BY <1>2
    <3>2. from \in Int /\ to \in Int
      BY <1>1
    <3> HIDE DEF from, to
    <3>3. gap(from, to, FALSE) \in FreeGaps(r)
      BY <3>1, <3>2, FreeGap
    <3> QED BY <3>3 DEF from, to
  <2>3. Gaps(r) = <<g>>
    <3> HIDE DEF gap
    <3> QED BY <1>2 DEF Gaps, gap
  <2> HIDE DEF g
  <2> QED BY <2>2, <2>3
<1>3. CASE r # << >>
  <2>1. l >= 1 /\ l \in 1 .. l /\ 1 \in 1 .. l
    BY <1>1, <1>3, EmptySeq
  <2>2. \A i, j \in 1 .. l :
          /\ Busy(r, j) \in Int /\ Leave(r[i]) \in Nat /\ r[i].at \in Nat /\ r[i].at <= Leave(r[i])
          /\ i < j => Leave(r[i]) <= Busy(r, j)
          /\ i <= j => Leave(r[i]) <= Leave(r[j])
    BY <1>1, LeftInOrder
  <2>3. \A i, j \in 1 .. l : i < j => r[i].at <= Busy(r, j)
    <3> TAKE i \in 1 .. l, j \in 1 .. l
    <3> HAVE i < j
    <3> DEFINE x == r[i].at
               y == Leave(r[i])
               z == Busy(r, j)
    <3>1. x \in Int /\ y \in Int /\ z \in Int /\ x <= y /\ y <= z
      BY <2>2
    <3> HIDE DEF x, y, z
    <3>2. x <= z
      BY <3>1
    <3> QED BY <3>2 DEF x, z
  <2>4. last \in FreeGaps(r)
    <3> DEFINE from == Leave(r[l])
               to == bounds.end
    <3>1. from \in Int /\ to \in Int
      BY <1>1, <2>1, <2>2
    <3>2. \A n \in 1 .. Len(r) : Leave(r[n]) <= from
      <4> TAKE n \in 1 .. Len(r)
      <4>1. n \in 1 .. l /\ n <= l
        BY <1>1
      <4> QED BY <2>1, <2>2, <4>1
    <3> HIDE DEF from, to
    <3>3. gap(from, to, FALSE) \in FreeGaps(r)
      BY <3>1, <3>2, FreeGap
    <3> QED BY <3>3 DEF from, to
  <2>5. first \in FreeGaps(r)
    <3>1. r[1].at \in Int
      BY <2>1, <2>2
    <3>2. \A n \in 1 .. l : r[1].at <= Busy(r, n)
      <4> TAKE n \in 1 .. l
      <4>1. n = 1 \/ 1 < n
        BY <1>1
      <4>2. Busy(r, 1) = r[1].at
        BY <3>1 DEF Busy
      <4> QED BY <2>1, <2>3, <3>1, <4>1, <4>2
    <3> DEFINE from == bounds.start
               to == r[1].at
    <3>3. from \in Int /\ to \in Int /\ \A n \in 1 .. Len(r) : to <= Busy(r, n)
      BY <1>1, <3>1, <3>2
    <3> HIDE DEF from, to
    <3>4. gap(from, to, TRUE) \in FreeGaps(r)
      BY <3>3, FreeGap
    <3> QED BY <3>4 DEF from, to
  <2>6. ASSUME k > 0, l > k PROVE between \in FreeGaps(r)
    <3>1. k \in 1 .. l /\ k + 1 \in 1 .. l /\ k + 1 # 1
      BY <1>1, <2>6
    <3>2. r[k + 1].via = cross
      BY <2>6 DEF CrossKnown
    <3> DEFINE to == r[k + 1].at - cross
    <3>3. to \in Int /\ to <= r[k + 1].at /\ Busy(r, k + 1) = to
      <4> DEFINE x == r[k + 1].at
      <4>1. x \in Nat
        BY <2>2, <3>1
      <4>2. Busy(r, k + 1) = x - cross
        BY <3>1, <3>2 DEF Busy
      <4> HIDE DEF x
      <4>3. x - cross \in Int /\ x - cross <= x
        BY <1>1, <4>1
      <4> QED BY <4>2, <4>3 DEF x
    <3>4. ASSUME NEW n \in 1 .. l PROVE to <= Busy(r, n) \/ Leave(r[n]) <= Leave(r[k])
      <4>1. CASE n <= k
        BY <2>2, <3>1, <4>1
      <4>2. CASE n = k + 1
        BY <3>3, <4>2
      <4>3. CASE n > k + 1
        <5> DEFINE x == r[k + 1].at
                   y == Busy(r, n)
        <5>1. x <= y /\ x \in Int /\ y \in Int
          BY <2>2, <2>3, <3>1, <4>3
        <5> HIDE DEF y
        <5>2. to \in Int /\ to <= x
          BY <3>3
        <5> HIDE DEF x, to
        <5>3. to <= y
          BY <5>1, <5>2
        <5> QED BY <5>3 DEF y
      <4> QED BY <1>1, <4>1, <4>2, <4>3
    <3>5. Leave(r[k]) \in Int
      BY <2>2, <3>1
    <3> HIDE DEF to
    <3>6. gap(Leave(r[k]), to, TRUE) \in FreeGaps(r)
      BY <3>3, <3>4, <3>5, FreeGap
    <3> QED BY <3>6 DEF to
  <2>7. Gaps(r) = middle \o ends
    <3> DEFINE rest == <<gap(Leave(LastOf(r)), bounds.end, FALSE), gap(bounds.start, r[1].at, TRUE)>>
               some == IF Len(daytime) > 0 /\ Len(r) > Len(daytime)
                       THEN <<gap(Leave(r[Len(daytime)]), r[Len(daytime) + 1].at - cross, TRUE)>> ELSE << >>
    <3>1. Gaps(r) = some \o rest
      BY <1>3 DEF Gaps
    <3>2. rest = ends /\ some = middle
      BY DEF LastOf
    <3> HIDE DEF rest, some, ends, middle
    <3> QED BY <3>1, <3>2
  <2> HIDE DEF first, last, between
  <2>8. ends \in Seq(FreeGaps(r)) /\ Len(ends) = 2
    BY <2>4, <2>5
  <2>9. middle \in Seq(FreeGaps(r)) /\ Len(middle) \in 0 .. 1
    BY <2>6
  <2> HIDE DEF middle, ends
  <2>10. middle \o ends \in Seq(FreeGaps(r)) /\ Len(middle \o ends) = Len(middle) + Len(ends)
    BY <2>8, <2>9, ConcatProperties
  <2> QED BY <2>7, <2>8, <2>9, <2>10
<1> QED
  BY <1>2, <1>3

(* Dinner is put inside one of the gaps.                                         *)
LEMMA DinnerInGap ==
  ASSUME NEW r, NEW S, Gaps(r) \in Seq(S), Len(Gaps(r)) \in 1 .. 3,
         S \in SUBSET [from : Int, to : Int, late : BOOLEAN],
         Dinner(r) # NoDinner
  PROVE  /\ Dinner(r).at \in Int /\ Dinner(r).stay \in Nat
         /\ \E g \in S : g.from <= Dinner(r).at /\ Dinner(r).at + Dinner(r).stay <= g.to
<1> DEFINE gaps == Gaps(r)
           from(m) == Max({gaps[m].from, DinnerFrom})
           to(m) == Min({gaps[m].to, DinnerTo})
           roomy(x) == {m \in DOMAIN gaps : to(m) - from(m) >= x}
           long == IF roomy(FullDinner) # {} THEN FullDinner ELSE ReducedDinner
           n == Min(roomy(long))
           start == IF gaps[n].late THEN to(n) - long ELSE from(n)
           Extremes(m) ==
             /\ gaps[m] \in S /\ gaps[m].from \in Int /\ gaps[m].to \in Int /\ gaps[m].late \in BOOLEAN
             /\ from(m) \in Int /\ to(m) \in Int /\ gaps[m].from <= from(m) /\ to(m) <= gaps[m].to
<1>1. DOMAIN gaps = 1 .. Len(gaps) /\ Len(gaps) \in Nat /\ DOMAIN gaps \in SUBSET (1 .. 3)
  BY EmptySeq
<1>2. ASSUME NEW m \in DOMAIN gaps PROVE Extremes(m)
  <2> DEFINE g == gaps[m]
  <2>1. g \in S
    BY <1>1
  <2> HIDE DEF g
  <2>2. g.from \in Int /\ g.to \in Int /\ g.late \in BOOLEAN
    BY <2>1
  <2>3. Max({g.from, DinnerFrom}) \in Int /\ g.from <= Max({g.from, DinnerFrom})
    <3> DEFINE x == g.from
    <3>1. x \in Int /\ DinnerFrom \in Int
      BY <2>2 DEF DinnerFrom
    <3> HIDE DEF x
    <3>2. /\ Max({x, DinnerFrom}) \in {x, DinnerFrom} /\ Max({x, DinnerFrom}) >= x
      BY <3>1, OfTwo
    <3>3. Max({x, DinnerFrom}) \in Int /\ x <= Max({x, DinnerFrom})
      BY <3>1, <3>2
    <3> QED BY <3>3 DEF x
  <2>4. Min({g.to, DinnerTo}) \in Int /\ Min({g.to, DinnerTo}) <= g.to
    <3> DEFINE x == g.to
    <3>1. x \in Int /\ DinnerTo \in Int
      BY <2>2 DEF DinnerTo
    <3> HIDE DEF x
    <3>2. /\ Min({x, DinnerTo}) \in {x, DinnerTo} /\ Min({x, DinnerTo}) <= x
      BY <3>1, OfTwo
    <3>3. Min({x, DinnerTo}) \in Int
      BY <3>1, <3>2
    <3> QED BY <3>2, <3>3 DEF x
  <2> QED BY <2>1, <2>2, <2>3, <2>4 DEF g
<1>3. long \in Nat
  BY DEF FullDinner, ReducedDinner
<1>4. Dinner(r) = IF roomy(long) = {} THEN NoDinner ELSE [at |-> start, stay |-> long]
  BY DEF Dinner
<1>5. roomy(long) # {} /\ Dinner(r).at = start /\ Dinner(r).stay = long
  <2> HIDE DEF roomy, long, start
  <2> QED BY <1>4
<1>6. n \in roomy(long)
  <2> DEFINE R == roomy(long)
  <2>1. R \in SUBSET (1 .. 3) /\ R # {}
    BY <1>1, <1>5
  <2> HIDE DEF R
  <2>2. \E x \in R : \A y \in R : x <= y
    <3> SUFFICES ASSUME \A x \in R : \E y \in R : ~ (x <= y) PROVE FALSE
      OBVIOUS
    <3>1. \A x \in R : x = 1 \/ x = 2 \/ x = 3
      BY <2>1
    <3>2. 1 \notin R
      BY <3>1
    <3>3. 2 \notin R
      BY <3>1, <3>2
    <3>4. 3 \notin R
      BY <3>1, <3>2, <3>3
    <3> QED BY <2>1, <3>1, <3>2, <3>3, <3>4
  <2>3. Min(R) \in R
    BY <2>2 DEF Min
  <2> QED BY <2>3 DEF R
<1>7. n \in DOMAIN gaps /\ to(n) - from(n) >= long
  <2> HIDE DEF n, long
  <2> QED BY <1>6
<1>8. Extremes(n)
  <2> HIDE DEF Extremes, n
  <2> QED BY <1>2, <1>7
<1> DEFINE low == gaps[n].from
           high == gaps[n].to
           f == from(n)
           t == to(n)
<1>9. /\ low \in Int /\ high \in Int /\ f \in Int /\ t \in Int /\ low <= f /\ t <= high /\ t - f >= long
      /\ gaps[n] \in S
  <2> HIDE DEF n, long, from, to
  <2> QED BY <1>7, <1>8
<1>10. start = t - long \/ start = f
  OBVIOUS
<1> HIDE DEF low, high, f, t, start, long
<1>11. start \in Int /\ low <= start /\ start + long <= high
  BY <1>3, <1>9, <1>10
<1> QED
  <2> DEFINE g == gaps[n]
  <2>1. g \in S /\ g.from = low /\ g.to = high
    BY <1>9 DEF low, high
  <2> HIDE DEF g
  <2> QED BY <1>3, <1>5, <1>11, <2>1

(* Dinner is taken while nobody visits or travels.                               *)
LEMMA DinnerIsFree ==
  ASSUME DayGiven, NEW r, Sound(r), NEW k \in 0 .. Len(r), k = Len(daytime), CrossKnown(r, k),
         Dinner(r) # NoDinner, NEW n \in DOMAIN r
  PROVE  Dinner(r).at + Dinner(r).stay <= Busy(r, n) \/ Leave(r[n]) <= Dinner(r).at
<1> DEFINE at == Dinner(r).at
           stay == Dinner(r).stay
           busy == Busy(r, n)
           leave == Leave(r[n])
<1>1. Gaps(r) \in Seq(FreeGaps(r)) /\ Len(Gaps(r)) \in 1 .. 3
  BY GapsAreFree
<1>2. FreeGaps(r) \in SUBSET [from : Int, to : Int, late : BOOLEAN]
  BY DEF FreeGaps
<1>3. /\ at \in Int /\ stay \in Nat
      /\ \E g \in FreeGaps(r) : g.from <= at /\ at + stay <= g.to
  BY <1>1, <1>2, DinnerInGap
<1>4. n \in 1 .. Len(r)
  BY RouteTyped DEF Sound
<1>5. busy \in Int /\ leave \in Int
  BY <1>4, LeftInOrder DEF Sound
<1> HIDE DEF at, stay
<1>6. PICK g \in FreeGaps(r) : g.from <= at /\ at + stay <= g.to
  BY <1>3
<1> DEFINE from == g.from
           to == g.to
<1>7. from \in Int /\ to \in Int /\ (to <= busy \/ leave <= from)
  BY <1>4, <1>6 DEF FreeGaps
<1>8. from <= at /\ at + stay <= to
  BY <1>6
<1> HIDE DEF from, to, busy, leave
<1>9. at + stay <= busy \/ leave <= at
  BY <1>3, <1>5, <1>7, <1>8
<1> QED
  BY <1>9 DEF at, stay, busy, leave

-------------------------------------------------------------------------------
(* The invariant of a day: what was given, sound routes, the way to the evening  *)
(* once the halves are joined, and a refined route that continues the joined one.*)
DayInv ==
  /\ DayGiven
  /\ Sound(evening) /\ Sound(daytime) /\ Sound(merged)
  /\ dayStage \in {"refine", "done"} =>
       Len(daytime) \in 0 .. Len(merged) /\ CrossKnown(merged, Len(daytime))
  /\ dayStage = "done" => Continues(route, merged, Len(daytime))

LEMMA DayInvInit == DayInit => DayInv
BY NothingIsSound DEF DayInit, DayInv

(* A day's data does not change, and what is sound stays so.                     *)
LEMMA GivenStays ==
  ASSUME Given
  PROVE  /\ DayGiven => DayGiven'
         /\ Sound(evening') => Sound(evening)'
         /\ Sound(daytime') => Sound(daytime)'
         /\ Sound(merged') => Sound(merged)'
<1>1. bounds' = bounds /\ plan' = plan /\ ride' = ride
  BY DEF Given
<1> QED
  BY <1>1 DEF DayGiven, Sound, DayVisit, InOrder, RidesAlong, TimesFit, Fits, LongEnough, Leave

LEMMA DayInvNext == DayInv /\ [DayNext]_dayVars => DayInv'
<1> SUFFICES ASSUME DayInv, [DayNext]_dayVars PROVE DayInv'
  OBVIOUS
<1>1. /\ DayGiven /\ Sound(evening) /\ Sound(daytime) /\ Sound(merged)
      /\ dayStage \in {"refine", "done"} =>
           Len(daytime) \in 0 .. Len(merged) /\ CrossKnown(merged, Len(daytime))
      /\ dayStage = "done" => Continues(route, merged, Len(daytime))
  BY DEF DayInv
<1>2. CASE SearchEvening
  <2>1. InEvening \in SUBSET DOMAIN plan /\ evening' \in Routes(InEvening)
    BY <1>2 DEF SearchEvening, InEvening
  <2>2. Sound(evening')
    BY <1>1, <2>1, RoutesAreSound
  <2>3. Given /\ daytime' = daytime /\ merged' = merged /\ dayStage' = "daytime"
    BY <1>2 DEF SearchEvening
  <2> QED BY <1>1, <2>2, <2>3, GivenStays DEF DayInv
<1>3. CASE SearchDaytime
  <2> DEFINE S == DOMAIN plan \ InEvening
  <2>1. S \in SUBSET DOMAIN plan /\ daytime' \in Routes(S)
    BY <1>3 DEF SearchDaytime
  <2> HIDE DEF S
  <2>2. Sound(daytime')
    BY <1>1, <2>1, RoutesAreSound
  <2>3. Given /\ evening' = evening /\ merged' = merged /\ dayStage' = "merge"
    BY <1>3 DEF SearchDaytime
  <2> QED BY <1>1, <2>2, <2>3, GivenStays DEF DayInv
<1>4. CASE Merge
  <2>1. /\ Sound(merged') /\ cross' \in Nat
        /\ Len(daytime) \in Nat /\ Len(daytime) <= Len(merged')
        /\ Len(daytime) > 0 /\ Len(merged') > Len(daytime) => merged'[Len(daytime) + 1].via = cross'
    BY <1>1, <1>4, MergeKeepsSound
  <2>2. Given /\ evening' = evening /\ daytime' = daytime /\ dayStage' = "refine"
    BY <1>4 DEF Merge
  <2>3. Len(daytime) \in 0 .. Len(merged')
    <3>1. Len(merged') \in Nat
      BY <2>1 DEF Sound
    <3> QED BY <2>1, <3>1
  <2>4. CrossKnown(merged, Len(daytime))'
    BY <2>1, <2>2 DEF CrossKnown
  <2> QED BY <1>1, <2>1, <2>2, <2>3, <2>4, GivenStays DEF DayInv
<1>5. CASE Refine
  <2>1. /\ Given /\ evening' = evening /\ daytime' = daytime /\ merged' = merged /\ cross' = cross
        /\ dayStage = "refine" /\ dayStage' = "done"
    BY <1>5 DEF Refine
  <2>2. Len(daytime) \in 0 .. Len(merged) /\ CrossKnown(merged, Len(daytime))
    BY <1>1, <2>1
  <2>3. Continues(route', merged, Len(daytime))
    BY <1>1, <1>5, <2>2, RefineContinues
  <2>4. CrossKnown(merged, Len(daytime))'
    BY <2>1, <2>2 DEF CrossKnown
  <2>5. Continues(route, merged, Len(daytime))'
    <3>1. bounds' = bounds /\ plan' = plan /\ ride' = ride
      BY <2>1 DEF Given
    <3> QED BY <2>1, <2>3, <3>1 DEF Continues, Keeps, DinnerFits, AfterDinner,
              Sound, DayVisit, InOrder, RidesAlong, TimesFit, Fits, LongEnough, Leave
  <2> QED BY <1>1, <2>1, <2>2, <2>4, <2>5, GivenStays DEF DayInv
<1>6. CASE UNCHANGED dayVars
  <2>1. /\ Given /\ evening' = evening /\ daytime' = daytime /\ merged' = merged /\ cross' = cross
        /\ route' = route /\ dayStage' = dayStage
    BY <1>6 DEF dayVars, Given
  <2>2. CrossKnown(merged, Len(daytime)) => CrossKnown(merged, Len(daytime))'
    BY <2>1 DEF CrossKnown
  <2>3. Continues(route, merged, Len(daytime)) => Continues(route, merged, Len(daytime))'
    <3>1. bounds' = bounds /\ plan' = plan /\ ride' = ride
      BY <2>1 DEF Given
    <3> QED BY <2>1, <3>1 DEF Continues, Keeps, DinnerFits, AfterDinner,
              Sound, DayVisit, InOrder, RidesAlong, TimesFit, Fits, LongEnough, Leave
  <2> QED BY <1>1, <2>1, <2>2, <2>3, GivenStays DEF DayInv
<1> QED
  BY <1>2, <1>3, <1>4, <1>5, <1>6 DEF DayNext

-------------------------------------------------------------------------------
(* Room for a full dinner before an evening reached by 22:00 is left by          *)
(* refinement.                                                                   *)
Room(r, k) == Min({r[k + 1].at - cross, DinnerTo}) - Max({Leave(r[k]), DinnerFrom})
LEMMA RoomIsKept ==
  ASSUME NEW r \in Seq(DayVisit), NEW s, NEW k \in 1 .. Len(r), Len(r) > k, CrossKnown(r, k),
         Continues(s, r, k), r[k + 1].at - cross <= DinnerTo, Room(r, k) >= FullDinner
  PROVE  Room(s, k) >= FullDinner
<1> DEFINE until == r[k + 1].at - cross
           was == Leave(r[k])
           now == Leave(s[k])
<1>1. k \in DOMAIN r /\ k + 1 \in DOMAIN r /\ k > 0 /\ k + 1 \in k + 1 .. Len(r)
  OBVIOUS
<1>2. until \in Int /\ was \in Int /\ until <= DinnerTo
  <2>1. r[k + 1].at \in Nat /\ cross \in Nat
    BY <1>1, RouteTyped DEF CrossKnown
  <2>2. r[k].at \in Nat /\ r[k].stay \in Nat /\ Leave(r[k]) = r[k].at + r[k].stay
    BY <1>1, RouteTyped
  <2> QED BY <2>1, <2>2
<1>3. now \in Int
  <2>1. s \in Seq(DayVisit) /\ Len(s) = Len(r)
    BY DEF Continues, Keeps
  <2>2. k \in DOMAIN s
    BY <1>1, <2>1
  <2>3. s[k].at \in Nat /\ s[k].stay \in Nat /\ Leave(s[k]) = s[k].at + s[k].stay
    BY <2>1, <2>2, RouteTyped
  <2> QED BY <2>3
<1>4. s[k + 1].at = r[k + 1].at
  BY <1>1 DEF Continues
<1>5. FullDinner \in Int /\ DinnerTo \in Int /\ DinnerFrom \in Int
  BY DEF FullDinner, DinnerTo, DinnerFrom
<1>6. AfterDinner(r, k) = until - FullDinner
  BY DEF AfterDinner
<1>7. until - FullDinner >= was => now <= until - FullDinner
  BY <1>1, <1>6 DEF Continues, DinnerFits
<1>8. /\ Room(r, k) = Min({until, DinnerTo}) - Max({was, DinnerFrom})
      /\ Room(s, k) = Min({until, DinnerTo}) - Max({now, DinnerFrom})
  BY <1>4 DEF Room
<1> HIDE DEF until, was, now
<1>9. Min({until, DinnerTo}) \in {until, DinnerTo} /\ Min({until, DinnerTo}) <= until /\ Min({until, DinnerTo}) <= DinnerTo
  BY <1>2, <1>5, OfTwo
<1>10. /\ Max({was, DinnerFrom}) \in {was, DinnerFrom}
       /\ Max({was, DinnerFrom}) >= was /\ Max({was, DinnerFrom}) >= DinnerFrom
  BY <1>2, <1>5, OfTwo
<1>11. Max({now, DinnerFrom}) \in {now, DinnerFrom}
  BY <1>3, <1>5, OfTwo
<1> DEFINE m == Min({until, DinnerTo})
           x == Max({was, DinnerFrom})
           y == Max({now, DinnerFrom})
<1>12. /\ m = until /\ m \in Int /\ x \in Int /\ x >= was /\ x >= DinnerFrom
       /\ (y = now \/ y = DinnerFrom) /\ y \in Int /\ m - x >= FullDinner
  BY <1>2, <1>3, <1>5, <1>8, <1>9, <1>10, <1>11
<1> HIDE DEF m, x, y
<1>13. m - y >= FullDinner
  BY <1>2, <1>3, <1>5, <1>7, <1>12
<1> QED
  BY <1>8, <1>13 DEF m, y

(* The invariant implies both parts of DayIsFeasible.                            *)
LEMMA DayInvFeasible == DayInv => DayIsFeasible
<1> SUFFICES ASSUME DayInv PROVE DayIsFeasible
  OBVIOUS
<1> DEFINE k == Len(daytime)
<1>1. /\ DayGiven /\ Sound(evening) /\ Sound(daytime) /\ Sound(merged)
  BY DEF DayInv
<1>2. Validated(evening) /\ Validated(daytime) /\ Validated(merged)
  BY <1>1, SoundIsValidated
<1>3. ASSUME dayStage = "done"
      PROVE  /\ k \in 0 .. Len(merged) /\ CrossKnown(merged, k) /\ Continues(route, merged, k)
             /\ Sound(route) /\ Keeps(route, merged, Len(merged))
  BY <1>3 DEF DayInv, Continues
<1>4. RouteStaysFeasible
  <2>1. ASSUME dayStage = "done"
        PROVE  /\ Validated(route) /\ Len(route) = Len(merged)
               /\ \A n \in DOMAIN route : route[n].a = merged[n].a /\ route[n].stay >= merged[n].stay
    <3>1. Validated(route)
      BY <1>1, <1>3, <2>1, SoundIsValidated
    <3>2. Len(route) = Len(merged) /\ DOMAIN route = 1 .. Len(merged)
      <4>1. route \in Seq(DayVisit) /\ Len(route) = Len(merged)
        BY <1>3, <2>1 DEF Keeps
      <4> QED BY <4>1, RouteTyped
    <3> QED BY <1>3, <2>1, <3>1, <3>2 DEF Keeps
  <2> QED BY <1>2, <2>1 DEF RouteStaysFeasible
<1>5. DinnerIsKept
  <2> SUFFICES ASSUME dayStage = "done"
               PROVE  /\ k > 0 /\ Len(merged) > k =>
                           /\ merged[k + 1].at - cross <= DinnerTo /\ Room(merged, k) >= FullDinner =>
                                Room(route, k) >= FullDinner
                           /\ \A n \in k + 1 .. Len(merged) : route[n].at = merged[n].at
                      /\ Dinner(route) # NoDinner =>
                           \A n \in DOMAIN route :
                             \/ Dinner(route).at + Dinner(route).stay <= Busy(route, n)
                             \/ Leave(route[n]) <= Dinner(route).at
    BY DEF DinnerIsKept, Room, Busy
  <2>1. /\ k \in 0 .. Len(merged) /\ CrossKnown(merged, k) /\ Continues(route, merged, k)
        /\ Sound(route) /\ Keeps(route, merged, Len(merged))
    BY <1>3
  <2>2. merged \in Seq(DayVisit) /\ Len(merged) \in Nat
    BY <1>1 DEF Sound
  <2> DEFINE d == k
  <2>3. d = Len(daytime) /\ d = k
    OBVIOUS
  <2> HIDE DEF d
  <2>4. ASSUME k > 0, Len(merged) > k, merged[k + 1].at - cross <= DinnerTo, Room(merged, k) >= FullDinner
        PROVE  Room(route, k) >= FullDinner
    <3>1. k \in 1 .. Len(merged)
      BY <2>1, <2>2, <2>4
    <3> HIDE DEF k
    <3> QED BY <2>1, <2>2, <2>4, <3>1, RoomIsKept
  <2>5. \A n \in k + 1 .. Len(merged) : route[n].at = merged[n].at
    BY <2>1 DEF Continues
  <2>6. ASSUME Dinner(route) # NoDinner, NEW n \in DOMAIN route
        PROVE  \/ Dinner(route).at + Dinner(route).stay <= Busy(route, n)
               \/ Leave(route[n]) <= Dinner(route).at
    <3>1. Len(route) = Len(merged)
      BY <2>1 DEF Keeps
    <3>2. CrossKnown(route, d)
      <4>1. Len(merged) > k => k + 1 \in 1 .. Len(merged)
        BY <2>1, <2>2
      <4>2. Len(merged) > k => route[k + 1].via = merged[k + 1].via
        BY <2>1, <4>1 DEF Keeps
      <4> QED BY <2>1, <2>3, <3>1, <4>2 DEF CrossKnown
    <3>3. d \in 0 .. Len(route)
      BY <2>1, <2>3, <3>1
    <3> HIDE DEF k
    <3> QED BY <1>1, <2>1, <2>3, <2>6, <3>2, <3>3, DinnerIsFree
  <2> HIDE DEF k
  <2> QED BY <2>4, <2>5, <2>6
<1> QED
  BY <1>4, <1>5 DEF DayIsFeasible

(* A day's route stays feasible when its halves are joined and refined, loses no *)
(* visit of the joined route and cuts none short, and keeps the time for dinner  *)
(* (routing.py, schedule_refinement.py).                                         *)
THEOREM DayStaysFeasible == DaySpec => []DayIsFeasible
<1>1. DayInit => DayInv
  BY DayInvInit
<1>2. DayInv /\ [DayNext]_dayVars => DayInv'
  BY DayInvNext
<1>3. DayInv => DayIsFeasible
  BY DayInvFeasible
<1> QED
  BY <1>1, <1>2, <1>3, PTL DEF DaySpec
===============================================================================
