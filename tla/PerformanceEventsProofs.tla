------------------------ MODULE PerformanceEventsProofs ------------------------
(***************************************************************************)
(* Proofs of the properties of PerformanceEvents, for any set of reporters, *)
(* events and payloads.                                                     *)
(*                                                                          *)
(* Senders who name one advertiser agree because of the memory's own check  *)
(* (MemoryTold).  The rest needs to know what keeps an event whose          *)
(* submissions did not race: at most one of them is between its two looks   *)
(* and its insert, none once the row is stored (Alone), and whoever stored  *)
(* it or found it carries its analysis (Carries).                           *)
(***************************************************************************)
EXTENDS PerformanceEvents, TLAPS

Calls ==
    {Idle} \cup [step : {"analysed", "missed", "stored"},
                 id : EventIds, payload : Payloads, by : Nat \ {0}]

\* A submission that found event e missing.
Inserting(c, e) == call[c].step \in {"analysed", "missed"} /\ call[c].id = e

Alone(e) ==
    \A c \in Reporters : Inserting(c, e) =>
        row[e] = None /\ \A d \in Reporters : Inserting(d, e) => c = d

Carries(e) ==
    \A c \in Reporters : call[c].step = "stored" /\ call[c].id = e => Analysis(c) = row[e]

Answered(e) ==
    /\ told[e] \subseteq {row[e]}
    /\ \A x \in Advertisers : memory[<<e, x>>] \in {None, row[e]}
    /\ \A p \in denied[e] : row[e].payload \notin {NoPayload, p}

\* What a sender was told is in the memory of the advertiser it named.
MemoryTold == \A e \in EventIds : \A a \in told[e] : memory[MemoryKey(e, a.payload)] = a

Uncontested == \A e \in EventIds \ raced : Alone(e) /\ Carries(e) /\ Answered(e)

Inv == EventsTypeOK /\ MemoryTold /\ Uncontested

-----------------------------------------------------------------------------

\* None is the row of no analysis, by its payload as well as by its number.
LEMMA NoneIsNoAnalysis ==
    /\ None \notin Analysed
    /\ \A a \in Analysed \cup {None} : a = None <=> a.payload = NoPayload
  BY PayloadsAssumption DEF None, Analysed

\* A memory has a key for every event and request.
LEMMA KeyIsAMemory ==
    ASSUME NEW e \in EventIds, NEW p \in Payloads
    PROVE  MemoryKey(e, p) \in EventIds \X Advertisers
  BY AdvertisersAssumption DEF MemoryKey

\* A submission that is not idle has an event and an analysis.
LEMMA CallIsAnalysis ==
    ASSUME EventsTypeOK, NEW c \in Reporters, call[c].step # "idle"
    PROVE  /\ call[c].id \in EventIds /\ call[c].payload \in Payloads
           /\ call[c].step \in {"analysed", "missed", "stored"}
           /\ Analysis(c) \in Analysed
  BY DEF EventsTypeOK, Idle, Analysis, Analysed

\* The invariant holds of a step that changes nothing but the submission c,
\* which becomes idle, or goes on with its analysis.
LEMMA OnlyACall ==
    ASSUME Inv, NEW c \in Reporters, NEW v \in Calls,
           call' = [call EXCEPT ![c] = v],
           UNCHANGED <<row, memory, told, denied, raced>>, analyses' \in Nat,
           \/ v = Idle
           \/ /\ v.step \in {"analysed", "missed"} /\ v.id \notin raced
              /\ row[v.id] = None
              /\ \A d \in Reporters \ {c} : ~Inserting(d, v.id)
           \/ v.step \in {"analysed", "missed"} /\ v.id \in raced
           \/ /\ v.step = "stored"
              /\ v.id \notin raced => [payload |-> v.payload, by |-> v.by] = row[v.id]
    PROVE  Inv'
  <1>1. /\ call' \in [Reporters -> Calls] /\ call'[c] = v
        /\ \A d \in Reporters \ {c} : call'[d] = call[d]
    BY DEF Inv, EventsTypeOK, Calls
  <1>2. EventsTypeOK'
    BY <1>1 DEF Inv, EventsTypeOK, Calls, Analysed
  <1>3. MemoryTold'
    BY DEF Inv, MemoryTold
  <1>4. ASSUME NEW e \in EventIds \ raced PROVE (Alone(e) /\ Carries(e) /\ Answered(e))'
    <2>1. Alone(e) /\ Carries(e) /\ Answered(e)
      BY DEF Inv, Uncontested
    <2>2. Alone(e)'
      BY <1>1, <2>1 DEF Alone, Inserting, Idle
    <2>3. Carries(e)'
      BY <1>1, <2>1 DEF Carries, Analysis, Idle
    <2> QED
      BY <2>1, <2>2, <2>3 DEF Answered
  <1> QED
    BY <1>2, <1>3, <1>4 DEF Inv, Uncontested

\* A refusal ends a submission, or comes before there is one: the invariant
\* needs the row to hold another request, unless submissions of e raced.
LEMMA OnlyARefusal ==
    ASSUME Inv, NEW c \in Reporters, NEW e \in EventIds, NEW p \in Payloads,
           call' \in {call, [call EXCEPT ![c] = Idle]}, Deny(e, p),
           UNCHANGED <<row, memory, analyses, raced>>,
           e \notin raced => row[e].payload \notin {NoPayload, p}
    PROVE  Inv'
  <1>1. /\ call' \in [Reporters -> Calls]
        /\ \A d \in Reporters : call'[d] \in {call[d], Idle}
    BY DEF Inv, EventsTypeOK, Calls
  <1>2. /\ denied' \in [EventIds -> SUBSET Payloads]
        /\ denied'[e] = denied[e] \cup {p}
        /\ \A f \in EventIds \ {e} : denied'[f] = denied[f]
        /\ told' = told
    BY DEF Inv, EventsTypeOK, Deny
  <1>3. EventsTypeOK'
    BY <1>1, <1>2 DEF Inv, EventsTypeOK, Calls, Analysed
  <1>4. MemoryTold'
    BY <1>2 DEF Inv, MemoryTold
  <1>5. ASSUME NEW f \in EventIds \ raced PROVE (Alone(f) /\ Carries(f) /\ Answered(f))'
    <2>1. Alone(f) /\ Carries(f) /\ Answered(f)
      BY DEF Inv, Uncontested
    <2>2. Alone(f)'
      BY <1>1, <2>1 DEF Alone, Inserting, Idle
    <2>3. Carries(f)'
      BY <1>1, <2>1 DEF Carries, Analysis, Idle
    <2>4. Answered(f)'
      BY <1>2, <2>1 DEF Answered
    <2> QED
      BY <2>2, <2>3, <2>4
  <1> QED
    BY <1>3, <1>4, <1>5 DEF Inv, Uncontested

-----------------------------------------------------------------------------

\* The first submission: the event becomes raced when another found it missing.
LEMMA SubmitFirstInv ==
    ASSUME Inv, NEW c \in Reporters, NEW e \in EventIds, NEW p \in Payloads,
           SubmitFirst(c, e, p)
    PROVE  Inv'
  <1> DEFINE v == [step |-> "analysed", id |-> e, payload |-> p, by |-> analyses + 1]
  <1>1. /\ analyses' \in Nat /\ v \in Calls
        /\ call' = [call EXCEPT ![c] = v] /\ call[c] = Idle /\ row[e] = None
        /\ UNCHANGED <<row, memory, told, denied>>
    BY DEF SubmitFirst, Goes, Inv, EventsTypeOK, Calls
  <1>2. CASE raced' = raced
    <2>1. e \notin raced => \A d \in Reporters \ {c} : ~Inserting(d, e)
      BY <1>2 DEF SubmitFirst, Inserting
    <2>2. v.step = "analysed" /\ v.id = e
      OBVIOUS
    <2> QED
      BY <1>1, <1>2, <2>1, <2>2, OnlyACall
  <1>3. CASE raced' = raced \cup {e}
    <2>1. /\ call' \in [Reporters -> Calls] /\ call'[c] = v
          /\ \A d \in Reporters \ {c} : call'[d] = call[d]
      BY <1>1 DEF Inv, EventsTypeOK, Calls
    <2>2. EventsTypeOK'
      BY <1>1, <1>3, <2>1 DEF Inv, EventsTypeOK, Calls, Analysed
    <2>3. MemoryTold'
      BY <1>1 DEF Inv, MemoryTold
    <2>4. ASSUME NEW f \in EventIds \ raced' PROVE (Alone(f) /\ Carries(f) /\ Answered(f))'
      <3>1. f # e /\ Alone(f) /\ Carries(f) /\ Answered(f)
        BY <1>3 DEF Inv, Uncontested
      <3>2. Alone(f)'
        BY <1>1, <2>1, <3>1 DEF Alone, Inserting
      <3>3. Carries(f)'
        BY <1>1, <2>1, <3>1 DEF Carries, Analysis
      <3> QED
        BY <1>1, <3>1, <3>2, <3>3 DEF Answered
    <2> QED
      BY <2>2, <2>3, <2>4 DEF Inv, Uncontested
  <1> QED
    BY <1>2, <1>3 DEF SubmitFirst

LEMMA SubmitAgainInv ==
    ASSUME Inv, NEW c \in Reporters, NEW e \in EventIds, NEW p \in Payloads,
           SubmitAgain(c, e, p)
    PROVE  Inv'
  <1> DEFINE v == [step |-> "stored", id |-> e, payload |-> p, by |-> row[e].by]
  <1>1. row[e] \in Analysed /\ row[e] = [payload |-> p, by |-> row[e].by]
    BY NoneIsNoAnalysis DEF SubmitAgain, Inv, EventsTypeOK, Analysed
  <1>2. v \in Calls
    BY <1>1 DEF Calls, Analysed
  <1> QED
    BY <1>1, <1>2, OnlyACall DEF SubmitAgain, Goes, Inv, EventsTypeOK

LEMMA SubmitOtherInv ==
    ASSUME Inv, NEW c \in Reporters, NEW e \in EventIds, NEW p \in Payloads,
           SubmitOther(c, e, p)
    PROVE  Inv'
  <1>1. row[e].payload \notin {NoPayload, p}
    BY NoneIsNoAnalysis DEF SubmitOther, Inv, EventsTypeOK
  <1> QED
    BY <1>1, OnlyARefusal DEF SubmitOther

\* The second look: without a race it finds what the first one found.
LEMMA LookAgainInv ==
    ASSUME Inv, NEW c \in Reporters, LookAgain(c)
    PROVE  Inv'
  <1> DEFINE e == call[c].id
  <1>1. /\ e \in EventIds /\ call[c].payload \in Payloads /\ call[c] \in Calls
        /\ call[c].step = "analysed"
    BY CallIsAnalysis DEF LookAgain, Inv, EventsTypeOK, Calls
  <1>2. /\ Inserting(c, e)
        /\ e \notin raced => row[e] = None /\ \A d \in Reporters \ {c} : ~Inserting(d, e)
    BY <1>1 DEF Inv, Uncontested, Alone, Inserting
  <1>3. CASE /\ row[e].payload \in {NoPayload, call[c].payload}
             /\ call' = [call EXCEPT ![c].step = IF row[e] = None THEN "missed" ELSE "stored"]
             /\ UNCHANGED <<told, denied>>
    <2> DEFINE v == [call[c] EXCEPT !.step = IF row[e] = None THEN "missed" ELSE "stored"]
    <2>1. v \in Calls /\ v.id = e /\ v.step \in {"missed", "stored"}
          /\ (v.step = "stored" => e \in raced)
      BY <1>1, <1>2 DEF Calls, Idle
    <2>2. call' = [call EXCEPT ![c] = v]
      BY <1>3 DEF Inv, EventsTypeOK
    <2>3. UNCHANGED <<row, memory, told, denied, raced>> /\ analyses' \in Nat
      BY <1>3 DEF LookAgain, Inv, EventsTypeOK
    <2>4. \/ /\ v.step \in {"analysed", "missed"} /\ v.id \notin raced
             /\ row[v.id] = None
             /\ \A d \in Reporters \ {c} : ~Inserting(d, v.id)
          \/ v.step \in {"analysed", "missed"} /\ v.id \in raced
          \/ v.step = "stored" /\ v.id \in raced
      BY <1>2, <2>1
    <2> HIDE DEF v
    <2> QED
      BY <2>1, <2>2, <2>3, <2>4, OnlyACall
  <1>4. CASE /\ row[e].payload \notin {NoPayload, call[c].payload}
             /\ call' = [call EXCEPT ![c] = Idle]
             /\ Deny(e, call[c].payload)
    BY <1>1, <1>4, OnlyARefusal DEF LookAgain
  <1> QED
    BY <1>3, <1>4 DEF LookAgain

\* The upsert stores an event that was not there, unless submissions raced.
LEMMA InsertInv ==
    ASSUME Inv, NEW c \in Reporters, Insert(c)
    PROVE  Inv'
  <1>0. PICK e \in EventIds : e = call[c].id
    BY CallIsAnalysis DEF Insert, Inv
  <1>1. /\ Analysis(c) \in Analysed /\ call[c] \in Calls
        /\ call[c].step = "missed"
    BY CallIsAnalysis DEF Insert, Inv, EventsTypeOK, Calls
  <1>2. /\ row' \in [EventIds -> Analysed \cup {None}]
        /\ row'[e] = Analysis(c) /\ \A f \in EventIds \ {e} : row'[f] = row[f]
    BY <1>0, <1>1 DEF Insert, Inv, EventsTypeOK
  <1>3. /\ call' \in [Reporters -> Calls]
        /\ call'[c].step = "stored" /\ call'[c].id = e /\ Analysis(c)' = Analysis(c)
        /\ \A d \in Reporters \ {c} : call'[d] = call[d]
    BY <1>0, <1>1 DEF Insert, Inv, EventsTypeOK, Calls, Idle, Analysis
  <1>4. EventsTypeOK'
    BY <1>2, <1>3 DEF Insert, Inv, EventsTypeOK, Calls, Analysed
  <1>5. MemoryTold'
    BY DEF Insert, Inv, MemoryTold
  <1>6. ASSUME NEW f \in EventIds \ raced PROVE (Alone(f) /\ Carries(f) /\ Answered(f))'
    <2>1. Alone(f) /\ Carries(f) /\ Answered(f)
      BY DEF Inv, Uncontested
    <2>2. CASE f # e
      <3>1. Alone(f)'
        BY <1>2, <1>3, <2>1, <2>2 DEF Alone, Inserting
      <3>2. Carries(f)'
        <4>1. ASSUME NEW d \in Reporters, call'[d].step = "stored", call'[d].id = f
              PROVE  d # c
          BY <1>3, <2>2, <4>1
        <4> QED
          BY <1>2, <1>3, <2>1, <2>2, <4>1 DEF Carries, Analysis
      <3> QED
        BY <1>2, <2>1, <2>2, <3>1, <3>2 DEF Insert, Answered
    <2>3. CASE f = e
      <3>1. Inserting(c, e) /\ row[e] = None
        BY <1>0, <1>1, <2>1, <2>3 DEF Alone, Inserting
      <3>2. \A d \in Reporters \ {c} : ~Inserting(d, e)
        BY <2>1, <2>3, <3>1 DEF Alone
      <3>3. \A d \in Reporters : ~(call[d].step = "stored" /\ call[d].id = e)
        BY <2>1, <2>3, <3>1, NoneIsNoAnalysis, CallIsAnalysis DEF Carries, Inv
      <3>4. /\ told[e] = {} /\ denied[e] = {}
            /\ \A x \in Advertisers : memory[<<e, x>>] = None
        BY <2>1, <2>3, <3>1, NoneIsNoAnalysis DEF Answered, None, Inv, EventsTypeOK
      <3>5. Alone(e)'
        BY <1>3, <3>2 DEF Alone, Inserting
      <3>6. Carries(e)'
        BY <1>2, <1>3, <3>3 DEF Carries, Analysis
      <3>7. Answered(e)'
        BY <3>4 DEF Insert, Answered, None
      <3> QED
        BY <2>3, <3>5, <3>6, <3>7
    <2> QED
      BY <2>2, <2>3
  <1> QED
    BY <1>4, <1>5, <1>6 DEF Insert, Inv, Uncontested

\* The memory: refused only if submissions raced.
LEMMA EnqueueMemoryInv ==
    ASSUME Inv, NEW c \in Reporters, EnqueueMemory(c)
    PROVE  Inv'
  <1> DEFINE e == call[c].id
             k == MemoryKey(e, call[c].payload)
  <1>1. /\ e \in EventIds /\ call[c].payload \in Payloads /\ Analysis(c) \in Analysed
        /\ call[c].step = "stored" /\ k \in EventIds \X Advertisers
    BY CallIsAnalysis, KeyIsAMemory DEF EnqueueMemory, Inv, EventsTypeOK
  <1>2. k = <<e, k[2]>> /\ k[2] \in Advertisers /\ k = MemoryKey(e, Analysis(c).payload)
    BY <1>1 DEF MemoryKey, Analysis
  <1>3. e \notin raced => Analysis(c) = row[e] /\ memory[k] \in {None, row[e]}
    BY <1>1, <1>2 DEF Inv, Uncontested, Carries, Answered
  <1>4. CASE /\ memory[k] \in {None, Analysis(c)}
             /\ memory' = [memory EXCEPT ![k] = Analysis(c)]
             /\ Tell(c)
    <2>1. /\ memory' \in [EventIds \X Advertisers -> Analysed \cup {None}]
          /\ memory'[k] = Analysis(c)
          /\ \A l \in (EventIds \X Advertisers) \ {k} : memory'[l] = memory[l]
      BY <1>1, <1>4 DEF Inv, EventsTypeOK
    <2>2. /\ told' \in [EventIds -> SUBSET Analysed]
          /\ told'[e] = told[e] \cup {Analysis(c)}
          /\ \A f \in EventIds \ {e} : told'[f] = told[f]
      BY <1>1, <1>4 DEF Inv, EventsTypeOK, Tell
    <2>3. /\ call' \in [Reporters -> Calls]
          /\ \A d \in Reporters : call'[d] \in {call[d], Idle}
      BY <1>4 DEF Inv, EventsTypeOK, Calls, Tell
    <2>4. denied' = denied /\ row' = row /\ raced' = raced /\ analyses' = analyses
      BY <1>4 DEF EnqueueMemory, Tell
    <2>5. EventsTypeOK'
      BY <2>1, <2>2, <2>3, <2>4 DEF Inv, EventsTypeOK, Calls, Analysed
    <2>6. MemoryTold'
      <3> SUFFICES ASSUME NEW f \in EventIds, NEW a \in told'[f]
                   PROVE  memory'[MemoryKey(f, a.payload)] = a
        BY DEF MemoryTold, MemoryKey
      <3>1. CASE f = e /\ a = Analysis(c)
        BY <1>2, <2>1, <3>1
      <3>2. CASE a \in told[f]
        <4>1. /\ memory[MemoryKey(f, a.payload)] = a /\ a \in Analysed
              /\ MemoryKey(f, a.payload) \in EventIds \X Advertisers
          BY <3>2, KeyIsAMemory DEF Inv, MemoryTold, EventsTypeOK, Analysed
        <4>2. MemoryKey(f, a.payload) = k => a = Analysis(c)
          BY <1>4, <4>1, NoneIsNoAnalysis
        <4> QED
          BY <2>1, <4>1, <4>2
      <3> QED
        BY <2>2, <3>1, <3>2
    <2>7. ASSUME NEW f \in EventIds \ raced PROVE (Alone(f) /\ Carries(f) /\ Answered(f))'
      <3>1. Alone(f) /\ Carries(f) /\ Answered(f)
        BY DEF Inv, Uncontested
      <3>2. Alone(f)'
        BY <2>3, <2>4, <3>1 DEF Alone, Inserting, Idle
      <3>3. Carries(f)'
        BY <2>3, <2>4, <3>1 DEF Carries, Analysis, Idle
      <3>4. told'[f] \subseteq {row[f]}
        BY <1>3, <2>2, <3>1 DEF Answered
      <3>5. ASSUME NEW x \in Advertisers PROVE memory'[<<f, x>>] \in {None, row[f]}
        BY <1>2, <1>3, <2>1, <3>1 DEF Answered
      <3>6. Answered(f)'
        BY <2>4, <3>1, <3>4, <3>5 DEF Answered
      <3> QED
        BY <3>2, <3>3, <3>6
    <2> QED
      BY <2>4, <2>5, <2>6, <2>7 DEF Inv, Uncontested
  <1>5. CASE /\ memory[k] \notin {None, Analysis(c)}
             /\ call' = [call EXCEPT ![c] = Idle]
             /\ Deny(e, call[c].payload)
             /\ UNCHANGED memory
    BY <1>1, <1>3, <1>5, OnlyARefusal DEF EnqueueMemory
  <1> QED
    BY <1>4, <1>5 DEF EnqueueMemory

LEMMA CrashInv ==
    ASSUME Inv, NEW c \in Reporters, Crash(c)
    PROVE  Inv'
  BY OnlyACall DEF Crash, Calls, Inv, EventsTypeOK

-----------------------------------------------------------------------------

LEMMA InitInv == EventsInit => Inv
  <1> SUFFICES ASSUME EventsInit PROVE Inv
    OBVIOUS
  <1>1. EventsTypeOK
    BY DEF EventsInit, EventsTypeOK
  <1>2. MemoryTold
    BY DEF EventsInit, MemoryTold
  <1>3. Uncontested
    BY DEF EventsInit, Uncontested, Alone, Carries, Answered, Inserting, Idle
  <1> QED
    BY <1>1, <1>2, <1>3 DEF Inv

LEMMA NextInv == Inv /\ [EventsNext]_eventVars => Inv'
  <1> SUFFICES ASSUME Inv, [EventsNext]_eventVars PROVE Inv'
    OBVIOUS
  <1>1. ASSUME NEW c \in Reporters, NEW e \in EventIds, NEW p \in Payloads,
               SubmitFirst(c, e, p) \/ SubmitAgain(c, e, p) \/ SubmitOther(c, e, p)
        PROVE  Inv'
    BY <1>1, SubmitFirstInv, SubmitAgainInv, SubmitOtherInv
  <1>2. ASSUME NEW c \in Reporters,
               LookAgain(c) \/ Insert(c) \/ EnqueueMemory(c) \/ Crash(c)
        PROVE  Inv'
    BY <1>2, LookAgainInv, InsertInv, EnqueueMemoryInv, CrashInv
  <1>3. CASE UNCHANGED eventVars
    BY <1>3 DEF eventVars, Inv, EventsTypeOK, MemoryTold, Uncontested, Alone, Carries,
                Answered, Inserting, Analysis, Analysed
  <1> QED
    BY <1>1, <1>2, <1>3 DEF EventsNext, Submission

LEMMA InvHolds == EventsSpec => []Inv
  BY InitInv, NextInv, PTL DEF EventsSpec

\* The table, the outbox and the submissions keep their types: nothing is
\* stored or told without a request and its analysis.
THEOREM EventsTypeCorrect == EventsSpec => []EventsTypeOK
  <1>1. Inv => EventsTypeOK
    BY DEF Inv
  <1> QED
    BY <1>1, InvHolds, PTL

\* Senders who name one advertiser are given one analysis, the one its memory
\* is made from; where first submissions did not race, everybody is given the
\* stored one.
THEOREM SendersAgree == EventsSpec => []OneAnswer
  <1>1. Inv => OneAnswer
    BY DEF Inv, MemoryTold, Uncontested, Answered, OneAnswer
  <1> QED
    BY <1>1, InvHolds, PTL

\* An event whose first submissions did not race answers every repetition, and
\* its row and its memories agree.
THEOREM RepetitionIsSafe == EventsSpec => []RepetitionsAreAnswered
  <1>1. Inv => RepetitionsAreAnswered
    BY DEF Inv, Uncontested, Answered, RepetitionsAreAnswered
  <1> QED
    BY <1>1, InvHolds, PTL

-----------------------------------------------------------------------------
(* The refinement.                                                          *)

\* A race is a contest, an insert an arrival, and everything else stutters.
LEMMA StepRefines ==
    ASSUME Inv, [EventsNext]_eventVars
    PROVE  [History!HistoryNext]_(History!historyVars)
  <1> DEFINE requests == [e \in EventIds |-> row[e].payload]
  <1>1. ASSUME NEW c \in Reporters, NEW e \in EventIds, NEW p \in Payloads,
               SubmitFirst(c, e, p)
        PROVE  History!Contest(e) \/ UNCHANGED <<row, raced>>
    BY <1>1 DEF SubmitFirst, History!Contest, None
  <1>2. ASSUME NEW c \in Reporters, NEW e \in EventIds, NEW p \in Payloads,
               Insert(c), e = call[c].id, p = call[c].payload
        PROVE  History!Arrive(e, p)
    <2>1. Inserting(c, e)
      BY <1>2 DEF Insert, Inserting
    <2>2. requests[e] = NoPayload \/ e \in raced
      BY <2>1 DEF Inv, Uncontested, Alone, None
    <2>3. /\ row \in [EventIds -> Analysed \cup {None}]
          /\ row' = [row EXCEPT ![e] = Analysis(c)] /\ raced' = raced
      BY <1>2 DEF Insert, Inv, EventsTypeOK
    <2>4. requests' = [requests EXCEPT ![e] = p]
      BY <1>2, <2>3 DEF Analysis
    <2> QED
      BY <2>2, <2>3, <2>4 DEF History!Arrive
  <1>3. ASSUME NEW c \in Reporters, Insert(c)
        PROVE  call[c].id \in EventIds /\ call[c].payload \in Payloads
    BY <1>3, CallIsAnalysis DEF Insert, Inv
  <1>4. ASSUME UNCHANGED <<row, raced>> PROVE UNCHANGED History!historyVars
    BY <1>4 DEF History!historyVars
  <1>5. \/ \E c \in Reporters, e \in EventIds, p \in Payloads : SubmitFirst(c, e, p)
        \/ \E c \in Reporters : Insert(c)
        \/ UNCHANGED <<row, raced>>
    BY DEF EventsNext, Submission, SubmitAgain, SubmitOther, LookAgain, EnqueueMemory,
           Crash, eventVars
  <1>6. CASE \E c \in Reporters, e \in EventIds, p \in Payloads : SubmitFirst(c, e, p)
    BY <1>1, <1>4, <1>6 DEF History!HistoryNext
  <1>7. CASE \E c \in Reporters : Insert(c)
    <2>1. PICK c \in Reporters : Insert(c)
      BY <1>7
    <2>2. PICK e \in EventIds, p \in Payloads : e = call[c].id /\ p = call[c].payload
      BY <1>3, <2>1
    <2>3. History!Arrive(e, p)
      BY <1>2, <2>1, <2>2
    <2> QED
      BY <2>3 DEF History!HistoryNext
  <1> QED
    BY <1>4, <1>5, <1>6, <1>7

\* The table changes the way EventHistory, on which the feedback loop builds,
\* says it does.
THEOREM EventsImplementHistory == EventsSpec => ImplementsHistory
  <1>1. EventsInit => History!HistoryInit
    BY DEF EventsInit, History!HistoryInit, None
  <1>2. Inv /\ [EventsNext]_eventVars => [History!HistoryNext]_(History!historyVars)
    BY StepRefines
  <1> QED
    BY <1>1, <1>2, InvHolds, PTL DEF EventsSpec, ImplementsHistory, History!HistorySpec

-----------------------------------------------------------------------------
(* What the plan says of every event, where it holds.                       *)

\* The row of an event whose first submissions did not race is never written
\* again: its telemetry, its request and its analysis stay as they were stored.
FinalUnlessRaced ==
    [][\A e \in EventIds \ raced : row[e] # None => row'[e] = row[e]]_eventVars

\* record_analyzed overwrites no event, whatever is submitted under its id, unless its
\* first submissions raced.
THEOREM TelemetryIsKept == EventsSpec => FinalUnlessRaced
  <1>1. ASSUME Inv, EventsNext, NEW e \in EventIds \ raced, row[e] # None
        PROVE  row'[e] = row[e]
    <2>1. CASE row' = row
      BY <2>1
    <2>2. ASSUME NEW c \in Reporters, Insert(c) PROVE row'[e] = row[e]
      <3>1. /\ Inserting(c, call[c].id)
            /\ row' = [row EXCEPT ![call[c].id] = Analysis(c)]
        BY <2>2 DEF Insert, Inserting
      <3>2. call[c].id # e
        BY <1>1, <3>1 DEF Inv, Uncontested, Alone
      <3> QED
        BY <3>1, <3>2 DEF Inv, EventsTypeOK
    <2>3. row' = row \/ \E c \in Reporters : Insert(c)
      BY <1>1 DEF EventsNext, Submission, SubmitFirst, SubmitAgain, SubmitOther, LookAgain,
                  EnqueueMemory, Crash
    <2> QED
      BY <2>1, <2>2, <2>3
  <1>2. Inv /\ [EventsNext]_eventVars =>
           [\A e \in EventIds \ raced : row[e] # None => row'[e] = row[e]]_eventVars
    BY <1>1
  <1> QED
    BY <1>2, InvHolds, PTL DEF EventsSpec, FinalUnlessRaced
=============================================================================
