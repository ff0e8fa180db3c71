---------------------------- MODULE LLMFlowProofs ----------------------------
(***************************************************************************)
(* Invariants of LLMFlow, for any number of candidates and any policies.   *)
(***************************************************************************)
EXTENDS LLMFlow, TLAPS

Trackers == [Candidates -> Entries]

-----------------------------------------------------------------------------
\* What the operators of the tracker return: a tracker, which differs from the
\* one given only as stated.

\* Purging leaves each entry as it is or makes it fresh, and afterwards no
\* suspended entry has reached its deadline.
LEMMA PurgedFacts ==
    ASSUME NEW t \in Trackers
    PROVE  /\ Purged(t) \in Trackers
           /\ \A c \in Candidates : Purged(t)[c] \in {t[c], Fresh}
           /\ \A c \in Candidates : Purged(t)[c].cool # 0
           /\ \A c \in Candidates : t[c].cool # 0 => Purged(t)[c] = t[c]
BY DEF Purged, Trackers, Entries, Fresh, Never

\* A success makes the entry fresh and touches no other.
LEMMA SuccessFacts ==
    ASSUME NEW t \in Trackers, NEW d \in Candidates
    PROVE  /\ RecordSuccess(t, d) \in Trackers
           /\ RecordSuccess(t, d)[d] = Fresh
           /\ \A c \in Candidates \ {d} : RecordSuccess(t, d)[c] = t[c]
BY DEF RecordSuccess, Trackers, Entries, Fresh, Never

\* A transport failure counts, never lifts a suspension, and suspends at the
\* threshold of the policy.
LEMMA TransportFailureFacts ==
    ASSUME NEW t \in Trackers, NEW d \in Candidates, NEW policy \in Policies
    PROVE  LET u == RecordTransportFailure(t, d, policy)
           IN  /\ u \in Trackers
               /\ u[d].transport = t[d].transport + 1
               /\ u[d].parse = t[d].parse
               /\ u[d].cool = IF t[d].transport + 1 >= policy.transport
                              THEN policy.cooldown ELSE t[d].cool
               /\ \A c \in Candidates \ {d} : u[c] = t[c]
BY DEF RecordTransportFailure, Trackers, Entries, Policies, Never

\* The same of a parse failure.
LEMMA ParseFailureFacts ==
    ASSUME NEW t \in Trackers, NEW d \in Candidates, NEW policy \in Policies
    PROVE  LET u == RecordParseFailure(t, d, policy)
           IN  /\ u \in Trackers
               /\ u[d].parse = t[d].parse + 1
               /\ u[d].transport = t[d].transport
               /\ u[d].cool = IF t[d].parse + 1 >= policy.parse
                              THEN policy.cooldown ELSE t[d].cool
               /\ \A c \in Candidates \ {d} : u[c] = t[c]
BY DEF RecordParseFailure, Trackers, Entries, Policies, Never

\* Time changes no counter and neither begins nor ends a suspension.
LEMMA ElapsedFacts ==
    ASSUME NEW t \in Trackers
    PROVE  /\ Elapsed(t) \in Trackers
           /\ \A c \in Candidates :
                 /\ Elapsed(t)[c].transport = t[c].transport
                 /\ Elapsed(t)[c].parse = t[c].parse
                 /\ Suspended(Elapsed(t)[c]) <=> Suspended(t[c])
BY DEF Elapsed, Suspended, Trackers, Entries, Never
-----------------------------------------------------------------------------
\* Every variable keeps its type.

\* The types of the locals of a call, when the step does not read them.
LocalTypes ==
    /\ pc \in {"idle", "attempt", "route", "parse"}
    /\ opts \in Options
    /\ hint \in Hints
    /\ attempts \in Nat
    /\ second \in BOOLEAN
    /\ order \in [Candidates -> Candidates]
    /\ pos \in Candidates
    /\ route \in Nat \ {0}
    /\ answer \in Hints
    /\ lastParse \in Hints
    /\ result \in Results

LocalShape ==
    /\ pc \in {"route", "parse"} => attempts > 0
    /\ pc = "parse" => answer # None
    /\ pc = "attempt" /\ attempts = 0 => lastParse # None

SharedTypes ==
    /\ tracker \in Trackers
    /\ config \in ConfigStates
    /\ cache \in [Hints -> Hints]

LEMMA TypeParts == TypeOK <=> SharedTypes /\ LocalTypes /\ LocalShape
BY DEF TypeOK, SharedTypes, LocalTypes, LocalShape, Trackers

LEMMA TypeInit == Init => TypeOK
<1> SUFFICES ASSUME Init PROVE SharedTypes /\ LocalTypes /\ LocalShape
  BY TypeParts
<1>1. SharedTypes
  <2>1. tracker \in Trackers
    BY DEF Init, Trackers, Entries, Fresh, Never
  <2>2. cache \in [Hints -> Hints]
    BY DEF Init, EmptyCache, Hints
  <2> QED
    BY <2>1, <2>2 DEF Init, SharedTypes
<1>2. LocalTypes /\ LocalShape
  <2>1. order \in [Candidates -> Candidates] /\ pos \in Candidates
    BY NAssumption DEF Init, Candidates
  <2>2. /\ pc = "idle" /\ opts \in Options /\ second \in BOOLEAN /\ result = "nothing"
        /\ hint = None /\ attempts = 0 /\ route = 1 /\ answer = None /\ lastParse = None
    BY DEF Init
  <2> QED
    BY <2>1, <2>2 DEF LocalTypes, LocalShape, Hints, Results
<1> QED
  BY <1>1, <1>2

LEMMA EndRunTypes ==
    ASSUME EndRun
    PROVE  /\ order' \in [Candidates -> Candidates]
           /\ pos' \in Candidates
           /\ route' \in Nat \ {0}
BY NAssumption DEF EndRun, Candidates

LEMMA TypeReturn ==
    ASSUME LocalTypes, NEW r \in Results, Return(r)
    PROVE  LocalTypes' /\ LocalShape'
BY EndRunTypes DEF LocalTypes, LocalShape, Return, Hints

LEMMA TypeRaise ==
    ASSUME LocalTypes, LocalShape, NEW r \in Results, RaiseUnavailable(r),
           attempts > 0
    PROVE  LocalTypes' /\ LocalShape'
<1>1. CASE second
  BY <1>1, TypeReturn DEF RaiseUnavailable
<1>2. CASE ~second
  BY <1>2, EndRunTypes DEF RaiseUnavailable, LocalTypes, LocalShape
<1> QED
  BY <1>1, <1>2

LEMMA TypeStep == TypeOK /\ [Next]_vars => TypeOK'
<1> SUFFICES ASSUME TypeOK, [Next]_vars
             PROVE  SharedTypes' /\ LocalTypes' /\ LocalShape'
  BY TypeParts DEF TypeOK, SharedTypes, LocalTypes, LocalShape, Trackers
<1> USE DEF SharedTypes
<1>0. /\ SharedTypes /\ LocalTypes /\ LocalShape
      /\ ConfiguredPolicy \in Policies
      /\ ParsePolicy \in Policies
  BY TypeParts, PolicyAssumption DEF ParsePolicy
<1>1. ASSUME NEW o \in Options, BeginCall(o)
      PROVE  SharedTypes' /\ LocalTypes' /\ LocalShape'
  <2>1. tracker' \in Trackers
    BY <1>0, <1>1, PurgedFacts DEF BeginCall
  <2>2. CandidateCount \in Nat \ {0}
    BY NAssumption DEF CandidateCount
  <2>3. LocalTypes' /\ LocalShape'
    BY <1>0, <1>1, <2>2 DEF BeginCall, LocalTypes, LocalShape, Results
  <2> QED
    BY <1>0, <1>1, <2>1, <2>3 DEF BeginCall
<1>2. CASE Resolve
  <2>1. CASE config = "tiers"
    <3>1. Purged(tracker) \in Trackers /\ 1 \in Candidates
      BY <1>0, PurgedFacts, NAssumption DEF Candidates
    <3> QED
      BY <1>0, <1>2, <2>1, <3>1 DEF Resolve, LocalTypes, LocalShape, Orderings
  <2>2. CASE config = "none" /\ ~opts.required
    BY <1>0, <1>2, <2>2, TypeReturn DEF Resolve, Results
  <2>3. CASE config # "tiers" /\ ~(config = "none" /\ ~opts.required)
    BY <1>0, <1>2, <2>3, TypeRaise DEF Resolve, Results
  <2> QED
    BY <2>1, <2>2, <2>3
<1>3. CASE RouteAnswers
  <2>1. order[pos] \in Candidates
    BY <1>0 DEF LocalTypes
  <2>2. order[pos] \in Hints /\ order[pos] # None
    BY <2>1, NAssumption DEF Candidates, Hints, None
  <2>3. tracker' \in Trackers
    BY <1>0, <1>3, <2>1, SuccessFacts DEF RouteAnswers
  <2> QED
    BY <1>0, <1>3, <2>2, <2>3, EndRunTypes DEF RouteAnswers, LocalTypes, LocalShape
<1>4. CASE NextRoute
  BY <1>0, <1>4 DEF NextRoute, LocalTypes, LocalShape
<1>5. CASE CandidateFails
  <2>1. order[pos] \in Candidates
    BY <1>0 DEF LocalTypes
  <2>2. tracker' \in Trackers
    BY <1>0, <1>5, <2>1, TransportFailureFacts DEF CandidateFails
  <2>3. CASE ~LastCandidate
    <3>1. pos + 1 \in Candidates
      BY <1>0, <2>3, NAssumption DEF LastCandidate, LocalTypes, Candidates
    <3> QED
      BY <1>0, <1>5, <2>2, <2>3, <3>1 DEF CandidateFails, LocalTypes, LocalShape
  <2>4. CASE LastCandidate /\ opts.required
    BY <1>0, <1>5, <2>2, <2>4, TypeRaise DEF CandidateFails, LocalShape, Results
  <2>5. CASE LastCandidate /\ ~opts.required
    BY <1>0, <1>5, <2>2, <2>5, TypeReturn DEF CandidateFails, Results
  <2> QED
    BY <2>3, <2>4, <2>5
<1>6. CASE Parsed
  <2>1. cache' \in [Hints -> Hints]
    BY <1>0, <1>6 DEF Parsed, LocalTypes
  <2> QED
    BY <1>0, <1>6, <2>1, TypeReturn DEF Parsed, Results
<1>7. CASE ParsedNotSaved
  <2>1. cache' \in [Hints -> Hints]
    BY <1>0, <1>7 DEF ParsedNotSaved, EmptyCache, Hints
  <2> QED
    BY <1>0, <1>7, <2>1, TypeReturn DEF ParsedNotSaved, Results
<1>8. CASE Unparsed
  <2>1. answer \in Candidates /\ answer # None /\ attempts - 1 \in Nat
    BY <1>0, <1>8 DEF Unparsed, LocalTypes, LocalShape, Hints
  <2>2. tracker' \in Trackers
    BY <1>0, <1>8, <2>1, ParseFailureFacts DEF Unparsed
  <2>3. CASE opts.required
    BY <1>0, <1>8, <2>1, <2>2, <2>3 DEF Unparsed, LocalTypes, LocalShape, Hints
  <2>4. CASE ~opts.required
    BY <1>0, <1>8, <2>2, <2>4, TypeReturn DEF Unparsed, Results
  <2> QED
    BY <2>3, <2>4
<1>9. CASE EndLoop
  BY <1>0, <1>9, TypeReturn DEF EndLoop, Results
<1>10. CASE Tick
  <2>1. tracker' \in Trackers
    BY <1>0, <1>10, ElapsedFacts DEF Tick
  <2> QED
    BY <1>0, <1>10, <2>1 DEF Tick, callVars, LocalTypes, LocalShape
<1>11. CASE EditConfig
  BY <1>0, <1>11 DEF EditConfig, callVars, LocalTypes, LocalShape
<1>12. CASE LoseCache
  <2>1. cache' \in [Hints -> Hints]
    BY <1>12 DEF LoseCache, EmptyCache, Hints
  <2> QED
    BY <1>0, <1>12, <2>1 DEF LoseCache, callVars, LocalTypes, LocalShape
<1>13. CASE UNCHANGED vars
  BY <1>0, <1>13 DEF vars, callVars, LocalTypes, LocalShape
<1> QED
  BY <1>1, <1>2, <1>3, <1>4, <1>5, <1>6, <1>7, <1>8, <1>9, <1>10, <1>11, <1>12, <1>13
  DEF Next, CallStep

\* Whatever the providers, the clock and the user do, the state of the calls
\* stays well formed.
THEOREM TypeCorrect == Spec => []TypeOK
BY TypeInit, TypeStep, PTL DEF Spec
-----------------------------------------------------------------------------
\* Parse failures: a text about to be parsed comes from a candidate whose
\* record the same answer has just cleared, so a failure to parse it is the
\* first on the new record.

ParseInv ==
    /\ ParseFailuresBounded
    /\ pc = "parse" => tracker[answer].parse = 0

\* A step that leaves the tracker alone and does not enter "parse".
LEMMA ParseInvFrame ==
    ASSUME ParseInv, tracker' = tracker, pc' # "parse" \/ UNCHANGED <<pc, answer>>
    PROVE  ParseInv'
BY DEF ParseInv, ParseFailuresBounded

LEMMA ParseStep == TypeOK /\ ParseInv /\ [Next]_vars => ParseInv'
<1> SUFFICES ASSUME TypeOK, ParseInv, [Next]_vars PROVE ParseInv'
  OBVIOUS
<1>0. tracker \in Trackers /\ ConfiguredPolicy \in Policies /\ ParsePolicy \in Policies
  BY PolicyAssumption DEF TypeOK, Trackers, ParsePolicy
<1>1. ASSUME tracker' = Purged(tracker), pc' # "parse" PROVE ParseInv'
  BY <1>0, <1>1, PurgedFacts DEF ParseInv, ParseFailuresBounded, Fresh
<1>2. ASSUME NEW o \in Options, BeginCall(o) PROVE ParseInv'
  BY <1>1, <1>2, ParseInvFrame DEF BeginCall
<1>3. CASE Resolve
  BY <1>1, <1>3, ParseInvFrame DEF Resolve, RaiseUnavailable, Return
<1>4. CASE RouteAnswers
  <2>1. order[pos] \in Candidates
    BY DEF TypeOK
  <2> QED
    BY <1>0, <1>4, <2>1, SuccessFacts DEF RouteAnswers, ParseInv, ParseFailuresBounded, Fresh
<1>5. CASE NextRoute
  BY <1>5, ParseInvFrame DEF NextRoute
<1>6. CASE CandidateFails
  <2>1. order[pos] \in Candidates
    BY DEF TypeOK
  <2>2. ParseFailuresBounded'
    <3>1. /\ tracker'[order[pos]].parse = tracker[order[pos]].parse
          /\ \A c \in Candidates \ {order[pos]} : tracker'[c] = tracker[c]
      BY <1>0, <1>6, <2>1, TransportFailureFacts DEF CandidateFails
    <3> QED
      BY <2>1, <3>1 DEF ParseInv, ParseFailuresBounded
  <2>3. pc' # "parse"
    BY <1>6 DEF CandidateFails, RaiseUnavailable, Return
  <2> QED
    BY <2>2, <2>3 DEF ParseInv
<1>7. CASE Parsed \/ ParsedNotSaved \/ EndLoop
  BY <1>7, ParseInvFrame DEF Parsed, ParsedNotSaved, EndLoop, Return
<1>8. CASE Unparsed
  <2>1. answer \in Candidates /\ tracker[answer].parse = 0
    BY <1>8 DEF Unparsed, TypeOK, Hints, ParseInv
  <2>2. ParseFailuresBounded'
    <3>1. /\ tracker'[answer].parse = 1
          /\ \A c \in Candidates \ {answer} : tracker'[c] = tracker[c]
      BY <1>0, <1>8, <2>1, ParseFailureFacts DEF Unparsed
    <3> QED
      BY <2>1, <3>1 DEF ParseInv, ParseFailuresBounded
  <2>3. pc' # "parse"
    BY <1>8 DEF Unparsed, Return
  <2> QED
    BY <2>2, <2>3 DEF ParseInv
<1>9. CASE Tick
  <2>1. pc = "parse" => answer \in Candidates
    BY DEF TypeOK, Hints
  <2> QED
    BY <1>0, <1>9, <2>1, ElapsedFacts DEF Tick, callVars, ParseInv, ParseFailuresBounded
<1>10. CASE EditConfig \/ LoseCache \/ UNCHANGED vars
  BY <1>10, ParseInvFrame DEF EditConfig, LoseCache, vars, callVars
<1> QED
  BY <1>2, <1>3, <1>4, <1>5, <1>6, <1>7, <1>8, <1>9, <1>10 DEF Next, CallStep

\* No candidate ever has two parse failures on record, whatever the policy: so
\* a policy that asks for two before the switch never switches.
THEOREM ParseBound == Spec => []ParseFailuresBounded
<1>1. Init => ParseInv
  BY DEF Init, ParseInv, ParseFailuresBounded, Fresh
<1>2. ParseInv => ParseFailuresBounded
  BY DEF ParseInv
<1> QED
  BY <1>1, <1>2, ParseStep, TypeCorrect, PTL DEF Spec
-----------------------------------------------------------------------------
\* Counters and deadlines agree.

Justified(entry) ==
    /\ Suspended(entry) =>
          entry.transport >= ConfiguredPolicy.transport \/ entry.parse >= 1
    /\ entry.transport >= ConfiguredPolicy.transport => Suspended(entry)
    /\ entry.parse >= ConfiguredPolicy.parse => Suspended(entry)

LEMMA JustifiedParts ==
    SuspensionJustified <=> \A c \in Candidates : Justified(tracker[c])
BY DEF SuspensionJustified, Justified

LEMMA FreshJustified == Justified(Fresh)
BY PolicyAssumption DEF Justified, Fresh, Suspended, Policies

LEMMA JustifiedStep == TypeOK /\ SuspensionJustified /\ [Next]_vars => SuspensionJustified'
<1> SUFFICES ASSUME TypeOK, \A c \in Candidates : Justified(tracker[c]), [Next]_vars
             PROVE  \A c \in Candidates : Justified(tracker'[c])
  BY JustifiedParts DEF SuspensionJustified, Justified
<1>0. tracker \in Trackers /\ ConfiguredPolicy \in Policies /\ ParsePolicy \in Policies
  BY PolicyAssumption DEF TypeOK, Trackers, ParsePolicy
<1>1. CASE tracker' \in {tracker, Purged(tracker)}
  BY <1>0, <1>1, PurgedFacts, FreshJustified
<1>2. CASE RouteAnswers
  <2>1. order[pos] \in Candidates
    BY DEF TypeOK
  <2> QED
    BY <1>0, <1>2, <2>1, SuccessFacts, FreshJustified DEF RouteAnswers
<1>3. CASE CandidateFails
  <2> DEFINE d == order[pos]
  <2>1. d \in Candidates
    BY DEF TypeOK
  <2>2. tracker[d] \in Entries /\ Justified(tracker[d])
    BY <1>0, <2>1 DEF Trackers
  <2>3. Justified(tracker'[d])
    BY <1>0, <1>3, <2>1, <2>2, TransportFailureFacts
    DEF CandidateFails, Justified, Suspended, Entries, Policies, Never
  <2>4. \A c \in Candidates \ {d} : tracker'[c] = tracker[c]
    BY <1>0, <1>3, <2>1, TransportFailureFacts DEF CandidateFails
  <2> QED
    BY <2>3, <2>4
<1>4. CASE Unparsed
  <2>1. answer \in Candidates
    BY <1>4 DEF Unparsed, TypeOK, Hints
  <2>2. tracker[answer] \in Entries /\ Justified(tracker[answer])
    BY <1>0, <2>1 DEF Trackers
  <2>3. Justified(tracker'[answer])
    BY <1>0, <1>4, <2>1, <2>2, ParseFailureFacts, PolicyAssumption
    DEF Unparsed, ParsePolicy, Justified, Suspended, Entries, Policies, Never
  <2>4. \A c \in Candidates \ {answer} : tracker'[c] = tracker[c]
    BY <1>0, <1>4, <2>1, ParseFailureFacts DEF Unparsed
  <2> QED
    BY <2>3, <2>4
<1>5. CASE Tick
  BY <1>0, <1>5, ElapsedFacts DEF Tick, Justified
<1> QED
  BY <1>1, <1>2, <1>3, <1>4, <1>5
  DEF Next, CallStep, BeginCall, Resolve, NextRoute, Parsed, ParsedNotSaved, EndLoop,
      EditConfig, LoseCache, vars

\* A candidate is suspended exactly when it has earned it.
THEOREM SuspensionIsJustified == Spec => []SuspensionJustified
<1>1. Init => SuspensionJustified
  BY FreshJustified, JustifiedParts DEF Init
<1> QED
  BY <1>1, JustifiedStep, TypeCorrect, PTL DEF Spec

\* No step lifts a suspension but a purge after its deadline and the answer of
\* the candidate itself.
LEMMA ServedStep ==
    ASSUME TypeOK, [Next]_vars, NEW c \in Candidates,
           Suspended(tracker[c]), ~Suspended(tracker'[c])
    PROVE  tracker[c].cool = 0 \/ (pc' = "parse" /\ answer' = c)
<1>0. tracker \in Trackers /\ ConfiguredPolicy \in Policies /\ ParsePolicy \in Policies
  BY PolicyAssumption DEF TypeOK, Trackers, ParsePolicy
<1>1. CASE tracker' \in {tracker, Purged(tracker)}
  BY <1>0, <1>1, PurgedFacts
<1>2. CASE RouteAnswers
  <2>1. order[pos] \in Candidates
    BY DEF TypeOK
  <2> QED
    BY <1>0, <1>2, <2>1, SuccessFacts DEF RouteAnswers
<1>3. CASE CandidateFails
  <2>1. order[pos] \in Candidates
    BY DEF TypeOK
  <2>2. tracker'[order[pos]].cool \in {ConfiguredPolicy.cooldown, tracker[order[pos]].cool}
    BY <1>0, <1>3, <2>1, TransportFailureFacts DEF CandidateFails
  <2>3. \A d \in Candidates \ {order[pos]} : tracker'[d] = tracker[d]
    BY <1>0, <1>3, <2>1, TransportFailureFacts DEF CandidateFails
  <2> QED
    BY <1>0, <2>2, <2>3 DEF Suspended, Policies, Never
<1>4. CASE Unparsed
  <2>1. answer \in Candidates
    BY <1>4 DEF Unparsed, TypeOK, Hints
  <2>2. tracker'[answer].cool \in {ParsePolicy.cooldown, tracker[answer].cool}
    BY <1>0, <1>4, <2>1, ParseFailureFacts DEF Unparsed
  <2>3. \A d \in Candidates \ {answer} : tracker'[d] = tracker[d]
    BY <1>0, <1>4, <2>1, ParseFailureFacts DEF Unparsed
  <2> QED
    BY <1>0, <2>2, <2>3 DEF Suspended, Policies, Never
<1>5. CASE Tick
  BY <1>0, <1>5, ElapsedFacts DEF Tick
<1> QED
  BY <1>1, <1>2, <1>3, <1>4, <1>5
  DEF Next, CallStep, BeginCall, Resolve, NextRoute, Parsed, ParsedNotSaved, EndLoop,
      EditConfig, LoseCache, vars

\* A suspension is served: it ends by its deadline or by an answer of that
\* candidate, whatever other candidates, calls and the configuration do.
THEOREM SuspensionIsServed == Spec => SuspensionServed
<1>1. TypeOK /\ [Next]_vars =>
        [\A c \in Candidates :
            Suspended(tracker[c]) /\ ~Suspended(tracker'[c]) =>
                tracker[c].cool = 0 \/ (pc' = "parse" /\ answer' = c)]_vars
  BY ServedStep
<1> QED
  BY <1>1, TypeCorrect, PTL DEF Spec, SuspensionServed
-----------------------------------------------------------------------------
\* The order of a run.  It is a permutation sorted when the run began; since
\* then only the records of candidates already asked have changed, and time
\* neither begins nor ends a suspension.

OrderInv ==
    pc = "route" =>
        /\ \A c \in Candidates : \E i \in Candidates : order[i] = c
        /\ \A i, j \in Candidates : i < j => order[i] # order[j]
        /\ \A i, j \in Candidates :
              pos <= i /\ i < j /\ Suspended(tracker[order[i]]) => Suspended(tracker[order[j]])
        /\ \A i \in Candidates : i < pos => tracker[order[i]].transport >= 1

LEMMA OrderingFacts ==
    ASSUME NEW t \in Trackers, NEW o \in Orderings(t)
    PROVE  /\ o \in [Candidates -> Candidates]
           /\ \A c \in Candidates : \E i \in Candidates : o[i] = c
           /\ \A i, j \in Candidates : i < j => o[i] # o[j]
           /\ \A i, j \in Candidates :
                 i < j /\ Suspended(t[o[i]]) => Suspended(t[o[j]])
<1>1. /\ o \in [Candidates -> Candidates]
      /\ \A c \in Candidates : \E i \in Candidates : o[i] = c
      /\ \A i, j \in Candidates : i < j => Precedes(t, o[i], o[j])
  BY DEF Orderings
<1>2. \A c \in Candidates : ~Precedes(t, c, c)
  BY DEF Precedes, PrecedesByPenalty, Penalty, Trackers, Entries, Candidates, Never
<1>3. \A c, d \in Candidates :
         Precedes(t, c, d) /\ Suspended(t[c]) => Suspended(t[d])
  BY DEF Precedes, Suspended, Trackers, Entries, Never
<1> QED
  BY <1>1, <1>2, <1>3

LEMMA OrderStep == TypeOK /\ OrderInv /\ [Next]_vars => OrderInv'
<1> SUFFICES ASSUME TypeOK, OrderInv, [Next]_vars PROVE OrderInv'
  OBVIOUS
<1>0. /\ tracker \in Trackers /\ ConfiguredPolicy \in Policies
      /\ order \in [Candidates -> Candidates]
      /\ pos \in Candidates
  BY PolicyAssumption DEF TypeOK, Trackers
<1>1. ASSUME pc' # "route" PROVE OrderInv'
  BY <1>1 DEF OrderInv
<1>2. CASE Resolve
  <2>1. CASE config = "tiers"
    <3>1. tracker' \in Trackers
      BY <1>0, <1>2, <2>1, PurgedFacts DEF Resolve
    <3>2. order' \in Orderings(tracker') /\ pos' = 1
      BY <1>2, <2>1 DEF Resolve
    <3> QED
      BY <3>1, <3>2, OrderingFacts DEF OrderInv, Candidates
  <2>2. CASE config # "tiers"
    BY <1>1, <1>2, <2>2 DEF Resolve, RaiseUnavailable, Return
  <2> QED
    BY <2>1, <2>2
<1>3. CASE CandidateFails
  <2>1. CASE ~LastCandidate /\ pc = "route"
    <3> DEFINE d == order[pos]
    <3>1. d \in Candidates /\ pos' = pos + 1 /\ order' = order
      BY <1>0, <1>3, <2>1 DEF CandidateFails
    <3>2. /\ \A c \in Candidates \ {d} : tracker'[c] = tracker[c]
          /\ tracker'[d].transport = tracker[d].transport + 1
          /\ tracker[d].transport \in Nat
      <4>1. tracker[d].transport \in Nat
        BY <1>0, <3>1 DEF Trackers, Entries
      <4>2. tracker' = RecordTransportFailure(tracker, d, ConfiguredPolicy)
        BY <1>3 DEF CandidateFails
      <4> QED
        BY <1>0, <3>1, <4>1, <4>2, TransportFailureFacts
    <3>3. \A i \in Candidates : i # pos => order[i] \in Candidates \ {d}
      <4> SUFFICES ASSUME NEW i \in Candidates, i # pos PROVE order[i] # d
        BY <1>0
      <4>1. i < pos \/ pos < i
        BY <1>0, NAssumption DEF Candidates
      <4> QED
        BY <1>0, <2>1, <4>1 DEF OrderInv
    <3>4. \A i \in Candidates : i # pos => tracker'[order[i]] = tracker[order[i]]
      BY <3>2, <3>3
    <3>5. \A i, j \in Candidates :
             pos + 1 <= i /\ i < j /\ Suspended(tracker'[order[i]]) => Suspended(tracker'[order[j]])
      BY <1>0, <2>1, <3>4 DEF OrderInv, Candidates
    <3>6. \A i \in Candidates : i < pos + 1 => tracker'[order[i]].transport >= 1
      <4> SUFFICES ASSUME NEW i \in Candidates, i < pos + 1
                   PROVE  tracker'[order[i]].transport >= 1
        OBVIOUS
      <4>1. CASE i = pos
        BY <3>2, <4>1
      <4>2. CASE i # pos
        <5>1. i < pos
          BY <1>0, <4>2, NAssumption DEF Candidates
        <5> QED
          BY <2>1, <3>4, <4>2, <5>1 DEF OrderInv
      <4> QED
        BY <4>1, <4>2
    <3> QED
      BY <2>1, <3>1, <3>5, <3>6 DEF OrderInv
  <2>2. CASE LastCandidate
    BY <1>1, <1>3, <2>2 DEF CandidateFails, RaiseUnavailable, Return
  <2> QED
    BY <1>3, <2>1, <2>2 DEF CandidateFails
<1>4. CASE NextRoute \/ EditConfig \/ LoseCache \/ UNCHANGED vars
  BY <1>4 DEF NextRoute, EditConfig, LoseCache, vars, callVars, OrderInv
<1>5. CASE Tick
  <2>1. \A i \in Candidates :
           /\ tracker'[order[i]].transport = tracker[order[i]].transport
           /\ Suspended(tracker'[order[i]]) <=> Suspended(tracker[order[i]])
    BY <1>0, <1>5, ElapsedFacts DEF Tick
  <2> QED
    BY <1>5, <2>1 DEF Tick, callVars, OrderInv
<1>6. ASSUME NEW o \in Options, BeginCall(o) PROVE OrderInv'
  BY <1>1, <1>6 DEF BeginCall
<1>7. CASE RouteAnswers \/ Parsed \/ ParsedNotSaved \/ Unparsed \/ EndLoop
  BY <1>1, <1>7 DEF RouteAnswers, Parsed, ParsedNotSaved, Unparsed, EndLoop, Return
<1> QED
  BY <1>2, <1>3, <1>4, <1>5, <1>6, <1>7 DEF Next, CallStep

LEMMA OrderInvariant == Spec => []OrderInv
<1>1. Init => OrderInv
  BY DEF Init, OrderInv
<1> QED
  BY <1>1, OrderStep, TypeCorrect, PTL DEF Spec

\* A suspended candidate is asked only after every ready one has failed.
THEOREM SuspendedLast == Spec => []SuspendedAskedLast
<1>1. TypeOK /\ OrderInv => SuspendedAskedLast
  BY DEF TypeOK, OrderInv, SuspendedAskedLast, Candidates
<1> QED
  BY <1>1, TypeCorrect, OrderInvariant, PTL
-----------------------------------------------------------------------------
\* Giving up.

FailedInv ==
    /\ UnavailableMeansAllFailed
    /\ result = "unavailable" => pc = "idle"

\* A step that neither gives up nor touches a counter, between calls.
LEMMA FailedFrame ==
    ASSUME FailedInv, result' # "unavailable" \/
               (/\ UNCHANGED <<result, pc>>
                /\ \A c \in Candidates : tracker'[c].transport = tracker[c].transport)
    PROVE  FailedInv'
BY DEF FailedInv, UnavailableMeansAllFailed

LEMMA FailedStep == TypeOK /\ OrderInv /\ FailedInv /\ [Next]_vars => FailedInv'
<1> SUFFICES ASSUME TypeOK, OrderInv, FailedInv, [Next]_vars PROVE FailedInv'
  OBVIOUS
<1>0. /\ tracker \in Trackers /\ ConfiguredPolicy \in Policies
      /\ order \in [Candidates -> Candidates]
      /\ pos \in Candidates
  BY PolicyAssumption DEF TypeOK, Trackers
<1>1. ASSUME NEW o \in Options, BeginCall(o) PROVE FailedInv'
  BY <1>1, FailedFrame DEF BeginCall
<1>2. CASE Resolve
  <2>1. result' # "unavailable"
    BY <1>2 DEF Resolve, RaiseUnavailable, Return, FailedInv
  <2> QED
    BY <2>1, FailedFrame
<1>3. CASE CandidateFails
  <2>1. CASE result' # "unavailable"
    BY <2>1, FailedFrame
  <2>2. CASE result' = "unavailable"
    <3>1. pc = "route" /\ result # "unavailable"
      BY <1>3 DEF CandidateFails, FailedInv
    <3>2. LastCandidate /\ opts.required /\ pc' = "idle"
      BY <1>3, <2>2, <3>1 DEF CandidateFails, RaiseUnavailable, Return
    <3> DEFINE d == order[pos]
    <3>3. /\ d \in Candidates
          /\ \A c \in Candidates \ {d} : tracker'[c] = tracker[c]
          /\ tracker'[d].transport = tracker[d].transport + 1
          /\ tracker[d].transport \in Nat
      <4>1. d \in Candidates
        BY <1>0
      <4>2. tracker[d].transport \in Nat
        BY <1>0, <4>1 DEF Trackers, Entries
      <4>3. tracker' = RecordTransportFailure(tracker, d, ConfiguredPolicy)
        BY <1>3 DEF CandidateFails
      <4> QED
        BY <1>0, <4>1, <4>2, <4>3, TransportFailureFacts
    <3>4. \A c \in Candidates \ {d} : tracker[c].transport >= 1
      <4> SUFFICES ASSUME NEW c \in Candidates \ {d} PROVE tracker[c].transport >= 1
        OBVIOUS
      <4>1. PICK i \in Candidates : order[i] = c
        BY <3>1 DEF OrderInv
      <4>2. i < pos
        BY <1>0, <3>2, <4>1, NAssumption DEF LastCandidate, Candidates
      <4> QED
        BY <3>1, <4>1, <4>2 DEF OrderInv
    <3> QED
      BY <2>2, <3>2, <3>3, <3>4 DEF FailedInv, UnavailableMeansAllFailed
  <2> QED
    BY <2>1, <2>2
<1>4. CASE RouteAnswers \/ NextRoute
  BY <1>4, FailedFrame DEF RouteAnswers, NextRoute, FailedInv
<1>5. CASE Unparsed \/ Parsed \/ ParsedNotSaved \/ EndLoop
  <2>1. result' # "unavailable"
    BY <1>5 DEF Unparsed, Parsed, ParsedNotSaved, EndLoop, Return, FailedInv
  <2> QED
    BY <2>1, FailedFrame
<1>6. CASE Tick
  BY <1>0, <1>6, ElapsedFacts, FailedFrame DEF Tick, callVars
<1>7. CASE EditConfig \/ LoseCache \/ UNCHANGED vars
  BY <1>7, FailedFrame DEF EditConfig, LoseCache, vars, callVars
<1> QED
  BY <1>1, <1>2, <1>3, <1>4, <1>5, <1>6, <1>7 DEF Next, CallStep

\* A call is given up as unavailable only when each candidate has failed.
THEOREM GivingUpIsLast == Spec => []UnavailableMeansAllFailed
<1>1. Init => FailedInv
  BY DEF Init, FailedInv, UnavailableMeansAllFailed
<1>2. FailedInv => UnavailableMeansAllFailed
  BY DEF FailedInv
<1> QED
  BY <1>1, <1>2, FailedStep, TypeCorrect, OrderInvariant, PTL DEF Spec
-----------------------------------------------------------------------------
\* The contract: each step of a call is a step of LLMContract or invisible
\* to it.

\* While a call runs there is no result.
BusyInv == pc # "idle" => result = "nothing"

LEMMA BusyStep == TypeOK /\ BusyInv /\ [Next]_vars => BusyInv'
BY DEF BusyInv, Next, CallStep, BeginCall, Resolve, RouteAnswers, NextRoute, CandidateFails,
       Parsed, ParsedNotSaved, Unparsed, EndLoop, Tick, EditConfig, LoseCache,
       Return, RaiseUnavailable, EndRun, vars, callVars

LEMMA BusyInvariant == Spec => []BusyInv
<1>1. Init => BusyInv
  BY DEF Init, BusyInv
<1> QED
  BY <1>1, BusyStep, TypeCorrect, PTL DEF Spec

\* Ending a call with r is a Return of the contract, unless r is None for a
\* call that required an answer.
LEMMA ReturnKeepsContract ==
    ASSUME pc # "idle", NEW r \in Results \ {"nothing"}, Return(r),
           r = "none" => ~opts.required
    PROVE  Contract!Return
BY DEF Return, Contract!Return, Contract!Permitted, Outcome, Results

LEMMA RaiseKeepsContract ==
    ASSUME pc # "idle", NEW r \in Results \ {"nothing", "none"}, RaiseUnavailable(r)
    PROVE  Contract!Return \/ UNCHANGED Contract!contractVars
<1>1. CASE second
  BY <1>1, ReturnKeepsContract DEF RaiseUnavailable
<1>2. CASE ~second
  BY <1>2 DEF RaiseUnavailable, Contract!contractVars, Outcome
<1> QED
  BY <1>1, <1>2

LEMMA ContractStep ==
    TypeOK /\ BusyInv /\ [Next]_vars => [Contract!Next]_(Contract!contractVars)
<1> SUFFICES ASSUME TypeOK, BusyInv, [Next]_vars
             PROVE  Contract!Next \/ UNCHANGED Contract!contractVars
  OBVIOUS
<1>1. ASSUME NEW o \in Options, BeginCall(o)
      PROVE  Contract!Next \/ UNCHANGED Contract!contractVars
  <2>1. CASE result' = "payload"
    BY <1>1, <2>1 DEF BeginCall, Contract!Next, Contract!AnswerAtOnce, Outcome
  <2>2. CASE result' # "payload"
    BY <1>1, <2>2 DEF BeginCall, Contract!Next, Contract!Start, Outcome
  <2> QED
    BY <2>1, <2>2
<1>2. CASE Resolve
  <2>1. CASE config = "tiers"
    BY <1>2, <2>1 DEF Resolve, Contract!contractVars, Outcome
  <2>2. CASE config = "none" /\ ~opts.required
    BY <1>2, <2>2, ReturnKeepsContract DEF Resolve, Contract!Next, Results
  <2>3. CASE config # "tiers" /\ ~(config = "none" /\ ~opts.required)
    BY <1>2, <2>3, RaiseKeepsContract DEF Resolve, Contract!Next, Results
  <2> QED
    BY <2>1, <2>2, <2>3
<1>3. CASE RouteAnswers \/ NextRoute \/ Tick \/ EditConfig \/ LoseCache \/ UNCHANGED vars
  BY <1>3 DEF RouteAnswers, NextRoute, Tick, EditConfig, LoseCache, vars, callVars,
              Contract!contractVars, Outcome
<1>4. CASE CandidateFails
  <2>1. CASE ~LastCandidate
    BY <1>4, <2>1 DEF CandidateFails, Contract!contractVars, Outcome
  <2>2. CASE LastCandidate /\ opts.required
    BY <1>4, <2>2, RaiseKeepsContract DEF CandidateFails, Contract!Next, Results
  <2>3. CASE LastCandidate /\ ~opts.required
    BY <1>4, <2>3, ReturnKeepsContract DEF CandidateFails, Contract!Next, Results
  <2> QED
    BY <2>1, <2>2, <2>3
<1>5. CASE Parsed
  BY <1>5, ReturnKeepsContract DEF Parsed, Contract!Next, Results
<1>6. CASE ParsedNotSaved
  BY <1>6, ReturnKeepsContract DEF ParsedNotSaved, Contract!Next, Results
<1>7. CASE Unparsed
  <2>1. CASE opts.required
    BY <1>7, <2>1 DEF Unparsed, Contract!contractVars, Outcome
  <2>2. CASE ~opts.required
    BY <1>7, <2>2, ReturnKeepsContract DEF Unparsed, Contract!Next, Results
  <2> QED
    BY <2>1, <2>2
<1>8. CASE EndLoop
  <2>1. lastParse # None
    BY <1>8 DEF EndLoop, TypeOK
  <2> QED
    BY <1>8, <2>1, ReturnKeepsContract DEF EndLoop, Contract!Next, Results
<1> QED
  BY <1>1, <1>2, <1>3, <1>4, <1>5, <1>6, <1>7, <1>8 DEF Next, CallStep

\* The calls keep the safety part of their contract: a required call never
\* comes back empty-handed without an error, an error never passes a caller
\* that is fail-open, and nothing else comes back at all.
THEOREM KeepsContract ==
    Spec => Contract!Init /\ [][Contract!Next]_(Contract!contractVars)
<1>1. Init => Contract!Init
  BY DEF Init, Contract!Init, Outcome
<1> QED
  BY <1>1, ContractStep, TypeCorrect, BusyInvariant, PTL DEF Spec
=============================================================================
