----------------------------- MODULE RiskContext -----------------------------
(***************************************************************************)
(* The external risk context of architec/code_review/risk_context.py: the  *)
(* maps that a --risk-context file gives by path, and the factors it adds  *)
(* to a concern.                                                           *)
(*                                                                         *)
(* A context is [reports, rates, churn, complexity, explicit, api,         *)
(* recurrence, tests]: sequences of functions from paths where the code    *)
(* reads several keys in turn.  A raw coverage value is an integer number  *)
(* of hundredths; the value read is in ten-thousandths.  A raw value of    *)
(* None is no number.                                                      *)
(***************************************************************************)
EXTENDS Integers, SequencesExt

LOCAL INSTANCE FiniteSets

NoValue == -1
LowCoverage == 6000
HighChurn == 10
HighComplexity == 15
Recurring == 2

\* _coverage_value: above 1 a number is taken for a percentage.
CoverageValue(raw) ==
    IF raw = NoValue THEN NoValue
    ELSE LET ratio == IF raw > 100 THEN raw ELSE 100 * raw
         IN  IF ratio > 10000 THEN 10000 ELSE ratio

\* One map of the context, read with Value; what is no number is dropped.
Read(map, Value(_)) ==
    [p \in {q \in DOMAIN map : Value(map[q]) # NoValue} |-> Value(map[p])]
Same(v) == v

\* A later map overrides an earlier one, path by path.
Update(old, new) == new @@ old
Merged(maps, Value(_)) ==
    LET Step(old, map) == Update(old, Read(map, Value))
    IN  FoldLeft(Step, <<>>, maps)

\* _coverage_by_file: reports first, coverage_by_file over them.
CoverageByFile(c) == Merged(c.reports \o <<c.rates>>, CoverageValue)
ChurnByFile(c) == Merged(c.churn, Same)

\* Complexity reports list the blocks of a file, the worst of which counts.
Worst(blocks) ==
    LET numbers == {blocks[i] : i \in DOMAIN blocks} \ {NoValue}
    IN  IF numbers = {} THEN NoValue ELSE CHOOSE n \in numbers : \A m \in numbers : m <= n
ComplexityByFile(c) ==
    Update(Merged(c.complexity, Worst), Read(c.explicit, Same))

RecurrenceByFile(c) == Read(c.recurrence, Same)

\* risk_context_reinforcement_factors.
AtLeast(map, path, least) == path \in DOMAIN map /\ map[path] >= least
Below(map, path, limit) == path \in DOMAIN map /\ map[path] < limit
If(holds, factor) == IF holds THEN {factor} ELSE {}
Factors(c, path) ==
    If(Below(CoverageByFile(c), path, LowCoverage), "low_coverage") \cup
    If(AtLeast(ChurnByFile(c), path, HighChurn), "high_churn") \cup
    If(AtLeast(ComplexityByFile(c), path, HighComplexity), "high_complexity") \cup
    If(path \in c.api, "public_api") \cup
    If(AtLeast(RecurrenceByFile(c), path, Recurring), "recurring_history") \cup
    If(path \in DOMAIN c.tests /\ c.tests[path] = {}, "missing_related_tests")

\* The facts of apply_risk_context: every map that knows the path adds its
\* value, and every factor a fact of its own (public_api is one fact).
Knowing(maps, path) == Cardinality({i \in DOMAIN maps : path \in DOMAIN maps[i]})
Facts(c, path) ==
    Knowing(<<CoverageByFile(c), ChurnByFile(c), ComplexityByFile(c), RecurrenceByFile(c), c.tests>>, path)
      + Cardinality(Factors(c, path))

-----------------------------------------------------------------------------
\* An explicit coverage_by_file entry decides whether a file counts as badly
\* covered, whatever the coverage reports say, if it is a number at all.
ExplicitRateDecides(c) ==
    \A p \in DOMAIN c.rates : c.rates[p] # NoValue =>
       ("low_coverage" \in Factors(c, p) <=> CoverageValue(c.rates[p]) < LowCoverage)
=============================================================================
