------------------------------ MODULE Scoring ------------------------------
(***************************************************************************)
(* The scores of architec/scoring: of a changed component, of the change   *)
(* (incremental), of the whole project (full) and of both (overall), the   *)
(* trend of a component since the last review, and the recommendations.    *)
(*                                                                         *)
(* Scores are whole thousandths of a point, which the decimals of the code *)
(* are; percentages are whole.  The weighted average is a fraction, with   *)
(* the sum of the weights below.  Floats are taken as exact, and a half is *)
(* rounded up.  A component is [critical, warning, info, churn, files,     *)
(* role, neighbours], what changed in it and what the bundle finds there.  *)
(* A policy has a record per section, with the fields of its subsections;  *)
(* all of its values are numbers.                                          *)
(***************************************************************************)
EXTENDS Integers, Sequences, FiniteSetsExt, Functions, TLC

Point == 1000
Hundred == 100 * Point
Clamp(n, high) == Max({0, Min({n, high})})

-----------------------------------------------------------------------------
(* The policy. *)

DEFAULT_POLICY ==
    [full |-> [pass_min |-> 75000, warn_min |-> 60000, critical_hard_limit |-> 400, fixed |-> Hundred,
               pass_relief |-> 35, warn_relief |-> 25, max_pass_relief |-> 20000, max_warn_relief |-> 15000,
               pass_floor |-> 65000, warn_floor |-> 50000, min_gap |-> 5000,
               grace |-> [critical |-> 5, warning |-> 20, info |-> 25],
               per |-> [critical |-> 500, warning |-> 60, info |-> 5],
               max |-> [critical |-> 45000, warning |-> 18000, info |-> 6000]],
     incremental |-> [pass_min |-> 80000, warn_min |-> 60000, churn_weight_cap |-> 24, score_floor |-> 40000,
                      critical_limit |-> 3, critical_total_limit |-> 6, blocked_limit |-> 2,
                      per_critical |-> 2000, max_critical |-> 12000, per_trend_up |-> 1500, max_trend_up |-> 7000],
     overall |-> [full |-> 62, incremental |-> 38, max_files |-> 3, max_components |-> 1, low_weight |-> 12,
                  pass_min |-> 75000, warn_min |-> 60000, blocked_min |-> 2, critical_min |-> 3]]

\* load_scoring_policy: the values of the file, above the defaults.
Policy(own) == [s \in DOMAIN DEFAULT_POLICY |-> (IF s \in DOMAIN own THEN own[s] ELSE <<>>) @@ DEFAULT_POLICY[s]]

Recommend(passed, warned) == IF passed THEN "approve" ELSE IF warned THEN "needs_changes" ELSE "block"
Rank(recommendation) == CASE recommendation = "block" -> 0 [] recommendation = "needs_changes" -> 1 [] OTHER -> 2

-----------------------------------------------------------------------------
(* A changed component. *)

structural_penalty(c) ==
    (IF c.critical > 0 /\ c.role = "adapter" THEN 4 * Point ELSE 0)
    + (IF c.critical > 0 /\ c.neighbours >= 3 THEN 2 * Point
       ELSE IF c.warning > 0 /\ c.neighbours >= 5 THEN Point ELSE 0)

component_score(c) ==
    Clamp(Hundred - Min({60 * Point, c.critical * 18 * Point}) - Min({24 * Point, c.warning * 4 * Point})
             - Min({10 * Point, c.info * Point}) - Min({20 * Point, c.churn * 40}) - structural_penalty(c),
          Hundred)

component_recommendation(c) ==
    LET score == component_score(c)
    IN  Recommend(c.critical = 0 /\ score >= 70 * Point, c.critical < 3 /\ score >= 40 * Point)

\* The components with changed files: only these are scored.
Changed(components) == {n \in DOMAIN components : components[n].files > 0}

\* update_component_registry: the last scores, kept of components that are not
\* scored now.  A component without one is compared with its own score.
Scores(components) == [n \in Changed(components) |-> component_score(components[n])]
Updated(registry, components) ==
    [n \in Changed(components) \cup DOMAIN registry |->
        IF n \in Changed(components) THEN Scores(components)[n] ELSE registry[n]]
Trend(registry, components) ==
    [n \in Changed(components) |->
        LET score == component_score(components[n])
            last == IF n \in DOMAIN registry THEN registry[n] ELSE score
        IN  IF score > last + Point THEN "up" ELSE IF score < last - Point THEN "down" ELSE "flat"]

-----------------------------------------------------------------------------
(* The change. *)

Weight(c, policy) == Min({Max({1, c.churn + 1}), Max({1, policy.incremental.churn_weight_cap})})

Blocked(components, policy) ==
    {n \in Changed(components) :
        \/ component_recommendation(components[n]) = "block"
        \/ component_score(components[n]) < policy.incremental.score_floor
        \/ policy.incremental.critical_limit > 0 /\ components[n].critical >= policy.incremental.critical_limit}

Total(components, F(_)) == MapThenSumSet(LAMBDA n : F(components[n]), Changed(components))
CriticalTotal(components) == Total(components, LAMBDA c : c.critical)

\* Mutant: blocked components are passed over before they are weighed.
WeighedUnblocked(components, policy) == Changed(components) \ Blocked(components, policy)

\* collect_incremental_signals weighs all components, blocked or not.
Weighed(components, policy) == Changed(components)

\* macro_bonus: improving components raise the score of the change.
macro_bonus(trend, policy) ==
    Min({policy.incremental.max_trend_up,
         policy.incremental.per_trend_up * Cardinality({n \in DOMAIN trend : trend[n] = "up"})})

\* A score is score.of / score.by.
Verdict(of, by, blocked, cfg) ==
    [of |-> of, by |-> by,
     recommendation |-> IF blocked THEN "block" ELSE Recommend(of >= cfg.pass_min * by, of >= cfg.warn_min * by)]

evaluate_incremental_score(components, trend, policy) ==
    LET cfg == policy.incremental
        weighed == [n \in Weighed(components, policy) |-> components[n]]
        by == Max({1, Total(weighed, LAMBDA c : Weight(c, policy))})
        critical == CriticalTotal(components)
        of == Clamp(Total(weighed, LAMBDA c : component_score(c) * Weight(c, policy))
                       + by * (macro_bonus(trend, policy) - Min({cfg.max_critical, critical * cfg.per_critical})),
                    Hundred * by)
        blocked == Cardinality(Blocked(components, policy))
        forced == \/ cfg.critical_total_limit > 0 /\ critical >= cfg.critical_total_limit
                  \/ blocked > cfg.blocked_limit
    IN  IF Changed(components) = {} THEN [mode |-> "no_change", of |-> Hundred, by |-> 1, recommendation |-> "approve"]
        ELSE [mode |-> "incremental"] @@ Verdict(of, by, forced, cfg)

-----------------------------------------------------------------------------
(* The whole project: counts is the number of findings of each severity. *)

Severities == {"critical", "warning", "info"}
Penalty(counts, policy) ==
    MapThenSumSet(LAMBDA s : Min({policy.full.max[s], Max({0, counts[s] - policy.full.grace[s]}) * policy.full.per[s]}),
                  Severities)

\* _adaptive_thresholds, in hundredths of the unit of the scores: what weighs
\* on the score also lowers what is asked of it.
PassMin(penalty, policy) ==
    Max({100 * policy.full.pass_floor,
         100 * policy.full.pass_min - Min({100 * policy.full.max_pass_relief, penalty * policy.full.pass_relief})})
WarnMin(penalty, policy) ==
    Max({0, Min({PassMin(penalty, policy) - 100 * policy.full.min_gap,
                 Max({100 * policy.full.warn_floor,
                      100 * policy.full.warn_min
                         - Min({100 * policy.full.max_warn_relief, penalty * policy.full.warn_relief})})})})

evaluate_full_score(counts, policy) ==
    LET penalty == Penalty(counts, policy)
        score == Clamp(Clamp(policy.full.fixed, Hundred) - penalty, Hundred)
        limit == policy.full.critical_hard_limit
    IN  [of |-> score, by |-> 1,
         recommendation |-> IF limit > 0 /\ counts["critical"] >= limit THEN "block"
                            ELSE Recommend(100 * score >= PassMin(penalty, policy), 100 * score >= WarnMin(penalty, policy))]

-----------------------------------------------------------------------------
(* Both. *)

\* round(score, 2)
Rounded(score) == 10 * ((2 * score.of + 10 * score.by) \div (20 * score.by))

\* A review of the whole project, which has no incremental score.
NotApplicable == [mode |-> "not_applicable", of |-> 0, by |-> 1, recommendation |-> "n/a"]

\* _apply_low_scope_reweight, and _normalize_weights: the weights of the two.
Weights(components, incremental, policy) ==
    LET cfg == policy.overall
        small == Total(components, LAMBDA c : c.files) <= cfg.max_files
                 /\ Cardinality(Changed(components)) <= cfg.max_components
    IN  IF incremental.mode # "incremental" THEN [full |-> 100, incremental |-> 0]
        ELSE IF small /\ cfg.low_weight < cfg.incremental
             THEN [full |-> 100 - cfg.low_weight, incremental |-> cfg.low_weight]
             ELSE [full |-> cfg.full, incremental |-> cfg.incremental]

evaluate_overall_score(components, full, incremental, policy) ==
    LET cfg == policy.overall
        w == Weights(components, incremental, policy)
        of == Rounded(full) * w.full + Rounded(incremental) * w.incremental
        by == w.full + w.incremental
        escalated ==
           /\ incremental.recommendation = "block"
           /\ \/ Cardinality(Blocked(components, policy)) >= cfg.blocked_min
              \/ CriticalTotal(components) >= cfg.critical_min
    IN  Verdict(of, by, escalated, cfg)

\* The scores of a review of components, with findings elsewhere.
Review(components, registry, elsewhere, policy) ==
    LET trend == Trend(registry, components)
        incremental == evaluate_incremental_score(components, trend, policy)
        counts == [s \in Severities |-> elsewhere[s] + MapThenSumSet(LAMBDA n : components[n][s], DOMAIN components)]
        full == evaluate_full_score(counts, policy)
    IN  [trend |-> trend, full |-> full, incremental |-> incremental,
         overall |-> evaluate_overall_score(components, full, incremental, policy)]

-----------------------------------------------------------------------------
(* Properties. *)

NotBetter(a, b) == a.of * b.by <= b.of * a.by /\ Rank(a.recommendation) <= Rank(b.recommendation)

\* A review with more findings, in the same changes, has no better score and no
\* better recommendation than the one without, for all of averages, bonuses,
\* thresholds that give way and limits.
WorseNeverBetter(worse, components, registry, elsewhere, policy) ==
    LET a == Review(worse, registry, elsewhere, policy)
        b == Review(components, registry, elsewhere, policy)
    IN  \A score \in {"full", "incremental", "overall"} : NotBetter(a[score], b[score])

FollowsFairly(second, first) ==
    /\ NotBetter(second.incremental, first.incremental) /\ NotBetter(second.overall, first.overall)
    /\ (\A n \in DOMAIN first.trend : first.trend[n] # "up") => second.incremental = first.incremental
    /\ \A n \in DOMAIN second.trend : second.trend[n] = "flat"

\* A review of the same change again, with what the first one left in the
\* registry, has the same scores but for the bonus, and a third the same as it.
ProgressCountsOnce(components, registry, elsewhere, policy) ==
    LET once == Updated(registry, components)
    IN  /\ Updated(once, components) = once
        /\ FollowsFairly(Review(components, once, elsewhere, policy), Review(components, registry, elsewhere, policy))
=============================================================================
