# Formal models of Architec

Architec (`archi`) is an advisory architecture-review command. A run looks at
a project, refreshes a Hippos bundle (external snapshot tooling), runs static
scanners, asks backend LLMs for judgement, writes reports and observation logs
under `.architec/`, and returns an exit code that says whether the *tool*
worked, never whether the project is good. This directory holds TLA+ models of
the parts where order, failure and time decide what happens, and of the rules
that decide what a review says; the TLC configurations that check them; and
proofs about the central ones.

Run from this directory:

    tlc -config MCLLMFlow.cfg MCLLMFlow        # model-check one run
    tlapm LLMFlowProofs.tla                    # check the proofs

## 1. Inventory

Paths are below `src/src/architec/` unless they start with `src/`.

| Component | State | Operations | Interacts with | What is hard | What makes it correct | Modules |
|---|---|---|---|---|---|---|
| LLM chain (`backend_llm/flow.py`, `gateway.py`, `support/llm_guard.py`) | locals of a call | `complete_json`, `complete_text`, candidate chain, `guard_llm_result` | tracker, cache, config file, providers | two runs per failing call, order fixed early, config re-read at every run | every call returns, with a result its options permit; nothing is given up before all candidates were asked | `LLMFlow`, `LLMContract` |
| Failover tracker (`backend_llm/failover.py`) | failure counters and deadlines per candidate | order, record success / transport / parse failure | chain, parse step | counters cleared by one event and counted by the next | suspended iff a threshold was reached; suspended ones last | `Failover` |
| LLM result cache (`backend_llm/cache.py`, `support/io_utils.py`) | one JSON file, at most `max_entries` items | load, save (read, add, prune, rewrite) | several processes on one project | read-modify-write without a lock, torn reads | a hit is a value saved for that key; bounded; the newest survive | `LLMCache` |
| LLM configuration (`backend_llm/config.py`, `support/llm_preflight.py`) | three files, the environment | merge, resolve candidates, preflight | chain, CLI | layers that hide each other; a fixed list of tasks checked | a passed preflight means that the calls that follow have candidates | `LLMConfig` |
| Review event log (`events/public.py`) | active and rotated JSONL files | append, rotate, read | several processes | rotation between another writer's two steps; newline separator from an earlier size | events are neither lost nor duplicated | `EventLog` |
| Hippos bundle (`integration/bundle_loader.py`, `hippo_bridge.py`) | bundle files, fingerprints, source mtimes | inspect, refresh in six external steps, require | Hippos subprocesses, the user's editor | source edited during a refresh | a bundle accepted as fresh describes the sources | `Bundle` |
| Auth session (`auth/`) | session, public key and device files | login by browser, code or activation, guard, refresh, logout | portal, callback server | refresh racing logout or login; a key that changes; a failure between two files | only a verified, unexpired lease authorizes; commands together have the effect of some order of them | `AuthSession` |
| CLI (`cli.py`) | locals of a command | dispatch, bundle, preflight, run, static fallback | everything above | which failure leads to which exit code | exit code 0 only with a result | `ReviewCommand` |
| Scan cache (`code_review/scan_cache.py`) | one cache file per scanner | stat, collect, store | the user's editor, other reviews | file edited between stat and read | a stale entry never hides a change | `ScanCache` |
| Cleanup, archive, autofix (`cleanup/`, `analysis/analysis_cache.py`) | the tree, `archive/`, cached judgement | inventory, archive candidates, judge, plan, move | LLM, file system | overlapping rules; an answer that is kept or not; moves that collide | a file is moved when it was judged so, never lost | `Cleanup` |
| Retire plan (`cleanup/retire_plan.py`) | none | plan for a goal, plan for a diff | cleanup candidates | relevance by words and components | what belongs to the work goes first | `RetirePlan` |
| Advice and feedback (`advice_feedback.py`, `fix_advice/public.py`) | feedback file | match, demote, advise | concerns | matching of texts | feedback demotes what it names, and never brings back | `Feedback` |
| Scanners (`code_review/near_duplicate.py`, `shadow_implementation.py`, `plan_diff_consistency.py`, `risk_context.py`) | none | functions of trees, plans, diffs | result building | grouping, suppression and scope rules together | what is found is left out by the limit alone, and never told twice | `NearDuplicate`, `ShadowImplementation`, `PlanDiff`, `RiskContext` |
| Contract rules (`support/architecture_rules.py`, `code_review/architecture_contracts.py`) | none | read, merge, match, scan | cleanup, result building | two sections, defaults, ids | a tool's section hides no shared contract | `Contracts` |
| Result building (`code_review/public.py`) | the review directory | run scans, judge, rank, compact, signals | all scanners | five shown of many; several reasons to hide | what is not shown is accounted for | `ReviewResult` |
| Topology (`analysis/repo_topology*.py`) | none | direct modules, groups, votes, migration plan | LLM | three deciders per file | doubt never moves a file | `RepoTopology` |
| Scoring (`scoring/`) | component registry | component, incremental, full, overall scores; trend | git diff, findings, history | limits, averages, bonuses, thresholds that give way | worse is never better; progress counts once | `Scoring`, `ScoreHistory` |
| History (`analysis/history_analyzer.py`) | debt ledger | compare, replace | LLM | replaced before the LLM is asked | "since last" is since a known review | `ScoreHistory` |
| npm dispatcher (`src/lib/archi-dispatcher.js`, `src/scripts/postinstall.js`) | binary, marker, starter configuration | create, download, verify, mark, run | release server, other first runs | two dispatchers, kill between rename and marker | only a verified binary runs; credentials survive | `Dispatcher` |
| Governance dimensions, hotspots, views (`analysis/`) | none | weighted sums, selections | reports | | bounded | - |
| Refresh decider (`support/refresh_decider.py`), orchestrator (`orchestrator/`), gate and baseline (`gate/report.py`, `baseline/report.py`) | state files | decide, batch, compare | git, reports | counter reset before the refresh happened | a full refresh happens every interval | - |
| Plan review, project status (`plan_review/public.py`, `project_status/public.py`) | plan and status files | parse, render | results | | advisory only | - |
| Feature advisor, descriptors (`feature/`, `descriptors/`) | none | ranking of strings, prompts | LLM | | | - |
| Self management (`self_manage.py`) | installed files | update, uninstall | installers | | | - |
| Reports, i18n, TLS, paths, tools, scripts (`reporting/`, `i18n.py`, `support/`, `src/tools/`, `src/scripts/`) | report files | formatting, configuration, build helpers | | | | - |

The hazards, each at its line and with the property that watches it, are in
`PROJECT.json`.


## 2. The models

A definition keeps the name of its code where TLA+ allows. A definition whose
name extends the name of the definition after it (`PurgedKeepsCounters` before
`Purged`) is a faulty variant of it: substituted for the right one, it makes
TLC report the property it is aimed at (`PROJECT.json`, `mutants`). The
specifications themselves never use one.

### Failover, LLMFlow, LLMContract: calls to the backend LLM

`Failover` has the tracker of `failover.py` as pure operators. A candidate is
its position in the tier (1..N); its entry holds two failure counters and a
deadline. The code compares `suspended_until` with a clock; the model keeps
the *time left* (`cool`), `Never` for `suspended_until = 0.0` and 0 for a
deadline that is reached, so that time needs no bound. A key missing from the
dictionary is the entry `Fresh`, which all functions treat alike.
`ordered_candidates` first drops expired entries (`Purged`) and then sorts
(`Precedes`, `Orderings`).

`LLMFlow` is one process making calls, one action per point where the code can
be overtaken by something else:

| Action | Code |
|---|---|
| `BeginCall` | `guard_llm_result`, `complete_json` up to its loop: hint, cache lookup, number of attempts |
| `Resolve` | `resolve_runtime_context_strict`, at the start of each run of `acomplete_text` |
| `RouteAnswers`, `NextRoute`, `CandidateFails` | `run_candidate_chain_via_gateway`: success recorded, gateway then direct route, failure recorded |
| `RaiseUnavailable` | `complete_text`: its `except RuntimeError` also catches `BackendLLMUnavailableError`, and runs the chain a second time |
| `Parsed`, `ParsedNotSaved`, `Unparsed` | `process_json_attempt` and what `complete_json` does with the answer |
| `EndLoop` | the attempts are spent |
| `Tick`, `EditConfig`, `LoseCache` | the clock; the user edits the configuration, which is read again at every resolution; another process clobbers the cache |

Abstractions: there is one prompt; a text either parses or does not, and the
provider decides; candidate keys are distinct; the branch for a candidate with
an empty model is `CandidateFails`, whose effect it has; the number of
candidates of a tier does not change while the process runs, but the whole
configuration may vanish or break. `CandidateFails` in the second run counts
a failure twice per call, as the code does.

`LLMContract` is the abstract specification: a call with given options returns,
with one of the results those options permit. `LLMFlow` implements it
(`CallContract`, `INSTANCE LLMContract WITH phase <- ..., outcome <- ...`).

### LLMCache: the result cache

`save_cached_result` by several processes on one file: `Read`, `Stamp` (add and
prune), `Truncate` and `Write` (the two system calls of `write_text`), `Kill`.
An entry is its `updated_at` stamp; stamps strictly increase. A missing file is
an empty one. When two processes write at once, what the file holds depends on
the lengths of their texts: the model allows both a good and a torn file.
`load_cached_result` changes nothing and is `Items` at a key.

### EventLog: the review event log

`append_review_event` by several processes, system call by system call
(`Begin`, `ReadActive`, `OpenRotated`, `WriteRotated`, `Unlink`, `OpenActive`,
`WriteActive`), with kills between any two of them and months passing. A file
is a sequence of events and newlines; one append is one atomic `write`
(the file is opened with `"ab"`). `inode` and `created` tell the file a writer
holds open from the one that has the name now. `Fail` is the fail-open handling
in `_with_review_event`. `ReadEvents` is what `read_review_events` returns.
`killed` and `overlapped` only record what happened, for the properties. What is read
of a file, and what `Cleanup` and `Contracts` filter and sort, is built with the two
operators of `Selections` (`Picked`, `Sorted`), which have definitions a prover can
unfold: `SelectSeq` is recursive, and `SortSeq` of TLC has none.

### Bundle: refresh and freshness of the Hippos bundle

Every part of the bundle is the snapshot of the sources it was derived from,
so freshness is equality. `inspect_bundle` is `Accepted`, with the fingerprint
over index, signatures and manifest only, and the mtime comparison; it is taken
as one step. `refresh_bundle_from_hippo` is one action per step it runs
(`InitStep`, `SigExtract`, `Index`, `StructurePrompt`, `Scan`, `WriteMetrics`,
`Require`); `After` gives their order. The `hippos` commands are external: what
they write is taken from what `bundle_loader.py` reads and from the bundles the
tests of the bridge build; each is one step. The metrics are collected by this repository's
`collect_repo_metrics.py`, in two steps (it reads the sources, then takes the
time). A refresh may stop at every step (`Fail`), and `Edit` changes, creates or
deletes a source at any moment. `WriterKinds` chooses between a `hippos` that
writes `bundle-state.json` and an older one. An mtime is the time of the edit.
`clean`, `disturbed` and `past` only record what happened.

### ReviewCommand: what one command leaves behind

`main` of `cli.py` for `archi` and `archi code-review`: options are a set of
flags (every combination the argument parser lets pass); the run is a list of
steps still to do (`todo`), and each step passes, fails, or replaces the rest
of the list by another (static review, empty since range). Of an exception only
its class counts, and whether its text has a marker `_is_since_range_error`
looks for. `Crash` is any exception `main` does not expect (exit code 1), at
any step. The module has no constants: TLC explores all of it.

Which steps a command takes and what they leave is all of this model: whether
a call of the LLM returns is `LLMFlow`'s matter, and whether a bundle is fresh
`Bundle`'s; here each passes or fails.

### AuthSession: login, guard and logout over shared files

Two processes run commands over `session.json`, `portal-public-key.pem` and
`device.json`. A command is a sequence of file and network steps (`Goto`), so
that another's steps, a kill or a failing request come between any two. The guard
(`auth/guard.py`) reads the session, verifies its lease with the stored key,
fetches a key only for a lease that is on disk and does not verify, refreshes a
lease that is about to expire, and saves it. The portal is external: it signs
with its current key, may change it, may reject, may be out of reach. A lease
is [key, expiry, login]; time is in the 300 seconds a lease is refreshed ahead.
The browser flow is its outcome: the callback server and what its threads
overwrite (`commands.py:81`) are one choice of the environment. Left out: the
overrides `ARCHITEC_DISABLE_AUTH` and `ARCHITEC_AUTH_PUBLIC_KEY_PEM` and the
file with the user's preferences (`commands.py:115-129`); `device.json` is
written in one step.

The model shows a state a user gets stuck in: after the portal changed its key,
a session whose lease verifies with the old key is refreshed with an answer
signed by the new one, which `guard.py:54` refuses, each time, until `archi
login`. `SignatureRefusedOnlyAfterRotation` says that nothing else leads there.

### MCRules: the rules of a review

The rules below are pure operators over records. `MCRules` first chooses a rule
(`Choose`), and has one action per rule that then picks its input (`PickDuplicates`,
`PickReview`, ...), and one invariant per rule, which computes the result. Its header comments and those of each
module say what a value stands for; `PROJECT.json`, `map`, gives the lines.
Beside them it runs, without interaction, the three small state machines that
the module `Machines` instantiates (`PickMachine`); `Machines` states their four
properties, and `Rules` those of the rules that are proved for every input
(`GroupsReportedOnce`, `ScopeSelectsPairs`, `PlanGaps`, `FilesSurvive`, `MovesFollowTheJudge`, `SectionsCombine`, `PlanIsSound`,
`PlanFitsTheWork`, `PreflightCovers`). `MCRules` extends both, so that the theorems of `MachinesProofs` and
`RulesProofs` are about the very definitions this run checks. The tables of
`repo_topology_rule_data.py` are constants of `Rules`; TLC checks what is assumed of them
(`TablesAssumption`) on the excerpt that `MCRules` has.

* **NearDuplicate**: functions with the same normalized AST are grouped; a
  group is reported by family, by representatives or by a changed file. `Stripped`
  is `lstrip("./")`, which the code applies to changed paths and not to the
  candidates' (`Named`); `Shown` has every set of concerns that `[:limit]` may
  leave, because groups come in the order of their hashes.
* **ShadowImplementation**: pairs of functions, classes or modules that do the
  same job and do not use each other; similarities as exact fractions. The same
  `Stripped` and limit, here after a sort by confidence and path (`Ahead`).
* **PlanDiff**: what a saved plan names against the changed files: targets,
  dependencies, tests, migrations, imports; and the concerns about gaps.
* **RiskContext**: the maps of a `--risk-context` file and the factors they add.
* **Contracts**: sections of `.architecture-rules.toml`, their merge, the
  contracts broken by imports, owners and expiry of cleanup candidates.
* **ReviewResult**: which concerns are generated from the report and the scans,
  what the judge and the risk context change, the ranking with its portfolio,
  the five shown, the counts and signals; the age of the snapshot.
* **Cleanup**: inventory by path and content, archive tiers, the judge with its
  cache (one entry per namespace), the plan of moves and its application. A hint
  is a text: "archive/" passes the test of its beginning (`ArchiveText`), and where
  there is no directory of that name the first file moved becomes a file named
  `archive` (`Place`, `InArchive`), and `mkdir` raises at the next move below it.
* **RetirePlan**: items a goal or a diff adds, relevance of candidates, order.
* **Feedback**: what an entry demotes, and the advice built from the evidence of
  a concern after the review truncated it.
* **RepoTopology**: source root, direct modules, groups and votes, the LLM's
  answers about groups and files, and the migration plan.
* **LLMConfig**: three files merged by key paths, environment references,
  providers, tiers, candidates and their generated keys, the preflight, and the
  calls each command makes after it.
* **Scoring**: scores in thousandths of a point, of a component, of a change, of
  the project and of both; the policy file over its defaults; trends.

### ScanCache: the cache of the scanners

Runs of a scanner (`Begin`, `Stat`, `Hit` or collecting in two reads,
`OpenCache`, `WriteCache`, `Kill`) over one cache file that is rewritten in
place, with files edited and deleted in between. The number of an edit is
the content, its candidates and its signature at once.

### Dispatcher: the npm dispatcher

`archi-dispatcher.js` step by step: look for a configuration, create and fill it
(`openSync("wx")`, then the write), fetch the checksum, look, hash, download to a
temporary name, verify, rename, mark, spawn. Two processes overlap, are killed
anywhere, and the release is uploaded again meanwhile.

### ScoreHistory: since the last review

The ledger and the registry, each read, compared and replaced by every review
(`CompareIssues`/`WriteLedger`, `CompareScores`/`WriteRegistry`), by two reviews
that overlap, end early, and work on a project that is edited. `known` records
what the last reviews that were alone wrote; it is no state of the code.

## 3. The runs

Passing runs explore their instance completely.

| Run | Configuration | What it shows |
|---|---|---|
| `llm_contract` | `MCLLMFlow.cfg` | 944 000 states. Every call returns with a permitted result, under failing candidates, two routes, edits of the configuration, a lost cache and passing time; the tracker is coherent, suspended candidates are asked last, none is passed over before a call gives up, no suspension ends early |
| `llm_parse_policy` | `MCParseStreak.cfg` | *violation*: with `parse_failures_before_switch: 2`, a candidate that answers garbage twice in a row, the other one failing in between, is not suspended; no value above 1 ever suspends |
| `llm_cache` | `MCLLMCache.cfg` | 60 000 states. Races lose entries, but never the bound; an undisturbed save repairs the file; serial saves lose only the oldest |
| `bundle` | `MCBundle.cfg` | 1.5 million states. An accepted bundle describes the sources in every part, unless somebody edited during a refresh; an undisturbed refresh is never refused, whatever it found |
| `bundle_silent` | `MCBundleSilent.cfg` | *violation*: without `bundle-state.json`, an edit between the scan and the stamp of the metrics goes unnoticed |
| `events` | `MCEventLog.cfg` | 414 000 states. Appends that do not overlap, killed or not, read back in order with nothing lost, and exactly once if none was killed; overlapping ones spoil at most two lines per further writer |
| `review_command` | `ReviewCommand.cfg` | 9 300 states. A degraded result only where the options allow it; the event and the concerns artifact on disk are those of the printed result |
| `review_since_llm` | `ReviewCommandSince.cfg` | *violation*: `--since` prints an empty result with exit code 0 when the LLM cannot be reached |
| `auth` | `MCAuthSession.cfg` | 3.2 million states. Two commands at once, with failures between any two steps: who is authorized holds a verified and unexpired lease, a refusal keeps the session, commands that nothing overlaps compose, and a signature is refused only after the portal changed its key |
| `rules` | `MCRules.cfg` | 634 601 states. Seventeen invariants over the rules and the three machines of `MCRules` |
| `scope_dots` | `MCScopeDots.cfg` | *violation*: a scan of changed files reports a concern of a file that did not change, the one with the name of a changed file in a dot-directory without the dot |
| `feedback_scope` | `MCFeedbackScope.cfg` | *violation*: a feedback entry for one path and kind demotes concerns of others, whose texts contain them |

The type invariant of a module is the first conjunct of one of its checked
invariants, so that its run checks it: of `SizeBounded` (`LLMCache`), `SpoiltBounded`
(`EventLog`), `DegradedOnlyAsAllowed` (`ReviewCommand`), `RefusalKeepsSession`
(`AuthSession`), `HitsAreCurrent`, `VerifiedBinaryRuns` and `ToldSinceLastReview`
(in `Machines`). Several invariants of `MCRules` join properties that are stated
one by one in the modules: `MovesFollowTheJudge` includes `GoodAnswersKept`,
`PreflightCovers` includes `KeysTellApart` and `DefaultsKept`, `ScopeSelectsPairs`
includes `NotAlsoDuplicates`, `ResultAccounts` includes `PortfolioRanking`, and
`ScoresAreFair` is `WorseNeverBetter` and `ProgressCountsOnce`.

**Bounds.** Two candidates are the least with a failover, a suspended and a
ready one at once, and a second candidate to pass over; the first has two routes.
`transport = 2` makes one failure and the suspension different states;
`MaxFailures = 2` stops new calls only at a counter the threshold is already
below (a suspended candidate keeps being asked last, so counters grow for
ever). `MCLLMCache` has one key more than fits, and five saves: enough to fill
the file, evict, tear and repair it. Two writers of `EventLog` cover the races,
which are between pairs of system calls; six events of which two fill the file
make two rotations and a third under way, in two months. `Bundle` has one
source file with three texts and absence, two edits, and three refreshes by two
processes: a failed refresh, one that overlaps, and one that repairs.
`MCAuthSession` has two processes (symmetric), three commands, one change of the
key, leases that last two steps of time, a clock that makes one, and activation
codes of any age: a session that is refreshed, one that has expired, and a login
that replaces either while a guard holds the old one. `ScanCache` has two scanners, one file and three edits; `Dispatcher`
two processes and two uploads; `ScoreHistory` two processes, three reviews and
one component that may be good and changed, worse and changed, or unchanged: a
review that is alone, one that overlaps it or fails, and one that tells the
difference. The inputs of the rules are in `MCRules`, chosen so that each limit
is reached from both sides (thirteen modules in a group of at most twelve
candidates, six candidates for five places, a score on each side of each
threshold). `ScanLimit` is 2 there, 20 in the code, so that trees with three
concerns are cut; path 0 is path 1 in a dot-directory, changed alone, beside path
1, or not at all. Runs with such bounds stop, so they say `CHECK_DEADLOCK FALSE`;
`MCLLMFlow` and `MCRules` are checked for deadlock. `ReviewCommand` ends with its
command.

**Returning sources.** `Bundle` is run with `Returns = FALSE`: sources do not go
back to an earlier text. With `Returns = TRUE` TLC finds `AcceptedCurrent`
violated: `structure-prompt.md` is in no fingerprint, so after two refreshes that
fail at the right steps an old one is accepted again. It takes a `hippos` that
writes identical files for identical sources, which this repository cannot tell.

**What is assumed of the environment.** Every edit changes the signature of a
file (its mtime and size), and a source's mtime is the time of its edit
(`bundle_loader.py:137` takes it so); files that exist can be read; process ids
differ; nobody edits the configuration while the dispatcher creates it, and
nobody else writes into `archive/` during a move; keys of configuration files
have no white space around them; the arithmetic of scores is exact, the
values of a policy file are numbers, and `weight_by` is `churn_capped` as shipped.

**Fairness.** `LLMFlow` assumes weak fairness of `CallStep` alone: once a call
has begun it goes on, because every request ends with an answer or its timeout
and everything else is local computation. New calls, the clock, the user and
other processes owe nothing. Without `Tick` being fair, calls still return,
because a suspended candidate is asked when no other is left. The other
modules state no fairness and no liveness: their processes are commands that
may be killed at any step, and no loop or wait of theirs depends on another.

**Findings.** The five violation runs are disagreements between the code and what its
documentation, tests or configuration say; `PROJECT.json` quotes both sides.

## 4. The proofs

    tlapm Induction.tla
    for m in LLMFlow LLMCache Bundle EventLog AuthSession Machines Rules; do tlapm ${m}Proofs.tla; done

Each module of proofs begins with its inductive invariant, in named parts, and
has a lemma per action or per part; a theorem is the invariant and what follows
from it. The invariants were checked by TLC on the instances of section 3 before
they were proved. All of it holds for every value of the constants that
satisfies the assumptions named here.

*Induction* has what the other modules need to reason about data of any size. The
library's theorem of induction takes an operator as a parameter, which the provers
cannot instantiate; `SetInduction` takes a set of numbers instead, from the well-foundedness of `<` on Nat. A fold is then replaced by the chain of its values: `FoldLeft`
over n elements is the last of n + 1 values, each made of the one before it.

*LLMFlowProofs*, for every number of candidates, every policy, every set of
options, proxies and configuration states. Assumed: `N >= 1`, policies have positive
fields (`_parse_policy` clamps them), the default policy allows one parse failure
(`default_failover_policy`), and the sets are of the right kind. The inductive
invariant is `TypeOK` and four parts, one for each thing that a step must not
forget:

* `ParseInv`: no candidate has two parse failures, and the one whose answer is
  being parsed has none. `ParseFailuresBounded` is not inductive without the second
  half: a parse failure adds one to a counter that only the success just before
  it has cleared. `SuspensionJustified` is inductive given the types.
* `OrderInv`: during a run, `order` is a permutation; among the candidates not
  yet asked, everything after a suspended one is suspended; every candidate
  before `pos` has a transport failure on record. It is kept because asking
  changes only the entry at `pos`, and the clock suspends and releases nobody
  before the next `Purged`. `SuspendedAskedLast` follows.
* `FailedInv`: `UnavailableMeansAllFailed`, which holds when the last candidate
  fails by `OrderInv`, and that the result is only there between calls.
* `BusyInv`: a call under way has no result yet, for the contract.

`SuspensionIsServed` proves the action property `SuspensionServed` from the types:
of all steps, only a purge after the deadline and the answer of the candidate
itself make its entry fresh.

`KeepsContract` is the safety half of `CallContract`: the initial states map to
initial states of `LLMContract`, and each step to a step of it or to none.

*LLMCacheProofs*, for any processes, keys and capacity. Assumed: finitely many
keys, capacity at least one. `UndisturbedSaveReadable` rests on `StampInv`: no stamp
is later than the clock, hence the entry being saved is the newest and survives
the pruning (`PruningKeepsNewest`). `SizeBounded` needs that stamps differ
(`SizeInv`), which the clock of the model gives: `Pruned` keeps an entry that fewer
than `MaxEntries` are newer than, where the code cuts a sorted list, and the two
agree only without ties. `SerialSavesKept` needs
`SerialInv`: while no two saves have overlapped, the file between them, or what the one
process holds of it between `Truncate` and `Write`, has exactly the saves that
`Keeps` says; the step to prove is that adding the newest and dropping the
oldest of one too many keeps the newest of all (`Cardinality` of the kept ones by
the lemmas on `Size`).

*BundleProofs*, for any files, texts and processes. Assumed: the model values
`Absent` and `Missing` differ from the values they are no member of. `RefreshRepairs`
rests on `Alone` (during an undisturbed refresh no other one runs) and `CleanInv`:
what such a refresh has `Achieved` once it has passed each step; the last step of
`Achieved` is exactly what `Accepted` asks. `AcceptedCurrent` is proved for
`Returns = FALSE`, as it is checked (section 3 says why it fails otherwise). It
relates every part to the snapshot it was made of: what a refresh has seen is a
snapshot that the sources have had (`PastInv`), and none of these comes back; a
source no younger than the bundle state is as it was for the index
(`StateDates`); and while nobody has edited during a refresh, each refresh under
way, alone or not, has made the parts behind it from the present sources
(`Progress`), and the metrics describe one snapshot that the prompt is of too, while
index or sources still are (`MetricsOf`).

*EventLogProofs*, for any number of writers, reviews and months and any size at
which the active file is rotated. Assumed: finitely many writers, at least one.
`SpoiltBounded` is an account (`SpoiltInv`): the events that cannot be read, and two
for each writer that opened the active file while it was empty and has not
written yet (`Late`), are at most two per writer but one: the first write of a
late one spoils nothing, each other write moves two from one side of the account
to the other. `SerialEventsAreKept` says that while no two appends have
overlapped the lines of the files are exactly the events that were logged: nothing
else ever gets into a file (`OnlyLogged`), and the one writer finds the files as it
left them at every step of the rotation (`Halfway`), so that the active file is
unlinked only when all its lines are in the rotated one.

`LogIsReadBack`, `LogIsExact` and `LastEventsAreRead` are about the order in which
`ReadEvents` returns the events, and add four parts to the invariant (`ReadInv`), all
of them for appends that have not overlapped. Files have whole lines (`CleanInv`), so
that what is parsed of two joined files is what is parsed of each (`JoinedLines`).
Nothing is rotated into a month later than the clock's (`MonthInv`), so that a rotation
appends to the last of the files that are read (`RotatedAppend`). No event is
logged twice (`FreshInv`). And what is read `Tells` what was logged (`OrderInv`): every event logged is
read, none before those logged earlier, and none further from the end than it was
logged. Equality would not do, because a kill between the copy and the unlink of a rotation
leaves a file twice; `Tells` is what such a copy keeps (`TellsTwice`), what one more
append keeps (`TellsOneMore`), and enough for the three theorems: without its repetitions
it is the log (`TellsDeduplicated`), and its last events are the last logged. Before the
unlink the rotated files must tell the log alone, which is the last line of `OrderInv`.

*MachinesProofs*, about `ReviewCommand`, for every command line and every failure. The program is
a list of steps that are left; the invariant says of each list that can be left
how far the run has come: which kinds of review it may be of (`Route`), for which
reason it went over to the static one (`Leave`), which failures cannot have
happened (`Unspoilt`), and what is on disk by then (`Written`, `Logged`). The three
properties, which speak of the end of a run, are its last line.

*AuthSessionProofs*, for any processes, number of commands, changes of the key
and life of a lease. Assumed: bounds are natural numbers and `None` is no process,
number or lease. Beside types that say which locals are live at which step
(`KindInv`, `Values`) the invariant counts: the numbers of install ids and logins stay
below the number of commands because each command that may still draw one is
counted with them (`Count`). The rest speaks only of the command that no other
has overlapped (`LoneInv`): a guard keeps the session it found until the refreshed
lease was verified, and a key that it fetched is no older than the lease it
checks (`AccountInv`), from which a refused signature is of an older key; a login
touches nothing before it has an answer, and then its key is no older than its
lease (`LoginInv`). What other commands left before, overlapping or killed, is
arbitrary in it, as far as the types go.

*MachinesProofs* also has the three machines of `Machines`, for any scanners, files and edits, any dispatchers and uploads,
any processes, components, findings and reviews (`MachinesAssumption`: the bounds are
natural numbers, there is an upload and a finding).

* `HitsAreCurrent`: an entry is `Sound`, its signature is of an edit that was made and
  it was collected from that edit if that still is the last one; edits never
  make a sound entry unsound, because their numbers are new. A scanner between
  its two reads holds a file whose functions are of the edit of its signature, if
  that still is the last one (`SoundScan`).
* `VerifiedBinaryRuns`: the temporary file is that of one process (`Fetched`), the target
  is never a part of a binary (`Target`), and while dispatchers do not overlap the
  marker is not newer than the binary, which a kill between `Rename` and `Mark` leaves
  behind it (`OneByOne`); the last is why a marker with the right checksum may be
  believed. `CredentialsKept`: between `CreateConfig` and `FillConfig` the file is the
  process's own (`Config`).
* `ToldSinceLastReview`: what is known of the last reviews that were alone is in the
  files (`KnownInv`) unless a process has opened them and not written; a review that
  is alone finds them as these left them until it opens them (`FilesInv`), and what it
  compares with them is what it tells (`ToldInv`). The registry holds more than what is
  known, hence `Agrees` instead of equality, and lemmas that trends and updates of
  agreeing registries agree.

*RulesProofs*, about nine rules, for inputs of any size, any limit and any
function for `Stripped`. Each theorem has the
form `Input => Property`, where `Input` says what the program's inputs are, and the
inputs that `MCRules` picks satisfy it.

* `GroupsReportedOnce` (`DuplicatesInput`: finitely many functions, told apart by file and
  line). The sorted functions of a set are listed once each, and begin with the first of
  them (`InOrderLists`), so that a function has another one of its group as its reference
  (`ReferenceIsOther`), and the pair that stands for a family leaves out the family's first
  (`ChosenPair`: of the pairs that are not thin it is the least, and a pair is as thin as its
  reverse). A group that the scope names has a result unless each of its functions is of a
  family that is not in the scope, which the family's one file excludes (`SomethingIsFound`);
  with no room for that result, as many concerns are returned as may be (`NothingIsDropped`).
  A name is what `Stripped` makes of a changed path: the theorem says what a scan selects,
  `scope_dots` that it is not always what changed. A concern of a full run is about a
  family or about a function and the first of the group (`ConcernForms`); of two that share a
  member the only dangerous case is a family that holds the first of the group, and there it is
  the family's first too (`FirstOfFamily`), which is never reported.
* `ScopeSelectsPairs` (`ShadowsInput`: finitely many files and definitions, told apart by path and
  line, of finitely many nodes). No test of a match tells the two apart: every similarity is built
  from measures that are symmetric (`DotIsSymmetric`, by a bijection of the pairs of nodes;
  `JaccardIsSymmetric`, `ClosenessIsSymmetric`), and so is every exclusion (`PairHasNoOrder`,
  `ModulesHaveNoOrder`). Hence a scope changes which of two is the duplicate and nothing else
  (`ConcernOfPair`, `ScopeSelects`), and what the sort puts behind the limit is no more certain
  than what comes before it (`LimitLeavesOut`). A pair of duplicates is two definitions of the tree with one
  fingerprint (`FunctionIsDefined`, `SamePlace`), which no match has (`ShadowsAreNoDuplicates`).
* `FilesSurvive` (`DiskInput`: finitely many files and judgments). Applying a plan is a
  fold over its actions; `MovesOneByOne` makes it a chain of states of the disk, in
  which the state `DiskStates` bounds the possible values. Each link is `Intact`: it has the
  contents of the first state and as many files, so that no move wrote over another
  file. The tree of the plan and the disk it is applied to are unrelated: the disk may
  have changed in between.
* `MovesFollowTheJudge` (`CleanupInput`: paths are sequences of numbers that stand for
  their parts, judgments have paths and a numeric confidence). Inventory, pool, judgments and
  actions are sorted sets, so the first thing to prove is that a sorted sequence has
  the elements of its set: `RankedSet`, for a finite set with a strict total order, by
  counting; and that the order of paths is one (`LessOrders`), as are those by confidence
  and by decision. Then each stage is of elements of the one before: `InventoryElements`,
  `PoolElements`, `JudgmentElements` (a judgment kept is one of the answer about a candidate, with its
  decision normalized), `ActionElements` (an action is of a judgment to archive something that is no
  source, with a text that begins as the archive's paths do). A text names the archive or a place
  below it, parts that are empty or "." left out (`ArchivePlaces`, `Applications`). Along the chain of moves every file is in place or archived by an
  action that names it, and without a blocked or skipped action all that are named are archived
  (`MovesArchive`).
* `PlanGaps` (`PlanInput`: names of modules and paths are sequences of words, no planned
  module is empty). Ids differ because those of one kind are built from different facts
  (`PathConcerns` where the patterns could collide: a path without a bracket matches
  itself, and so is not missing); more changes miss less because each gap is the absence
  of a match.
* `SectionsCombine` (`SectionsInput`: finitely many entries, dates are numbers). The
  entries of both sections are the elements of a concatenation; the metadata of a candidate
  is a fold of layers over it, made a chain (`LayersOneByOne`), of which the own section's
  part starts from what the shared part left, and goes `Over` it field by field (`LayersOver`).
  An expired date is one before now at every link (`Dated`).
* `PlanIsSound` (`TopologyInput`: module names have a word, reviews are lists; the tables by
  `TablesAssumption`). A file is a candidate of one group at most (`OneGroupEach`), so that a
  review of another group does not reach it (`FateInGroup`, `FateAlone`). Whatever votes on a
  file names a folder (`VotesAreNamed`): by the first row of a table that fits, or by
  the words of its name, of which the first one stays (`FirstRowFits`, `FirstWordStays`). Hence only the answer of the LLM leaves a file without one, and a
  silent answer, or one that agrees, changes nothing (`UnreviewedPlacement`, `LatestIsOne`).
* `PlanFitsTheWork` (`RetireInput`: candidates have a path, a confidence and finitely many
  words; a changed file is of one component). A candidate that shares a component of the work has a
  relevance of at least 300, one that has nothing to do with it of at most 260 (`Relevances`), so
  the first comes earlier in the sorted list, and a list that is cut behind the second has both
  (`FocusComesFirst`). The plan of a diff is made of flagged entries (`FlaggedEntries`), each with its
  transient files alone if it has some (`FilesOfEntry`).
* `PreflightCovers` (`ConfigInput`: the lists in a file are lists). A path that the user's file does
  not speak of has the value of the package's after the merge (`UntouchedIsKept`), so that the
  call it is about asks the tier of the package (`UntouchedTier`); another call left in
  that tier was checked (`CheckedInTier`), and has the same candidates. Candidates that nobody gave a key get
  one with their tier and place in it (`TierKeysDiffer`, `KeysDiffer`).
  The proof corrected the property: it used to ask of a call that is not checked only that its own
  tier be untouched. That is too little: a file that moves both the history and the
  summary of the strong tier elsewhere leaves the semantic judge alone there, and then nothing
  checks that this tier has candidates (section 7).

**Only model-checked.** Liveness (the fair half of `CallContract`) and ENABLED, which
are out of the prover's reach; and four rules of `MCRules`, over its inputs:
`ResultAccounts`, `FeedbackHonoured`, `AdviceNamesTheCause` and `ScoresAreFair`. Their modules filter and sort with `SelectSeq` and `SortSeq`, which
the provers cannot unfold (the modules of the nine rules above use `Selections` instead), and
scores are sums and quotients of products of variables, which they do not decide.

## 5. Plan

To prove next, in the order of what they say: the demotions of `Feedback`, over
`Selections`; then
`RefusalKeepsSession` for a command that others overlap, as far as it holds; and the
refinement of an abstract log by `EventLog` while appends do not overlap, for which
`LogReadsBack` is the refinement mapping.

Still to model, should it be worth it: a reader of the snapshot beside the
refreshes of `Bundle`; the files git reports as changed; the batches of tests;
the refresh decider, when a command calls it; `ReviewCommand` over the promises
of `LLMContract` and `Bundle` instead of bare nondeterminism.

## 6. Not modelled

Prompts, wording, layout and translation (`i18n.py`, `reporting/`, the text of
advice), which no property is about; the parsing of YAML and Markdown and the
repair of JSON text, whose outcome is a choice of the environment; similarity and
ranking heuristics over names (`feature/`, `descriptors/`), functions of
strings; the governance dimensions and the hotspot digest, weighted sums of
floats that are not meant to be monotone (one more small hotspot may raise an
average, a candidate with full metadata raises the score); the refresh decider,
the gate, the baseline and the orchestrator, which no command calls (only their tests do);
self management, which runs an installer or removes a fixed list of paths; the
installation and release scripts. `PROJECT.json` lists every part with its
status.

## 7. Behaviour worth knowing

What the modelling brought up that no run claims as a violation, because
nothing in the repository promises otherwise or a promise is too vague to check.

*LLM configuration.* The preflight checks neither `architect_component_scoring`
nor `architect_semantic_judge` (`cli.py:305-312`), which reviews ask: a user's
tier without candidates for them passes and becomes a failure at run time. For the judge
no own tier is needed: moving the history and the summary to another tier, of which the
preflight asks, leaves the tier of the judge unchecked.
`architect_folder_naming` is checked and never asked. The shorthand
`tiers: strong: {model: m}` is ignored without `candidates` (`config.py:256-262`).
One own tier suppresses all tiers of the gateway; an own `providers.llmgateway`
hides the gateway's provider, and its tiers are used nevertheless. `${X:-d}` with
X set to nothing gives nothing. The file of the project replaces the user's. A
section emptied by a bare key (`tasks:`) drops the defaults. Explicit candidate
keys may collide. An answer is cached under the hint of the first resolution, so
that after a failover the same prompt is asked again.

*Scanners and plans.* `load_plan_review` raises on an unreadable plan; a plan that
`run_plan_review` generates has no tests, migrations or intent checks, which the
plan-diff scan reads (`plan_review/public.py:128`). Brackets in path ids are
read as patterns (`plan_diff_consistency.py:313-323`). A file that is not UTF-8 ends
the review where only `OSError` is caught. A scoped near-duplicate finding compares
with the first other member alone. The scans return `concerns[:limit]`: the near-duplicate
one records no number of concerns before the cut, nor by what order it cut. A plan
with nothing but imports flags every changed file. Default ids of contract
rules collide between sections. A coverage percentage of at most 1.0 is read as
a ratio (`risk_context.py:38-52`).

*Cleanup and topology.* Archived files enter the inventory again; an expiry date
without a time expires at its first moment; nearly every candidate has some
relevance for a retire plan; no command calls autofix. Its test of a hint lets
"archive/" through (`autofix.py:48`): the first file so judged becomes a file named
`archive`, reported as applied, and the next move below it raises, which ends the plan. A grouped file moves to its own folder,
so the folder of its group may stay empty and the target unlisted
(`repo_topology_migration.py:126-153`); a file under "review" moves with its
group (`:128`); the thirteenth file of a group is treated as alone; a group
review whose folder is white space counts as accepted; `__init__.py` moves when
the LLM says so; files that exist at the target are not looked at.

*Scores and history.* The ledger and the registry are rewritten before the LLM
is asked (`history_analyzer.py:170`, `component_scoring.py:87`), so a review that fails
afterwards uses up the "new since last" and the bonus for improvement; running
it again on the same tree may change the recommendation. Improvements of a point
or less per review are never credited. One blocked component with fewer than
three critical findings does not block the overall result. `changed_files`
leaves out untracked files whenever a tracked one changed, ignores a base
without a head, and takes a git failure for an empty change
(`component_scoring_git.py:23-70`). The gate advises `archi status --snapshot`, which
writes another file than the baseline it reads.

*Dispatcher.* A kill between `openSync("wx")` and the write leaves an empty
configuration that is never repaired. When two first runs overlap an upload, the
marker of the newer binary may stand beside the older one, which is then started
without a look at its hash (`archi-dispatcher.js:342`).
