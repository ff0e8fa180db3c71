------------------------------ MODULE Machines ------------------------------
(***************************************************************************)
(* Three parts of the system that keep files between commands and have     *)
(* nothing else in common: scanners over their cache, the npm dispatcher,  *)
(* and reviews over what is recorded of the last ones.                     *)
(***************************************************************************)
EXTENDS Integers

CONSTANTS
    Scanners, Files, MaxEdits,                     \* of ScanCache
    Dispatchers, MaxUploads,                       \* of Dispatcher
    Reviewers, Components, Findings, MaxReviews    \* of ScoreHistory

ASSUME MachinesAssumption ==
    MaxEdits \in Nat /\ MaxUploads \in Nat \ {0} /\ MaxReviews \in Nat /\ Findings # {}

VARIABLES
    disk, edits, cache, scans,                                               \* of ScanCache
    asset, sums, config, target, marker, temp, pc, expected, own, overlap,   \* of Dispatcher
    project, ledger, registry, review, begun, known                          \* of ScoreHistory

scVars == <<disk, edits, cache, scans>>
dpVars == <<asset, sums, config, target, marker, temp, pc, expected, own, overlap>>
shVars == <<project, ledger, registry, review, begun, known>>

SC == INSTANCE ScanCache
DP == INSTANCE Dispatcher WITH Procs <- Dispatchers
SH == INSTANCE ScoreHistory WITH Procs <- Reviewers

-----------------------------------------------------------------------------
(* Properties. *)

\* scan_cache.py: what is taken from the cache is what the file holds.
HitsAreCurrent == SC!TypeOK /\ SC!HitsAreCurrent

\* archi-dispatcher.js: only whole binaries are started, and without overlap the
\* one that the checksum of the release is of.
VerifiedBinaryRuns == DP!TypeOK /\ DP!VerifiedBinaryRuns

\* archi-dispatcher.js: the configuration of the user is kept.
CredentialsKept == DP!CredentialsKept

\* history_analyzer.py and component_scoring.py: a review that had the files for
\* itself tells what changed since the last ones.
ToldSinceLastReview == SH!TypeOK /\ SH!ToldSinceLastReview
=============================================================================
