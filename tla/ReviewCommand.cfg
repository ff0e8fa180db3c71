SPECIFICATION Spec
INVARIANTS DegradedOnlyAsAllowed EventIsOfTheOutput ArtifactIsOfTheOutput
\* The command ends.
CHECK_DEADLOCK FALSE
