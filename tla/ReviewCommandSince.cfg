SPECIFICATION Spec
INVARIANT LLMFailureNeedsConsent
CHECK_DEADLOCK FALSE
