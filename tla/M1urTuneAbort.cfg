\* Spec 4.4 step 3 against the retry of a failed is_pll_locked call.
CONSTANT PollMax = 50
SPECIFICATION Spec
INVARIANT AbortOnAccessFailure
