\* All policies applied: what their comments say is let through.
CONSTANT MaxRefused = 0
SPECIFICATION Spec
INVARIANT AllowRulesAllow
CHECK_DEADLOCK FALSE
