\* The default-deny and its allow-rules, with nothing refused.
CONSTANT MaxRefused = 0
SPECIFICATION Spec
INVARIANT NoBareDeny
CHECK_DEADLOCK FALSE
