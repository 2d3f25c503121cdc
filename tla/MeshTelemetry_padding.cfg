\* Three spans, the last one delivered twice: duplicate-last padding.
CONSTANTS
  Signer = "mesh:sentra"
  MaxSpans = 3
  MaxFailures = 1
SPECIFICATION Spec
INVARIANT PyAcceptsExactly
CHECK_DEADLOCK FALSE
