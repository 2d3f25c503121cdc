\* Two spans, the second emitted while the first is aggregated.
CONSTANTS
  Signer = "mesh:sentra"
  MaxSpans = 2
  MaxFailures = 0
SPECIFICATION Spec
INVARIANT OneCheckPerBatch
CHECK_DEADLOCK FALSE
