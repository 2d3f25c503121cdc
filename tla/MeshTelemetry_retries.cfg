\* Up to five spans or failures: chunks, retries, late and lost requests.
CONSTANTS
  Signer = "mesh:sentra"
  MaxSpans = 5
  MaxFailures = 3
CONSTRAINT FiveSpansOrFailures
SPECIFICATION Spec
INVARIANTS EverySpanAccounted ReceiptsAreBacked TsAcceptsExactly PyMissesNothing CleanDeliveryVerifies ShippedSpansCovered
CHECK_DEADLOCK FALSE
