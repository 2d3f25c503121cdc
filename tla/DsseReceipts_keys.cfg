\* One envelope, sealed with whatever key is mounted.
CONSTANTS
  NoReport = NoReport  NothingRelayed = NothingRelayed
  Bodies = {1}  PayloadTypes = {"pinn", "quorum"}  PINN_PAYLOAD_TYPE = "pinn"
  MaxSeals = 1  MaxAlterations = 0
SPECIFICATION Spec
INVARIANT SignedIsVerifiable
CHECK_DEADLOCK FALSE
