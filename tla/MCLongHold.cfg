SPECIFICATION FairLongSpec
CONSTANTS
  SOFT_DISABLE_FRAMES = 2
  MISMATCH_MAX = 3
  EventSets <- MCEventSets
  CRZ_CTRL_LATCH_FRAMES = 1
  HOLD_REQUEST_FRAMES = 3
  CRZ_CTRL_PASSIVE_FRAMES = 4
  RESUME_RELEASE_FRAMES = 2
  CRZ_INFO_RESUME_PHASE_FRAMES = 1
  CRZ_CTRL_RESUME_REACTIVATE_FRAMES = 1
  RES_STEP = 2
  LONG_COMMAND_STEP = 2
  HOLD_BRAKE_CMD_TARGET <- MCHoldBrake
  HOLD_LATCHED_CMD_TARGET <- MCHoldLatched
  NEAR_STOP_BRAKE_CMD_TARGET <- MCNearStop
  NEAR_STOP_ENTRY_SPEED = 10
  vEgoStarting = 1
  Requests <- MCRequests
  Inputs <- MCInputs
INVARIANTS
  SoftDisableIsBounded
  StopBitsMeanBraking
PROPERTIES
  BrakeRelaxesAfterLatch
  HoldEndsForCause
  WithdrawalReachesCar
