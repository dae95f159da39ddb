SPECIFICATION Spec
CONSTANTS
  Devices = {1, 2}
  Configured = {2}
  Commands = 2
  Retries = 1
  BusRecovery = TRUE
  Threshold = 2
  MaxEvents = 2
INVARIANTS
  TypeOK
  AlertNeverForgotten
PROPERTIES
  FaultReported
  DeviceStateSettles
  ControllerRecovers
