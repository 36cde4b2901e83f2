SPECIFICATION Spec
CONSTANTS
  AutoReconnectMaxRetries = 1
  RegistrationMaxRetries = 1
  MaxSockets = 2
  MaxResets = 1
  MaxAsked = 1
CHECK_DEADLOCK FALSE
INVARIANTS
  NoTimerWithoutSocket
  DisconnectedIsRecovering
  UnregisteredIsBooting
