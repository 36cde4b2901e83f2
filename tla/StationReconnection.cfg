SPECIFICATION Spec
CONSTANTS
  AutoReconnectMaxRetries = 1
  RegistrationMaxRetries = 1
  MaxSockets = 2
  MaxResets = 0
  MaxAsked = 0
CHECK_DEADLOCK FALSE
PROPERTY ReconnectionRestartsSequence
