SPECIFICATION Spec
CONSTANTS
  Clients = {a, b}
  Users = {u}
  service = service
  log = log
  Registries = {service, log}
  RegisterOrder <- InRegisterOrder
  UndoOrder <- InLeaveOrder
  StopOrder <- InLeaveOrder
  Nobody = Nobody
PROPERTY SessionUndisturbed
CHECK_DEADLOCK FALSE
