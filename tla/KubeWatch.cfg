\* Two kinds share the debouncer, one change of each.
CONSTANTS
  pods = pods
  services = services
  Kinds = {pods, services}
  MaxChanges = 1
SPECIFICATION Spec
INVARIANTS
  NoTriggerDropped
PROPERTIES
  DeliveredIsReported
  WatchIsReopened
  CancelledReturns
