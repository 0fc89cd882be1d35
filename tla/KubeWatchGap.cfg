\* One kind, one change: enough for a change to fall between two watches.
CONSTANTS
  pods = pods
  services = services
  Kinds = {pods}
  MaxChanges = 1
SPECIFICATION Spec
PROPERTIES
  ChangesAreReported
