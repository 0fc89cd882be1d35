\* One list of two pages.
CONSTANTS
  pods = pods
  jobs = jobs
  Lists = {pods}
  NoList = NoList
  Pages = 2
  MaxSwitches = 0
CHECK_DEADLOCK FALSE
SPECIFICATION Spec
PROPERTY PagesStay
