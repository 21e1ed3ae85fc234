\* Two pages; two events out of switches, changes, failures, lost connections
\* and pages that stall.
SPECIFICATION LiveSpec
CONSTANTS
  page1 = page1  page2 = page2
  view1 = view1  view2 = view2
  None = None
  Pages = {page1, page2}
  Views = {view1, view2}
  Places = 1
  Initial = view1
  MaxEvents = 2
INVARIANTS TypeOK
PROPERTIES OldViewsRunOut ShowsActiveInTheEnd
