\* One notification, two entries, channels of one event.
SPECIFICATION Spec
CONSTANTS
  Notices = {n1}
  Nobody = Nobody
  Capacity = 1
  MaxEntries = 2
INVARIANTS UiTypeOK ClosedOnce
PROPERTIES NothingAfterClosed GoneClientClosesWindow ClosedWindowIsTold
CHECK_DEADLOCK FALSE
