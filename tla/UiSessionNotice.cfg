\* A notification that fails, and the session it should close.
SPECIFICATION Spec
CONSTANTS
  Notices = {n1}
  Nobody = Nobody
  Capacity = 1
  MaxEntries = 1
PROPERTIES FailedNoticeClosesSession
CHECK_DEADLOCK FALSE
