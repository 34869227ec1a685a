\* The pages next to the application's are freed with them.
SPECIFICATION Spec
CONSTANTS
  Platforms = {"minios"}
  Requests <- Sizes
  Frames = 6
  PageSize = 2
  ULONG = 32
  MapFailed = MapFailed
PROPERTIES FreesItsOwn
CHECK_DEADLOCK FALSE
