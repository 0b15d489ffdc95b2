SPECIFICATION Spec
CONSTANTS
  google = google
  first = first
  second = second
  w1 = w1
  w2 = w2
  Elsewhere = Elsewhere
  Gone = Gone
  FirstName = google
  Names = {google, first}
  Requested = {first}
  Recommendations = {1, 2}
  Routes = {3}
  Trips = {}
  PageSize = 1
  Workers = {w1, w2}
  MaxRequests = 2
  MayRefresh = FALSE
CHECK_DEADLOCK FALSE
 
PROPERTIES CheckpointNeverRewinds
