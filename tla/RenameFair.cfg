SPECIFICATION FairSpec
CONSTANTS
  google = google
  first = first
  second = second
  w1 = w1
  w2 = w2
  Elsewhere = Elsewhere
  Gone = Gone
  FirstName = google
  Names = {google, first}
  Requested = {first}
  Recommendations = {1}
  Routes = {2}
  Trips = {}
  PageSize = 1
  Workers = {w1}
  MaxRequests = 2
  MayRefresh = TRUE
CHECK_DEADLOCK FALSE

PROPERTIES RenameSettles
