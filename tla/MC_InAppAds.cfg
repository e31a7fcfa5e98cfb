\* Overlapping requests of the staff on up to three ads, two of them looked at; one driver.
SPECIFICATION FairSpec
CONSTANTS
  Drivers = {d1}
  Windows = {1}
  Requests = {1, 2}
  NewAds <- MC_NewAds
  Edits <- MC_Edits
  Buckets = {0, 99}
  Take = 2
  MaxAds = 3
  MaxSlides = 2
  MaxTime = 1
  MaxClicks = 3
  MaxLost = 1
INVARIANTS WindowSound SlidesInOrder DismissedStays
PROPERTIES StaysOff EachSeen
