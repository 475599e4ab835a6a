SPECIFICATION FairSpec
CONSTANTS
  Layer = {l1, l2}
  Job = {j1, j2}
  NoJob = NoJob
  User = User
  UserLayers = {l1}
INVARIANTS WaitsForItsLoads
PROPERTIES LoadedMeansLoaded MixAnnounced
