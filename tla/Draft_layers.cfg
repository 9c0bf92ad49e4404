SPECIFICATION FamiliesSpec
CONSTANTS
  clash = clash verge = verge runtime = runtime profiles = profiles undone = undone
  ports = ports patch = patch tun = tun update = update switch = switch
  webdav = webdav restore = restore m1 = m1 m2 = m2 m3 = m3 edit = edit
  NoWrite = NoWrite
  Kind <- KindOf
  On <- LayersOf
  Layers = {clash, verge, runtime, profiles, undone}
  Writes = {ports, tun, update, edit, restore, m1, m2, m3}
  Locked = {ports, tun}
CHECK_DEADLOCK FALSE
INVARIANTS TypeOK CommittedStays
PROPERTIES EveryWriteEnds ModifyOverwritesNothing
