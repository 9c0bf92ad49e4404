SPECIFICATION Spec
CONSTANTS
  clash = clash verge = verge runtime = runtime profiles = profiles
  ports = ports patch = patch tun = tun update = update switch = switch
  webdav = webdav restore = restore m1 = m1 m2 = m2 m3 = m3 edit = edit undone = undone
  NoWrite = NoWrite
  Kind <- KindOf
  On <- LayersOf
  Layers = {verge}
  Writes = {patch, webdav}
  Locked = {patch}
CHECK_DEADLOCK FALSE
INVARIANTS FailedPatchRollsBack
