SPECIFICATION Spec
CONSTANTS
  torch = torch
  triton = triton
  flashinfer = flashinfer
  Hidden = {torch}
  Caches = {torch, triton, flashinfer}
  Settings <- EverySetting
  MaxPods = 2
  MaxFaults = 3
INVARIANTS
  TypeOK
  SoundButForExcused
  RestartsCleared
