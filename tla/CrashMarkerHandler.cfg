SPECIFICATION Spec
CONSTANTS
  torch = torch
  triton = triton
  flashinfer = flashinfer
  Hidden = {torch}
  Caches = {torch, triton, flashinfer}
  \* Settings <- RmFails and Settings <- Lingering are violated too.
  Settings <- Terminated
  MaxPods = 0
  MaxFaults = 2
INVARIANTS
  RunsOnSoundCaches
