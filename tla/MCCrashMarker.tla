---------------------------- MODULE MCCrashMarker ----------------------------
(* One pod slot with three caches.                                          *)
EXTENDS CrashMarker

CONSTANTS torch, triton, flashinfer

EverySetting == SUBSET Circumstances
RmFails == {{"rm-fails"}}
Lingering == {{"stragglers"}}
Terminated == {{"terminated"}}
=============================================================================
