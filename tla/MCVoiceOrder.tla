---------------------------- MODULE MCVoiceOrder ----------------------------
(* Instances of VoiceOrder for TLC.  Intents, threads and prices are only  *)
(* compared, so they are interchangeable.                                  *)
EXTENDS VoiceOrder, TLC

VoiceSymmetry ==
    Permutations(Intent) \cup Permutations(Thread) \cup Permutations(Price)
=============================================================================
