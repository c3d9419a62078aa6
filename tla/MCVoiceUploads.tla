---------------------------- MODULE MCVoiceUploads ----------------------------
(* Small instances of VoiceUploads. *)
EXTENDS VoiceUploads, TLC
=============================================================================
