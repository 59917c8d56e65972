---------------------------- MODULE MCSyncSource ----------------------------
(***************************************************************************)
(* Small instance of SyncSource: a Linux build with JACK-MIDI and the ALSA *)
(* sequencer; one more driver is asked for.                                *)
(***************************************************************************)
EXTENDS SyncSource

MCSupported == {"JACK-MIDI", "ALSA-Sequencer"}

MCAsked == MCSupported \cup {"PORTMIDI"}
=============================================================================
