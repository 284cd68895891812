--------------------------- MODULE MCRtpReceiver ----------------------------
(***************************************************************************)
(* The receiver with a few frames.  MCRtpReceiver.cfg limits the run with  *)
(* max_frames; MCRtpReceiverStop.cfg asks whether a stop reaches the       *)
(* decode thread.                                                          *)
(***************************************************************************)
EXTENDS RtpReceiver

=============================================================================
