---------------------------- MODULE MCFrameCodec ----------------------------
(* Bounds for the line decoder: see MCFrameCodec.cfg.                      *)
EXTENDS FrameCodec
=============================================================================
