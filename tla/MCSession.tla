----------------------------- MODULE MCSession ------------------------------
(* Session for TLC: one format, or an encoder with a fixed and one without  *)
(* a fixed block size; writes of one length.                               *)
EXTENDS Session

OneFormat == {"pcm"}
TwoFormats == {"pcm", "opus"}
Opus == {"opus"}
NoneFixed == {}
OneLength == {256}
=============================================================================
