-------------------------- MODULE MCFileLifecycle --------------------------
(* The instance of FileLifecycle for TLC: one file, which may be an image or *)
(* a document.                                                               *)
EXTENDS FileLifecycle, TLC

=============================================================================
