-------------------------- MODULE MCStreamingWorker --------------------------
(* TLC instances of StreamingWorker.                                        *)
EXTENDS StreamingWorker
=============================================================================
