---------------------------- MODULE MCDataCollect ----------------------------
(* A board with small files, one channel and one FTP session.              *)
EXTENDS DataCollect
=============================================================================
