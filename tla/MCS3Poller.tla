----------------------------- MODULE MCS3Poller -----------------------------
EXTENDS S3Poller

(* A key with an unknown suffix may turn up in the second directory.       *)
MCUploadedKinds == [v \in 1..MaxVolume |-> {"Intermediate", "End"} \cup (IF v = 2 THEN {"Other"} ELSE {})]
=============================================================================
