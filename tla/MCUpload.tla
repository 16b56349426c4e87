------------------------------- MODULE MCUpload -------------------------------
(* Small instances of Upload: a plain and a compressed upload.              *)
EXTENDS Upload, TLC

CONSTANTS plain, packed

MCSizes == [u \in Uploads |-> IF u = packed THEN 1 ELSE 2]
=============================================================================
