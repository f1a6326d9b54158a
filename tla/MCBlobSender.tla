---------------------------- MODULE MCBlobSender ----------------------------
(* Small instances of BlobSender for TLC. *)
EXTENDS BlobSender

CONSTANT b1
=============================================================================
