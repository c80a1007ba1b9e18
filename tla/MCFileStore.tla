---------------------------- MODULE MCFileStore ----------------------------
(* One host and its files, on their own: one transfer, longer than the     *)
(* write buffer.                                                           *)
EXTENDS FileStore
=============================================================================
