------------------------------ MODULE MCFileStore ------------------------------
(* Three writers of one record.                                            *)
EXTENDS FileStore

CONSTANTS w1, w2, w3
=============================================================================
