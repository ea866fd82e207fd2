--------------------------- MODULE MCFileTransaction ---------------------------
(* Instances of FileTransaction for TLC.                                    *)
EXTENDS FileTransaction
================================================================================
