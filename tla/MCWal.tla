------------------------------- MODULE MCWal -------------------------------
(***************************************************************************)
(* A small instance of Wal: of a file of 40 bytes, one payload fills half, *)
(* one fills it exactly, and one is larger than a file.                    *)
(***************************************************************************)
EXTENDS Wal
=============================================================================
