-------------------------- MODULE MCUploadPipeline --------------------------
(* UploadPipeline for TLC: a folder with a file, and a folder in it with two more. *)
EXTENDS UploadPipeline

CONSTANTS root, sub, f1, f2, f3

InSub == [e \in (File \cup Dir) \ {root} |-> IF e \in {f2, f3} THEN sub ELSE root]
=============================================================================
