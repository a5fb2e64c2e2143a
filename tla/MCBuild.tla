------------------------------ MODULE MCBuild ------------------------------
(***************************************************************************)
(* Two interpreters: the extension is named after the interpreter, the     *)
(* other file is not.                                                      *)
(***************************************************************************)
EXTENDS Build, TLC

CONSTANTS py1, py2

MCFilesOf(p) == {"ohbother.py", IF p = py1 THEN "cpython-311.so" ELSE "cpython-312.so"}
=============================================================================
