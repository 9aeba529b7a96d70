---------------------------- MODULE MCIdeBridge ----------------------------
(***************************************************************************)
(* A file that may be attached and one that may not.                        *)
(***************************************************************************)
EXTENDS IdeBridge

LanguageOfFile == [f \in Files |-> IF f = ".env" THEN "properties" ELSE "python"]
=============================================================================
