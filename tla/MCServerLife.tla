---------------------------- MODULE MCServerLife ----------------------------
(* Three names of presets, two of which share a path, and one category; one *)
(* address and one other user name; a configuration and a database of the   *)
(* oldest version.                                                          *)
EXTENDS ServerLife

\* SanitizePathSegment: a colon becomes an underscore.
Sanitized == [n \in Names |-> IF n = "a:b" THEN "a_b" ELSE n]
SanitizedCategory == [c \in Categories |-> c]
=============================================================================
