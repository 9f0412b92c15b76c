--------------------------- MODULE MCMemorySearch ---------------------------
(***************************************************************************)
(* MemorySearch with a content found by its meaning only, one found both   *)
(* ways and one found by its words only.                                   *)
(***************************************************************************)
EXTENDS MemorySearch

Close == [x \in Contents |-> CASE x = "a" -> 2 [] x = "b" -> 1 [] OTHER -> 0]
Words == [x \in Contents \ {"a"} |-> IF x = "b" THEN 1 ELSE 2]
=============================================================================
