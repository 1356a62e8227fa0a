----------------------------- MODULE MCPiiText -----------------------------
(* A text of four characters with at most three matches: two types of the  *)
(* highest level, one of them blocked by name, and one below it.           *)
EXTENDS PiiText

MCTypes == {"ssn", "ip", "email"}
MCLevelOf == [t \in MCTypes |-> IF t = "email" THEN 2 ELSE 3]
MCFinds == {{}} \cup {{d, e, f} : d, e, f \in Entities}
=============================================================================
