-------------------------------- MODULE MCArgs --------------------------------
(* Args with a few names and numbers, two of which are the same number. *)
EXTENDS Args

MCNumberOf == [w \in {"0", "9600", "+9600"} |-> IF w = "0" THEN 0 ELSE 9600]

MCWords == Flags \cup DOMAIN ModeOf \cup DOMAIN MCNumberOf \cup {"ttyA"}
===============================================================================
