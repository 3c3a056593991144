--------------------------- MODULE MCCommandStore ---------------------------
(***************************************************************************)
(* Two commands that read both documents and write one, each only if the   *)
(* other document is still 0: run on one snapshot they would both write.   *)
(* The first is sent twice with the same key; a third call uses that key   *)
(* for the other request.                                                  *)
(***************************************************************************)
EXTENDS CommandStore

MCCall == {"first", "again", "rival", "reused"}
MCKey == {"k1", "k2"}
MCRequest == {"setX", "setY"}
MCDoc == {"x", "y"}
MCValue == {0, 1}

MCKeyOf == [c \in MCCall |-> IF c = "rival" THEN "k2" ELSE "k1"]
MCRequestOf == [c \in MCCall |-> IF c \in {"first", "again"} THEN "setX" ELSE "setY"]
MCWrites == [r \in MCRequest |-> IF r = "setX" THEN {"x"} ELSE {"y"}]
MCInitDocs == [d \in MCDoc |-> 0]
MCEffect ==
  [r \in MCRequest |-> [s \in [MCDoc -> MCValue] |->
    IF r = "setX" THEN IF s["y"] = 0 THEN [s EXCEPT !["x"] = 1] ELSE s
                  ELSE IF s["x"] = 0 THEN [s EXCEPT !["y"] = 1] ELSE s]]
=============================================================================
