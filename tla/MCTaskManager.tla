--------------------------- MODULE MCTaskManager ----------------------------
(* A small instance of TaskManager: one caller, one name.                  *)
EXTENDS TaskManager

CONSTANTS alice, demo, nothing

Alone == {alice}
OneName == {demo}
AllOps == {"run", "watch", "stop", "clear"}
=============================================================================
