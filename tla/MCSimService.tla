---------------------------- MODULE MCSimService ----------------------------
(* Small instances of SimService: which threads change the service, and    *)
(* whether a listener does, is what tells the runs apart.                  *)
EXTENDS SimService

CONSTANTS c1, c2, loop, nobody, count

TwoConns == {c1, c2}
LoopOnly == {loop}
LoopAndConn == {loop, c1}
OneProp == {count}

AnyValue == 0 .. MaxValue

Nothing == {}
AssignsOrAdds == {"assign", "add"}
=============================================================================
