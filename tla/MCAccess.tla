------------------------------ MODULE MCAccess -----------------------------
(* A small instance of AccessPort.tla: two MEM-APs and pages of two words. *)
EXTENDS AccessPort

Write(ap, addr, length) == [ap |-> ap, addr |-> addr, length |-> length, write |-> TRUE]
Read(ap, addr, length) == [ap |-> ap, addr |-> addr, length |-> length, write |-> FALSE]
Menu(requests, others, bound) == [requests |-> requests, others |-> others, calls |-> bound]

M1 == Menu({Write(0, 1, 14), Read(0, 1, 14)}, {"flush"}, 2)
M2 == Menu({Write(0, 5, 1), Write(0, 4, 8), Write(1, 4, 4)}, {"flush", "clock"}, 4)
M3 == Menu({Write(0, 5, 1), Read(0, 4, 3)}, {"idr", "deferred", "reset"}, 4)
M4 == Menu({Write(0, 5, 1), Read(0, 4, 2)}, {"shared"}, 3)
M5 == Menu({Write(0, 5, 1)}, {"close", "reset"}, 5)
SomeMenus == {M1, M2, M3, M4, M5}
=============================================================================
