--------------------------- MODULE MCTargetMemory --------------------------
(* A small instance of TargetMemory.tla: a flash, a RAM and a device       *)
(* region next to each other.                                              *)
EXTENDS TargetMemory

SomeMap == AddRegion(<<Region("flash", 2, 3), Region("device", 8, 9)>>, Region("ram", 4, 7))
SomeRanges == {<<4, 6>>, <<5, 8>>, <<3, 5>>, <<8, 9>>}
SomeMenus == {{"hw", "sw"}, {"watch"}, {"cache", "write"}, {"sw", "cache"}}
=============================================================================
