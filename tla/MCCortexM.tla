----------------------------- MODULE MCCortexM -----------------------------
(* A small instance of CortexM.tla.                                        *)
EXTENDS CortexM

AllResetTypes == {"SW", "HW", "SW_VECTRESET", "SW_EMULATED"}
SomeReadLists == {<<"r0", "control">>, <<"ipsr">>, <<"d0", "s0">>}
SomeWriteLists == {<<"primask", "control">>, <<"ipsr", "r0">>, <<"d0">>}

\* Run control, resets, and the register cache with what can disturb it.
ByName(names) == {o \in Ops : o.name \in names}
Cached(run, reads, writes) ==
  ByName({"halt", run})
    \cup {[name |-> "read", list |-> reads], [name |-> "write", list |-> writes, bit |-> 1]}
M1 == ByName({"halt", "resume", "step", "set_vector_catch", "disconnect"})
M2 == ByName({"reset", "reset_and_halt", "halt", "set_vector_catch"})
M3 == Cached("resume", <<"r0", "control">>, <<"primask", "control">>)
M4 == Cached("step", <<"ipsr">>, <<"ipsr", "r0">>)
M5 == Cached("resume", <<"d0", "s0">>, <<"d0">>)
M6 == ByName({"reset"}) \cup {[name |-> "read", list |-> <<"r0", "control">>]}
SomeMenus == {M1, M2, M3, M4, M5, M6}

\* A write of one part of CFBP.
OnePart == {<<"control">>}
WriteMenus == {Cached("halt", <<"r0", "control">>, <<"control">>)}
=============================================================================
