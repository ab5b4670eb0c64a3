----------------------------- MODULE MCSession -----------------------------
(* Small instances of Session.tla and ProbeLink.tla: the user chooses a    *)
(* link, and the program uses OpenOCD or a CMSIS-DAP probe.  The bounds    *)
(* are in Session.cfg.                                                     *)
EXTENDS Session, ProbeLink

VARIABLE chosen  \* cmbDLL.currentData()

MCInit ==
  /\ chosen \in {"openocd", "daplink"} /\ Init /\ ProbeInit
  /\ chosen = "openocd" => backend = "pyusb"  \* any: it is not used

MCNext ==
  \/ chosen = "openocd" /\ Next /\ UNCHANGED <<chosen, probeVars>>
  \/ chosen = "daplink" /\ ProbeNext /\ UNCHANGED <<chosen, vars>>

MCSpec == MCInit /\ [][MCNext]_<<chosen, vars, probeVars>> /\ Fairness /\ ProbeFairness

\* The types of both. (Session.TypeOK, ProbeLink.ProbeTypeOK)
MCTypeOK == TypeOK /\ ProbeTypeOK
=============================================================================
