----------------------------- MODULE DapAccess ------------------------------
(***************************************************************************)
(* What DAPAccess promises about reads whose results are fetched later     *)
(* (read_reg and reg_read_repeat with now=False), whatever is buffered in  *)
(* between: a read is pending until it either completes with the words its *)
(* own requests read, or fails with the error of the packet that failed.   *)
(* Reads complete in the order they were requested, an error fails         *)
(* everything that is still pending, and a settled read never changes.     *)
(***************************************************************************)
EXTENDS Naturals, Sequences

VARIABLE reads   \* the state of every read ever requested, in order

Outcome == {"pending", "ok", "failed"}

Init == reads = << >>

Pending == {t \in DOMAIN reads : reads[t] = "pending"}

Request == reads' = Append(reads, "pending")

Complete ==
  \E t \in Pending :
    /\ \A earlier \in Pending : t <= earlier
    /\ reads' = [reads EXCEPT ![t] = "ok"]

Fail ==
  /\ Pending # {}
  /\ reads' = [t \in DOMAIN reads |->
                 IF t \in Pending THEN "failed" ELSE reads[t]]

Next == Request \/ Complete \/ Fail

Spec == Init /\ [][Next]_reads
=============================================================================
