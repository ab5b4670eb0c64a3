------------------------------ MODULE MCXLink -------------------------------
(***************************************************************************)
(* The two threads of RTTView that use an XLink.                           *)
(***************************************************************************)
EXTENDS XLink

\* What RTTView.py and GDBServer._handle_packet call.
CodeCalls ==
  [t \in Threads |->
     IF t = "gui" THEN {"open", "read_mem_U8", "write_U32", "write_mem", "close"}
                  ELSE {"read_reg", "read_mem_U8", "write_mem_U8", "go", "step", "halt"}]

\* Every method from every thread.
AllCalls == [t \in Threads |-> AllMethods]
=============================================================================
