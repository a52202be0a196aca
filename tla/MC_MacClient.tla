---------------------------- MODULE MC_MacClient ----------------------------
(***************************************************************************)
(* Small instances of MacClient for TLC.                                   *)
(***************************************************************************)
EXTENDS MacClient

\* With FCNT16 = 8, FCNT32 = 16 and MAX_FCNT_GAP = 4 frames with these counters
\* are new, repeated, old and too far ahead, and carry into the upper bits.
Counters == {1, 2, 6}

JoinFrame(valid) ==
    [mtype |-> "JOIN_ACCEPT", valid |-> valid, fcnt |-> 0, ack |-> FALSE,
     pending |-> FALSE, link_ans |-> FALSE, port |-> 0]

\* Data downlinks that differ in what the handlers branch on.
DataFrames(fcnts) ==
    [mtype : {"CNF_DOWNLINK", "UNCNF_DOWNLINK"}, valid : {TRUE}, fcnt : fcnts,
     ack : BOOLEAN, pending : {FALSE}, link_ans : BOOLEAN, port : {1}]

BrokenFrame ==
    [mtype |-> "UNCNF_DOWNLINK", valid |-> FALSE, fcnt |-> 0, ack |-> TRUE,
     pending |-> TRUE, link_ans |-> FALSE, port |-> 1]

OtherFrame ==
    [mtype |-> "OTHER", valid |-> TRUE, fcnt |-> 0, ack |-> FALSE,
     pending |-> FALSE, link_ans |-> FALSE, port |-> 0]

\* One frame for each way an exchange can go on.
MC_FewFrames ==
    {JoinFrame(TRUE), JoinFrame(FALSE), BrokenFrame, OtherFrame}
        \cup {f \in DataFrames(Counters) :
                /\ f.ack <=> f.link_ans
                /\ (f.mtype = "CNF_DOWNLINK") <=> (f.fcnt = 2)
                /\ f.fcnt = 1 => f.ack
                /\ f.fcnt = 2 => ~f.ack}
=============================================================================
