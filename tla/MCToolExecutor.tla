----------------------------- MODULE MCToolExecutor -----------------------------
(* Commands for TLC: either two steps run concurrently, with commands that     *)
(* pass the gates, or one step runs alone, with any command there is.          *)
EXTENDS ToolExecutor, TLC

CONSTANTS one, two
VARIABLE alone

mcVars == <<vars, alone>>

ReadOnly ==
    [role |-> TRUE, sideEffect |-> FALSE, severe |-> TRUE, needsApproval |-> FALSE,
     needsReason |-> FALSE, approved |-> FALSE, note |-> FALSE, state |-> "absent",
     handler |-> TRUE]
Approved == [ReadOnly EXCEPT !.sideEffect = TRUE, !.needsApproval = TRUE,
                             !.approved = TRUE, !.note = TRUE, !.state = "approved"]

AllCommands == CommandType

MCInit ==
    /\ Init
    /\ alone \in BOOLEAN
    /\ cmd[two] = Approved
    /\ alone \/ cmd[one] = Approved

StepOf(s) ==
    \/ Begin(s) \/ Answered(s) \/ TimedOut(s)
    \/ \E a \in Attempts : Thread(<<s, a>>)

MCNext ==
    /\ UNCHANGED alone
    /\ \/ StepOf(one)
       \/ ~alone /\ StepOf(two)

\* The fairness of FairSpec, for the steps that run.
MCSpec ==
    /\ MCInit /\ [][MCNext]_mcVars
    /\ \A s \in Steps : /\ WF_vars((s = one \/ ~alone) /\ Begin(s))
                        /\ WF_vars((s = one \/ ~alone) /\ Answered(s))
    /\ \A j \in Jobs : WF_vars((j[1] = one \/ ~alone) /\ Thread(j))

================================================================================
