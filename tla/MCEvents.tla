------------------------------ MODULE MCEvents ------------------------------
(* What reaches the workflow and its agents on the event loop: submissions,    *)
(* events, schedules, questions and messages.  The components share no state: a *)
(* behaviour is about one of them, and the others stay as they begin.          *)
EXTENDS RuntimeTask, MessageBus, CronManager, AgentQuestions, MessageDelivery, TLC

CONSTANTS rest, ownTask, e1, e2, c1, c2
VARIABLE about

eventsVars == <<about, vars, busVars, cronVars, askVars, deliveryVars>>

(* A submitted task. *)
Submission == rest :> ownTask

MCEventIds == {e1, e2}
MCEventType == e1 :> "task_created" @@ e2 :> "conflict_detected"
MCEventLinks == e1 :> [correlation |-> NoEvent, mentions |-> {e2}]
             @@ e2 :> [correlation |-> e1, mentions |-> {}]
MCCalls == {c1, c2}
MCAgentOrder == <<"critic", "human", "orchestrator">>
MCCandidateSets == {{}, {"critic", "orchestrator"}}
MCConflicts == {"approval_priority_conflict", "proposal_conflict"}
MCAwaited == {"task_created", "moderator_decision"}
MCDescriptions ==
    {[phrases |-> {"every N minutes"}, number |-> n] : n \in {5, 90}}
      \cup {[phrases |-> {"workday at N", "workday"}, number |-> n] : n \in {9, 25}}
MCExpressions == {Daily(At(24)), <<At(0)>>}

EventsInit ==
    /\ about \in {"submission", "bus", "cron", "questions", "messages"}
    /\ Init /\ BusInit /\ CronInit /\ AskInit /\ DeliveryInit

EventsNext ==
    /\ UNCHANGED about
    /\ \/ about = "submission" /\ Next
          /\ UNCHANGED <<busVars, cronVars, askVars, deliveryVars>>
       \/ about = "bus" /\ BusNext /\ UNCHANGED <<vars, cronVars, askVars, deliveryVars>>
       \/ about = "cron" /\ CronNext /\ UNCHANGED <<vars, busVars, askVars, deliveryVars>>
       \/ about = "questions" /\ AskNext /\ UNCHANGED <<vars, busVars, cronVars, deliveryVars>>
       \/ about = "messages" /\ DeliveryNext /\ UNCHANGED <<vars, busVars, cronVars, askVars>>

(* Fairness and CronFairness, of the component the behaviour is about. *)
EventsFairness ==
    /\ \A r \in Rest : WF_vars(about = "submission" /\ (Prepare(r) \/ Perform(r) \/ Conclude(r)))
    /\ \A l \in Loops :
         /\ WF_cronVars(about = "cron" /\ StopReturns(l))
         /\ WF_cronVars(about = "cron" /\ (LoopCancelled(l) \/ ScheduleTick(l)))
         /\ \A t \in CronTasks : /\ WF_cronVars(about = "cron" /\ ProcessTask(l, t))
                                /\ WF_cronVars(about = "cron" /\ CallbackReturns(l, t))

EventsSpec == EventsInit /\ [][EventsNext]_eventsVars /\ EventsFairness
=============================================================================
