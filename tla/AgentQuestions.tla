--------------------------- MODULE AgentQuestions ---------------------------
(***************************************************************************)
(* An agent's ReAct loop and the questions it asks the user: ask_user waits *)
(* for an answer with a timeout, while answers, cancellations and cleanups   *)
(* of the question manager arrive at any time, and the agent's own task may  *)
(* be cancelled.                                                            *)
(***************************************************************************)
EXTENDS Naturals

CONSTANTS Askers,       \* runs of run_with_react
          MaxSteps      \* max_steps

ASSUME AskAssumption == MaxSteps \in Nat \ {0}

(* A run asks at most one question in a step, which identifies it. *)
Questions == Askers \X (1 .. MaxSteps)

VARIABLES
    react,      \* stage and step of each run
    questions,  \* _questions and _answer_events: what is known of each question
    fired,      \* questions whose timer has fired
    heard       \* what ask_user made of each question

askVars == <<react, questions, fired, heard>>

Unasked == [life |-> "none", status |-> "pending", answer |-> "none", woken |-> FALSE,
            old |-> FALSE]

AskInit ==
    /\ react = [a \in Askers |-> [stage |-> "idle", step |-> 1]]
    /\ questions = [q \in Questions |-> Unasked]
    /\ fired = {}
    /\ heard = [q \in Questions |-> "nothing"]

Asked(a) == <<a, react[a].step>>
Known(q) == questions[q].life = "known"

(* run_with_react *)
RunWithReact(a) ==
    /\ react[a].stage = "idle"
    /\ react' = [react EXCEPT ![a].stage = "think"]
    /\ UNCHANGED <<questions, fired, heard>>

(* The end of a step: _should_terminate, or the last step. *)
StepOver(a, terminate) ==
    react' = [react EXCEPT ![a] =
        IF terminate \/ @.step = MaxSteps THEN [@ EXCEPT !.stage = "final"]
        ELSE [stage |-> "think", step |-> @.step + 1]]

(* Thought, reasoning, evidence and the choice of an action; an LLM that      *)
(* fails at it chooses to finalize.  Only ask_human suspends on others.       *)
TakeAction(a) ==
    /\ react[a].stage = "think"
    /\ \E finalize \in BOOLEAN : StepOver(a, finalize)
    /\ UNCHANGED <<questions, fired, heard>>

(* ask_user up to the callbacks that show the question, which may await. *)
AskUser(a) ==
    /\ react[a].stage = "think"
    /\ questions' = [questions EXCEPT ![Asked(a)] = [Unasked EXCEPT !.life = "known"]]
    /\ react' = [react EXCEPT ![a].stage = "notify"]
    /\ UNCHANGED <<fired, heard>>

CallbacksNotified(a) ==
    /\ react[a].stage = "notify"
    /\ react' = [react EXCEPT ![a].stage = "wait"]
    /\ UNCHANGED <<questions, fired, heard>>

(* The timer cancels the wait, even of a run that an answer has just woken.  *)
TimerFires(a) ==
    /\ react[a].stage = "wait"
    /\ fired' = fired \cup {Asked(a)}
    /\ UNCHANGED <<react, questions, heard>>

(* What ask_user returns or raises when it is resumed. *)
Outcome(q) ==
    CASE q \in fired -> "timeout"
      [] q \notin fired /\ ~Known(q) -> "KeyError"
      [] q \notin fired /\ Known(q) /\ questions[q].answer = "none" -> "error"
      [] OTHER -> questions[q].answer

(* A timeout ends the run, and so does an answer that reads like one; an     *)
(* exception makes run_with_react return a failed result.                     *)
AskReturns(a) ==
    LET q == Asked(a) IN
    /\ react[a].stage = "wait"
    /\ q \in fired \/ questions[q].woken
    /\ heard' = [heard EXCEPT ![q] = Outcome(q)]
    /\ questions' = IF q \in fired THEN [questions EXCEPT ![q].status = "timeout"] ELSE questions
    /\ IF Outcome(q) = "KeyError" THEN react' = [react EXCEPT ![a].stage = "returned"]
       ELSE StepOver(a, Outcome(q) \in {"timeout", "reads_like_timeout"})
    /\ UNCHANGED fired

(* _generate_final_answer *)
FinalAnswer(a) ==
    /\ react[a].stage = "final"
    /\ react' = [react EXCEPT ![a].stage = "returned"]
    /\ UNCHANGED <<questions, fired, heard>>

(* The task that runs the agent is cancelled, by a stop of its monitor. *)
RunCancelled(a) ==
    /\ react[a].stage \in {"think", "notify", "wait", "final"}
    /\ react' = [react EXCEPT ![a].stage = "cancelled"]
    /\ UNCHANGED <<questions, fired, heard>>

(* submit_answer takes an answer at any time, and replaces an earlier one. *)
SubmitAnswer(q) ==
    /\ Known(q)
    /\ \E text \in {"answer", "reads_like_timeout"} :
         questions' = [questions EXCEPT ![q] =
            [@ EXCEPT !.answer = text, !.status = "answered", !.woken = TRUE, !.old = FALSE]]
    /\ UNCHANGED <<react, fired, heard>>

CancelQuestion(q) ==
    /\ Known(q)
    /\ questions[q].status = "pending"
    /\ questions' = [questions EXCEPT ![q].status = "cancelled", ![q].woken = TRUE]
    /\ UNCHANGED <<react, fired, heard>>

(* max_age_seconds have passed since the answer. *)
AnswerAges(q) ==
    /\ Known(q)
    /\ questions[q].answer # "none" /\ ~questions[q].old
    /\ questions' = [questions EXCEPT ![q].old = TRUE]
    /\ UNCHANGED <<react, fired, heard>>

(* Mutant: a settled question is cleared whatever its age. *)
ClearableAtOnce(q) ==
    /\ Known(q)
    /\ questions[q].status \in {"answered", "timeout", "cancelled"}

(* Only a question with answered_at has an age, so one that was never         *)
(* answered is kept for ever.                                                 *)
Clearable(q) ==
    /\ Known(q)
    /\ questions[q].status \in {"answered", "timeout", "cancelled"}
    /\ questions[q].answer # "none" /\ questions[q].old

ClearAnswered ==
    /\ \E q \in Questions : Clearable(q)
    /\ questions' = [q \in Questions |->
                       IF Clearable(q) THEN [questions[q] EXCEPT !.life = "cleared"]
                       ELSE questions[q]]
    /\ UNCHANGED <<react, fired, heard>>

AgentStep(a) ==
    TakeAction(a) \/ AskUser(a) \/ CallbacksNotified(a) \/ AskReturns(a) \/ FinalAnswer(a)

AskNext ==
    \/ \E a \in Askers : RunWithReact(a) \/ AgentStep(a) \/ TimerFires(a) \/ RunCancelled(a)
    \/ \E q \in Questions : SubmitAnswer(q) \/ CancelQuestion(q) \/ AnswerAges(q)
    \/ ClearAnswered

AskSpec == AskInit /\ [][AskNext]_askVars

-----------------------------------------------------------------------------
(* What the agent was told and what the manager shows agree: a question shown *)
(* as pending is being waited for, unless the run was cancelled; an answer     *)
(* the agent heard is shown as answered; after a timeout the run asks no more; *)
(* and nothing unanswered is ever cleared (ask_user, submit_answer,            *)
(* cancel_question, clear_answered_questions).                                 *)
QuestionsSettle ==
    \A a \in Askers, s \in 1 .. MaxSteps :
        LET q == <<a, s>> IN
        /\ Known(q) /\ questions[q].status = "pending" =>
              \/ q = Asked(a) /\ react[a].stage \in {"notify", "wait"}
              \/ react[a].stage = "cancelled"
        /\ heard[q] \in {"answer", "reads_like_timeout"} =>
              questions[q].status = "answered" \/ questions[q].life = "cleared"
        /\ heard[q] = "timeout" => \A later \in s + 1 .. MaxSteps :
              questions[<<a, later>>].life = "none"
        /\ questions[q].life = "cleared" => questions[q].answer # "none"
        /\ heard[q] = "KeyError" => questions[q].life = "cleared"
=============================================================================
