----------------------------- MODULE Onboarding -----------------------------
(***************************************************************************)
(* OnboardingService: the interview of one user, whose answers are filed   *)
(* under the steps of the interview and compiled into a profile.           *)
(*                                                                         *)
(* The service's calls to the store block the event loop, so a request is  *)
(* cut only where it awaits the agent: a turn that asks the next question, *)
(* or the one that compiles the profile.  A turn answers or runs into its  *)
(* timeout; the process may die in it.  The user answers the question last *)
(* shown, from several tabs if need be.                                    *)
(* Definitions named Slip_... are wrong variants, used by no specification *)
(* (see module Board).                                                     *)
(***************************************************************************)
EXTENDS Integers, FiniteSets

CONSTANTS
  LastStep,      \* steps are 0 .. LastStep, then COMPLETE
  Requests,      \* each made once (bound)
  None

VARIABLES
  state,         \* the field onboarding of the user's document, or None
  disk,          \* user.md: the answers it was compiled from, or None
  shown,         \* the question the user saw last, or None
  request,       \* request[r]: the progress of r
  slipped        \* a question was saved but not shown, or requests overlapped

onbVars == <<state, disk, shown, request, slipped>>

Steps == 0 .. LastStep

Complete == LastStep + 1

\* An answer is named by the question it answers.
Answers == [Steps -> Steps \cup {None}]

State == [step : 0 .. Complete, responses : Answers, profile : Answers \cup {None}, completed : BOOLEAN]

NewState == [step |-> 0, responses |-> [s \in Steps |-> None], profile |-> None, completed |-> FALSE]

NextStep(s) == IF s < Complete THEN s + 1 ELSE Complete

Waiting == {r \in Requests : request[r].pc \in {"ask", "compile"}}

\* r awaits the turn pc, for the step s or with the state copy to save.
Await(r, pc, s, copy) ==
  /\ request' = [request EXCEPT ![r] = [pc |-> pc, step |-> s, copy |-> copy]]
  /\ slipped' = (slipped \/ Waiting # {})

Refused(r) ==
  /\ request' = [request EXCEPT ![r].pc = "over"]
  /\ UNCHANGED <<state, disk, shown, slipped>>

\* Slip: a start begins anew.
Slip_StartAnew(r) ==
  /\ request[r].pc = "idle"
  /\ IF state # None /\ state.completed THEN Refused(r)
     ELSE /\ state' = NewState
          /\ Await(r, "ask", 0, None)
          /\ UNCHANGED <<disk, shown>>

\* start_onboarding: begins, or asks the current question again.
Start(r) ==
  /\ request[r].pc = "idle"
  /\ IF state # None /\ state.completed THEN Refused(r)
     ELSE /\ state' = IF state = None THEN NewState ELSE state
          /\ Await(r, "ask", state'.step, None)
          /\ UNCHANGED <<disk, shown>>

Filed == [state EXCEPT !.responses[state.step] = shown, !.step = NextStep(@)]

\* Slip: the last answer is saved before the profile is compiled.
Slip_SaveFirst(r) ==
  /\ request[r].pc = "idle" /\ state # None /\ shown # None
  /\ IF state.completed THEN Refused(r)
     ELSE /\ state' = Filed
          /\ Await(r, IF Filed.step = Complete THEN "compile" ELSE "ask", Filed.step, Filed)
          /\ UNCHANGED <<disk, shown>>

\* Slip: the question asked is the one just answered.
Slip_AskOld(r) ==
  /\ request[r].pc = "idle" /\ state # None /\ shown # None
  /\ IF state.completed THEN Refused(r)
     ELSE IF Filed.step = Complete
     THEN Await(r, "compile", Complete, Filed) /\ UNCHANGED <<state, disk, shown>>
     ELSE /\ state' = Filed
          /\ Await(r, "ask", state.step, None)
          /\ UNCHANGED <<disk, shown>>

\* advance_onboarding: files the answer under the current step.  The next step
\* is saved before its question is asked, the last answer after the profile.
Advance(r) ==
  /\ request[r].pc = "idle" /\ state # None /\ shown # None
  /\ IF state.completed THEN Refused(r)
     ELSE IF Filed.step = Complete
     THEN Await(r, "compile", Complete, Filed) /\ UNCHANGED <<state, disk, shown>>
     ELSE /\ state' = Filed
          /\ Await(r, "ask", Filed.step, None)
          /\ UNCHANGED <<disk, shown>>

\* The question arrives.
Ask(r) ==
  /\ request[r].pc = "ask"
  /\ shown' = request[r].step
  /\ request' = [request EXCEPT ![r].pc = "over"]
  /\ UNCHANGED <<state, disk, slipped>>

\* Slip: the profile is compiled from the stored answers, without the last.
Slip_CompileStored(r) ==
  /\ request[r].pc = "compile"
  /\ disk' \in {disk, state.responses}
  /\ state' = [request[r].copy EXCEPT !.profile = state.responses, !.completed = TRUE]
  /\ request' = [request EXCEPT ![r].pc = "over"]
  /\ UNCHANGED <<shown, slipped>>

\* The profile is compiled, written to the disk if that works, and saved.
Compile(r) ==
  LET answers == request[r].copy.responses
  IN /\ request[r].pc = "compile"
     /\ disk' \in {disk, answers}
     /\ state' = [request[r].copy EXCEPT !.profile = answers, !.completed = TRUE]
     /\ request' = [request EXCEPT ![r].pc = "over"]
     /\ UNCHANGED <<shown, slipped>>

\* The turn times out or the process dies: the user sees no question.
Fail(r) ==
  /\ request[r].pc \in {"ask", "compile"}
  /\ request' = [request EXCEPT ![r].pc = "over"]
  /\ slipped' = (slipped \/ (request[r].pc = "ask" /\ shown # request[r].step))
  /\ UNCHANGED <<state, disk, shown>>

OnbInit ==
  /\ state = None /\ disk = None /\ shown = None /\ slipped = FALSE
  /\ request = [r \in Requests |-> [pc |-> "idle", step |-> None, copy |-> None]]

OnbNext == \E r \in Requests : Start(r) \/ Advance(r) \/ Ask(r) \/ Compile(r) \/ Fail(r)

OnbSpec == OnbInit /\ [][OnbNext]_onbVars

-----------------------------------------------------------------------------
(* Properties.                                                             *)

OnbTypeOK ==
  /\ state \in State \cup {None} /\ disk \in Answers \cup {None}
  /\ shown \in Steps \cup {None}
  /\ \A r \in Requests : request[r].pc \in {"idle", "ask", "compile", "over"}
  /\ state # None => (state.step = Complete <=> state.completed)

\* An answer is filed under the question it answers, unless a question had been
\* saved but not shown, or requests overlapped.
AnswersMatchQuestions ==
  (state # None /\ ~slipped) => \A s \in Steps : state.responses[s] \in {None, s}

\* A completed interview has an answer to every question, and its profile was
\* compiled from the answers stored with it, whatever overlapped or failed.
ProfileIsOfTheAnswers ==
  (state # None /\ state.completed) =>
    state.profile = state.responses /\ \A s \in Steps : state.responses[s] # None

\* The interview never goes back, and a completed one stays so.
StepsGoForward ==
  [][state # None => /\ state' # None /\ state'.step >= state.step
                     /\ \A s \in Steps : state.responses[s] # None => state'.responses[s] # None]_onbVars

\* The interview goes forward, and the profile is of the answers it was given.
InterviewIsKept == []OnbTypeOK /\ []AnswersMatchQuestions /\ []ProfileIsOfTheAnswers /\ StepsGoForward
=============================================================================
