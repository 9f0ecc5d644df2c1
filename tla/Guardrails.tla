----------------------------- MODULE Guardrails -----------------------------
(***************************************************************************)
(* The check of an answer before it is delivered: the validators, the      *)
(* profiles that bundle them, GuardrailService.check_output, and what      *)
(* AgentRunner makes of its verdict.                                       *)
(*                                                                         *)
(* An answer is [has, size]: the kinds of things in it that a validator    *)
(* looks for, and its length, 0 up to 32 000 characters, 1 up to 128 000,  *)
(* 2 beyond.  A fate says what becomes of each validator's own check.      *)
(* Definitions named Slip_... are wrong variants, used by no specification *)
(* (see module Board).                                                     *)
(***************************************************************************)
EXTENDS Integers, FiniteSets, FiniteSetsExt

Personal == {"email", "phone", "ssn", "credit_card"}

Fates == {"answers", "late", "raises"}

Rank(outcome) == CASE outcome = "pass" -> 0 [] outcome = "warn" -> 1 [] outcome = "block" -> 2

\* Outcome.worst.
Worst(outcomes) ==
  IF outcomes = {} THEN "pass" ELSE CHOOSE o \in outcomes : \A p \in outcomes : Rank(p) <= Rank(o)

-----------------------------------------------------------------------------
(* Validators and profiles.                                                *)

Pii(outcome) == [name |-> "pii", outcome |-> outcome, kinds |-> Personal, size |-> 3]

Toxicity == [name |-> "toxicity", outcome |-> "block", kinds |-> {"toxic"}, size |-> 3]

Length(size) == [name |-> "length", outcome |-> "warn", kinds |-> {}, size |-> size]

Profiles ==
  [strict |-> {Pii("block"), Toxicity, Length(1)},
   loose  |-> {Pii("warn"), Toxicity, Length(2)},
   off    |-> {}]

Detects(v, answer) == answer.has \cap v.kinds # {} \/ answer.size >= v.size

\* Slip: a validator that fails is left out.
Slip_Skip(v, answer, fate) ==
  IF fate[v.name] = "answers" /\ Detects(v, answer) THEN v.outcome ELSE "pass"

\* _run_all: a validator that is late, or raises, warns.
Finding(v, answer, fate) ==
  IF fate[v.name] # "answers" THEN "warn"
  ELSE IF Detects(v, answer) THEN v.outcome ELSE "pass"

-----------------------------------------------------------------------------
(* The service and the runner.                                             *)

\* resolve_profile: an unknown name means the default, an unknown default raises.
ProfileFor(default, name) ==
  IF name \in DOMAIN Profiles THEN name ELSE IF default \in DOMAIN Profiles THEN default ELSE "raises"

Verdict(enabled, profile, answer, fate) ==
  IF ~enabled THEN "pass"
  ELSE IF profile = "raises" THEN "raises"
  ELSE Worst({Finding(v, answer, fate) : v \in Profiles[profile]})

\* _apply_guardrail: what raises is swallowed; a block ends the turn.
Delivered(verdict) == verdict # "block"

-----------------------------------------------------------------------------
(* Properties.                                                             *)

\* An answer is held back exactly if a validator that blocks has seen something
\* in it, whatever becomes of the other validators.
BlocksWhatItSees(default, name, answer, fate) ==
  LET profile == ProfileFor(default, name)
  IN profile # "raises" =>
       (~Delivered(Verdict(TRUE, profile, answer, fate)) <=>
          \E v \in Profiles[profile] : v.outcome = "block" /\ fate[v.name] = "answers" /\ Detects(v, answer))

\* A validator that did not answer leaves its mark on the verdict: "pass" means
\* that all were asked and saw nothing.
PassMeansChecked(default, name, answer, fate) ==
  LET profile == ProfileFor(default, name)
  IN Verdict(TRUE, profile, answer, fate) = "pass" =>
       \A v \in Profiles[profile] : fate[v.name] = "answers" /\ ~Detects(v, answer)

\* The strict profile never lets through what the loose one holds back or warns of.
StrictIsStricter(answer, fate) ==
  Rank(Verdict(TRUE, "loose", answer, fate)) <= Rank(Verdict(TRUE, "strict", answer, fate))
=============================================================================
