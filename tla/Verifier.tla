------------------------------ MODULE Verifier ------------------------------
(***************************************************************************)
(* The kernel's verdict on a fix proposal (kernel/verifier.c), the view of *)
(* the process table it is given (fill_snapshot in kernel/sysproc.c), and  *)
(* the agent's correction of a rejected proposal (user/evaluator.c).       *)
(* A text field is an atomic name; the two malformed buffers verify_fix    *)
(* tells apart are the empty one and one with no NUL inside its bound.     *)
(***************************************************************************)
EXTENDS Integers

Empty == ""
Unterminated == "<no NUL>"

CONSTANT Text     \* what a text field may hold

ASSUME TextAssumption ==
  {Empty, Unterminated, "fixsuggest", "parser"} \subseteq Text

Proposal == [role : Text, target : Text, action : Int,
             severity : Int, retry_hint : Int]

REPORT == 0
ANNOTATE == 1
REQUEUE == 2
KILL == 3
RESET == 4

SEVERITY_MIN == 0
SEVERITY_MAX == 3

OK == 0
ERR_FIELD == -1
ERR_RANGE == -2
ERR_PROTECTED == -3
ERR_ACTION == -4

protected_roles == {"init", "sh", "evaluator"}

is_allowed(action) == action \in {REPORT, ANNOTATE, REQUEUE}

is_destructive(action) == action \notin {REPORT, ANNOTATE, REQUEUE}

field_ok(f) == f \notin {Empty, Unterminated}

(* fill_snapshot(): the entries of the table seen live, each with the name *)
(* and the agent_role it had when the walk read it.                        *)
TableEntry == [name : Text, agent_role : Text]

fill_snapshot(seen, target) ==
  \E pp \in seen :
    /\ target \in {pp.name, pp.agent_role}
    /\ pp.name \in {"init", "sh"} \/ pp.agent_role = "evaluator"

target_is_protected(p, target_protected) ==
  p.target \in protected_roles \/ target_protected

(* Mutant: the upper end of the severity range is one too high. *)
LooseVerifyFix(p, target_protected) ==
  IF ~field_ok(p.role) \/ ~field_ok(p.target) THEN ERR_FIELD
  ELSE IF p.severity \notin SEVERITY_MIN .. SEVERITY_MAX + 6 \/ p.retry_hint < 0
       THEN ERR_RANGE
  ELSE IF is_destructive(p.action) /\ target_is_protected(p, target_protected)
       THEN ERR_PROTECTED
  ELSE IF ~is_allowed(p.action) THEN ERR_ACTION
  ELSE OK

(* The first rule broken decides the verdict.  The rule on protected       *)
(* targets comes before the whitelist, for its more specific code.         *)
verify_fix(p, target_protected) ==
  IF ~field_ok(p.role) \/ ~field_ok(p.target) THEN ERR_FIELD
  ELSE IF p.severity \notin SEVERITY_MIN .. SEVERITY_MAX \/ p.retry_hint < 0
       THEN ERR_RANGE
  ELSE IF is_destructive(p.action) /\ target_is_protected(p, target_protected)
       THEN ERR_PROTECTED
  ELSE IF ~is_allowed(p.action) THEN ERR_ACTION
  ELSE OK

(* What a proposal must be to be safe, stated without the verifier's order *)
(* of rules or its view of the process table.                              *)
Safe(p) ==
  /\ {p.role, p.target} \cap {Empty, Unterminated} = {}
  /\ SEVERITY_MIN <= p.severity /\ p.severity <= SEVERITY_MAX
  /\ p.retry_hint >= 0
  /\ p.action \in {REPORT, ANNOTATE, REQUEUE}

---------------------------------------------------------------------------
(* The evaluator's side. *)

build_default_proposal ==
  [role |-> "fixsuggest", target |-> "parser", action |-> REPORT,
   severity |-> 0, retry_hint |-> 0]

build_proposal(bad) ==
  [role |-> "fixsuggest", target |-> "parser", action |-> REQUEUE,
   severity |-> IF bad THEN 9 ELSE 2, retry_hint |-> 0]

clamp(v) ==
  IF v < SEVERITY_MIN THEN SEVERITY_MIN
  ELSE IF v > SEVERITY_MAX THEN SEVERITY_MAX ELSE v

(* Mutant: the clamp stops one above the range. *)
LooseAmend(p, base, rc) ==
  CASE rc = ERR_RANGE -> [p EXCEPT !.severity = SEVERITY_MAX + 1]
    [] rc # ERR_RANGE -> base

(* The correction is a function of why the kernel said no. *)
amend_from_verdict(p, base, rc) ==
  CASE rc = ERR_RANGE ->
         [p EXCEPT !.severity = clamp(@), !.retry_hint = IF @ < 0 THEN 0 ELSE @]
    [] rc = ERR_ACTION -> [p EXCEPT !.action = REQUEUE]
    [] rc = ERR_PROTECTED -> [p EXCEPT !.action = REPORT, !.target = base.target]
    [] rc = ERR_FIELD -> [p EXCEPT !.role = base.role, !.target = base.target]
    [] OTHER -> base
=============================================================================
