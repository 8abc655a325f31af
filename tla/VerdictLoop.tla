----------------------------- MODULE VerdictLoop -----------------------------
(***************************************************************************)
(* The verdict and the correction on their own: any proposal at all, as    *)
(* verifyfix() takes one from any process, corrected until the kernel      *)
(* passes it.  The process table may look different at every verdict.      *)
(***************************************************************************)
EXTENDS Verifier

CONSTANT
  Number     \* integers the numeric fields may hold

ASSUME VerdictAssumption == Number \subseteq Int

VARIABLES
  fix,          \* the proposal
  from,         \* the accepted state corrections start from
  verdict,      \* verify_fix() of it
  corrections   \* corrections so far

loopvars == <<fix, from, verdict, corrections>>

Candidate == [role : Text, target : Text, action : Number,
              severity : Number, retry_hint : Number]

(* Rejections come in this order; the whitelist's two codes are one stage. *)
Stage(code) ==
  CASE code = ERR_FIELD -> 1
    [] code = ERR_RANGE -> 2
    [] code \in {ERR_PROTECTED, ERR_ACTION} -> 3
    [] code = OK -> 4

LoopInit ==
  /\ fix \in Candidate
  /\ from = build_default_proposal
  /\ \E prot \in BOOLEAN : verdict = verify_fix(fix, prot)
  /\ corrections = 0

Correct ==
  /\ verdict # OK
  /\ fix' = amend_from_verdict(fix, from, verdict)
  /\ \E prot \in BOOLEAN : verdict' = verify_fix(fix', prot)
  /\ corrections' = corrections + 1
  /\ UNCHANGED from

LoopSpec == LoopInit /\ [][Correct]_loopvars

---------------------------------------------------------------------------
LoopTypeOK ==
  /\ fix \in Proposal
  /\ from \in Proposal /\ Safe(from)
  /\ verdict \in {OK, ERR_FIELD, ERR_RANGE, ERR_PROTECTED, ERR_ACTION}
  /\ corrections \in Nat

(* verify_fix(): the verdict is OK exactly for safe proposals, whatever    *)
(* the walk of the process table saw; the table only chooses between the   *)
(* two codes of a refused action.                                          *)
VerdictIsSafety ==
  \A prot \in BOOLEAN : (verify_fix(fix, prot) = OK) <=> Safe(fix)

(* amend_from_verdict(): every correction brings the proposal to a later   *)
(* stage, so no rule is broken twice.                                      *)
EveryCorrectionCounts == [][Stage(verdict') > Stage(verdict)]_loopvars

(* At most three corrections bring any proposal to acceptance: the first   *)
(* verdict and the corrections add up to no more than the stages there are.*)
ThreeCorrections == corrections < Stage(verdict) /\ corrections <= 3
=============================================================================
