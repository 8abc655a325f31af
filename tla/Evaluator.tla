----------------------------- MODULE Evaluator -----------------------------
(***************************************************************************)
(* Evaluator agents (user/evaluator.c) in their verify, roll back, amend   *)
(* and retry loop, sharing the kernel's one checkpoint slot (sys_checkpoint*)
(* and sys_restore in kernel/sysproc.c).                                   *)
(* Every system call is one step: the slot is read and written under       *)
(* ckpt.lock.  fill_snapshot walks the process table with no lock, so what *)
(* it sees is any set of entries.                                          *)
(***************************************************************************)
EXTENDS Verifier, FiniteSets

CONSTANTS
  Agent,        \* pids of the evaluators
  Foreign,      \* pids of other processes that use the checkpoint slot
  Entry,        \* table entries a walk may meet
  MAX_RETRIES   \* attempts per line

ASSUME EvaluatorAssumption ==
  /\ Agent \subseteq Nat \ {0}
  /\ Foreign \subseteq Nat \ {0}
  /\ Agent \cap Foreign = {}
  /\ Entry \subseteq TableEntry
  /\ MAX_RETRIES \in Nat \ {0, 1}

VARIABLES
  pc,        \* where each evaluator is
  prop,      \* its candidate proposal
  base,      \* the state restore() gave it last
  attempts,  \* rejected attempts for this line
  rc,        \* verdict of the last verifyfix()
  ckpt,      \* the slot: len (0 or 1 here), owner and buf
  accepted   \* history: the last state each evaluator checkpointed

vars == <<pc, prop, base, attempts, rc, ckpt, accepted>>

(* A blob that some other program saved: not a proposal the kernel passed. *)
Junk == [role |-> Empty, target |-> Empty, action |-> KILL,
         severity |-> -1, retry_hint |-> -1]

(* Static storage starts as zeroes; pid 0 is no process. *)
Init ==
  /\ pc = [a \in Agent |-> "seed"]
  /\ prop = [a \in Agent |-> build_default_proposal]
  /\ base = [a \in Agent |-> build_default_proposal]
  /\ attempts = [a \in Agent |-> 0]
  /\ rc = [a \in Agent |-> OK]
  /\ ckpt = [len |-> 0, owner |-> 0, buf |-> Junk]
  /\ accepted = [a \in Agent |-> build_default_proposal]

At(a, l) == pc[a] = l

Goto(a, l) == pc' = [pc EXCEPT ![a] = l]

(* sys_checkpoint() *)
checkpoint(a, blob) ==
  ckpt' = [len |-> 1, owner |-> a, buf |-> blob]

(* Mutant: the slot is handed to whoever asks. *)
OpenRestore(a, dst) == IF ckpt.len > 0 THEN ckpt.buf ELSE dst

(* sys_restore(): the bytes go to the caller only if it wrote them. *)
restore(a, dst) ==
  IF ckpt.owner = a /\ ckpt.len > 0 THEN ckpt.buf ELSE dst

---------------------------------------------------------------------------
(* build_default_proposal(&base); checkpoint(&base) *)
Seed(a) ==
  /\ At(a, "seed")
  /\ base' = [base EXCEPT ![a] = build_default_proposal]
  /\ checkpoint(a, build_default_proposal)
  /\ accepted' = [accepted EXCEPT ![a] = build_default_proposal]
  /\ Goto(a, "read")
  /\ UNCHANGED <<prop, attempts, rc>>

(* proxy_readline() returns a line, or end of input.  The line before it   *)
(* was settled, or the attempts ran out and evaluator:FAIL was sent.       *)
ReadLine(a) ==
  /\ At(a, "read") \/ At(a, "fail")
  /\ attempts' = [attempts EXCEPT ![a] = 0]
  /\ Goto(a, "call") \/ Goto(a, "done")
  /\ UNCHANGED <<prop, base, rc, ckpt, accepted>>

(* proxy_call(): fails, or answers with or without an ERROR in it.  Only   *)
(* the first answer for a line shapes the proposal.                        *)
ProxyCall(a) ==
  /\ At(a, "call")
  /\ \/ /\ Goto(a, "done")
        /\ UNCHANGED prop
     \/ \E bad \in BOOLEAN :
          /\ Goto(a, "verify")
          /\ prop' = [prop EXCEPT ![a] = IF attempts[a] = 0 THEN build_proposal(bad) ELSE @]
  /\ UNCHANGED <<base, attempts, rc, ckpt, accepted>>

(* sys_verifyfix(): snapshot, then verdict.  The addresses passed are those of
   the evaluator's own variables, so the copies do not fail.               *)
VerifyFix(a) ==
  /\ At(a, "verify")
  /\ \E seen \in SUBSET Entry :
       rc' = [rc EXCEPT ![a] = verify_fix(prop[a], fill_snapshot(seen, prop[a].target))]
  /\ Goto(a, IF rc'[a] = OK THEN "commit" ELSE "reject")
  /\ UNCHANGED <<prop, base, attempts, ckpt, accepted>>

(* checkpoint(&prop); EVAL_ACCEPT; evaluator:OK *)
Commit(a) ==
  /\ At(a, "commit")
  /\ checkpoint(a, prop[a])
  /\ accepted' = [accepted EXCEPT ![a] = prop[a]]
  /\ Goto(a, "read")
  /\ UNCHANGED <<prop, base, attempts, rc>>

(* EVAL_VERIFY_FAIL; restore(&base); EVAL_ROLLBACK *)
RollBack(a) ==
  /\ At(a, "reject")
  /\ base' = [base EXCEPT ![a] = restore(a, @)]
  /\ Goto(a, "amend")
  /\ UNCHANGED <<prop, attempts, rc, ckpt, accepted>>

(* Mutant: the attempt is not counted. *)
UncountedAmend(a) ==
  /\ At(a, "amend")
  /\ Goto(a, "call")
  /\ UNCHANGED <<prop, attempts, base, rc, ckpt, accepted>>

(* amend_from_verdict(); EVAL_RETRY; the loop's test of attempts *)
Amend(a) ==
  /\ At(a, "amend")
  /\ prop' = [prop EXCEPT ![a] = amend_from_verdict(@, base[a], rc[a])]
  /\ attempts' = [attempts EXCEPT ![a] = @ + 1]
  /\ Goto(a, IF attempts[a] + 1 < MAX_RETRIES THEN "call" ELSE "fail")
  /\ UNCHANGED <<base, rc, ckpt, accepted>>

(* Any other process may save a blob of its own. *)
ForeignCheckpoint(f) ==
  /\ checkpoint(f, Junk)
  /\ UNCHANGED <<pc, prop, base, attempts, rc, accepted>>

Step(a) ==
  \/ Seed(a) \/ ReadLine(a) \/ ProxyCall(a) \/ VerifyFix(a)
  \/ Commit(a) \/ RollBack(a) \/ Amend(a)

Next == (\E a \in Agent : Step(a)) \/ (\E f \in Foreign : ForeignCheckpoint(f))

Spec == Init /\ [][Next]_vars

(* A scheduled evaluator goes on; the host answers or the call fails.      *)
FairSpec == Spec /\ \A a \in Agent : WF_vars(Step(a))

---------------------------------------------------------------------------
TypeOK ==
  /\ pc \in [Agent -> {"seed", "read", "call", "verify", "commit", "reject",
                       "amend", "fail", "done"}]
  /\ prop \in [Agent -> Proposal]
  /\ base \in [Agent -> Proposal]
  /\ attempts \in [Agent -> 0 .. MAX_RETRIES]
  /\ rc \in [Agent -> ERR_ACTION .. OK]
  /\ ckpt \in [len : {0, 1}, owner : Agent \cup Foreign \cup {0}, buf : Proposal]
  /\ accepted \in [Agent -> Proposal]

(* sys_restore(): what an evaluator rolls back to is a state the kernel    *)
(* had passed, whoever else uses the slot in the meantime.                 *)
RollsBackToSafe == \A a \in Agent : Safe(base[a])

(* EVAL_ACCEPT: what an evaluator commits is safe, although the table it   *)
(* was verified against may have changed while it was being read.          *)
AcceptsOnlySafe == \A a \in Agent : Safe(accepted[a])

(* A line that was read is settled, or the evaluator ends.                 *)
LineSettles == \A a \in Agent : At(a, "call") ~> At(a, "read") \/ At(a, "done")

(* evaluator.c: "restore(&base): last accepted state".  After a rollback,  *)
(* base is the state this evaluator last had accepted.                     *)
RollsBackToLastAccepted == \A a \in Agent : At(a, "amend") => base[a] = accepted[a]

(* The inductive strengthening of the two safety invariants.               *)
SlotIsOwn == ckpt.owner \in Agent => ckpt.len = 1 /\ ckpt.buf = accepted[ckpt.owner]

PassedIsSafe == \A a \in Agent : At(a, "commit") => Safe(prop[a])

InLoop ==
  \A a \in Agent :
    pc[a] \in {"call", "verify", "commit", "reject", "amend"} => attempts[a] < MAX_RETRIES

IInv == TypeOK /\ InLoop /\ SlotIsOwn /\ PassedIsSafe /\ AcceptsOnlySafe /\ RollsBackToSafe
===========================================================================
