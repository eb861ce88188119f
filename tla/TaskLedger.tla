----------------------------- MODULE TaskLedger -----------------------------
(***************************************************************************)
(* What the task table promises: a task, once submitted under a fresh id,  *)
(* is pending until it is settled exactly once, as done or as failed.  Done*)
(* is final; a failed task becomes pending again only as a whole           *)
(* resubmission; anything may be discarded, and ids are never reused.      *)
(* Runners, claims, crashes, recoveries and deferrals are invisible here.  *)
(***************************************************************************)
EXTENDS Integers

VARIABLES
    ledger,  \* what became of each task that is still on record
    issued   \* how many tasks were ever submitted

State == {"pending", "done", "failed"}

TypeOK ==
    /\ issued \in Nat
    /\ DOMAIN ledger \subseteq 1..issued
    /\ ledger \in [DOMAIN ledger -> State]

Init == issued = 0 /\ ledger = [i \in {} |-> "pending"]

Submit ==
    /\ issued' = issued + 1
    /\ ledger' = [i \in DOMAIN ledger \cup {issued + 1} |->
                     IF i = issued + 1 THEN "pending" ELSE ledger[i]]

Move(i, from, to) ==
    /\ ledger[i] = from
    /\ ledger' = [ledger EXCEPT ![i] = to]
    /\ UNCHANGED issued

Discard(S) ==
    /\ ledger' = [i \in DOMAIN ledger \ S |-> ledger[i]]
    /\ UNCHANGED issued

Next ==
    \/ Submit
    \/ \E i \in DOMAIN ledger :
          \/ Move(i, "pending", "done")
          \/ Move(i, "pending", "failed")
          \/ Move(i, "failed", "pending")
    \/ \E S \in SUBSET DOMAIN ledger : Discard(S)

Spec == Init /\ [][Next]_<<ledger, issued>>
=============================================================================
