-------------------------- MODULE CollectionPromise --------------------------
(***************************************************************************)
(* What collecting money through a provider promises, whatever rows, calls *)
(* and answers it is made of.  A collection is asked for, may be captured  *)
(* by the provider, and is credited to the rider at most once and only     *)
(* after that; money that was captured is never given up.  Charges of the  *)
(* automatic kind that concern a common invoice exclude each other.        *)
(***************************************************************************)
EXTENDS FiniteSets

CONSTANTS Automatic, Manual, Owed

VARIABLES stage, target

Collections == Automatic \cup Manual
Stage == {"idle", "asked", "captured", "credited", "closed"}

PromiseInit ==
    /\ stage = [s \in Collections |-> "idle"]
    /\ target = [s \in Collections |-> {}]

Become(s, from, to) == stage[s] \in from /\ stage' = [stage EXCEPT ![s] = to]

\* The invoices are fixed before the provider hears of the collection.
Aim(s, T) ==
    /\ stage[s] = "idle" /\ target[s] = {}
    /\ target' = [target EXCEPT ![s] = T]
    /\ UNCHANGED stage

\* An automatic charge is asked for while no other one of its invoices took
\* money or may take money.
Ask(s) ==
    /\ s \in Automatic =>
          \A e \in Automatic \ {s} : target[e] \cap target[s] # {}
              => stage[e] \in {"idle", "closed"}
    /\ Become(s, {"idle"}, "asked")
    /\ UNCHANGED target

Capture(s) == Become(s, {"asked"}, "captured") /\ UNCHANGED target

Credit(s) == Become(s, {"captured"}, "credited") /\ UNCHANGED target

\* The provider declined, or the collection lapsed with it.
Close(s) == Become(s, {"asked"}, "closed") /\ UNCHANGED target

\* Collections that the provider has not heard of are given up, one after the
\* other or together, as a restart does.
GiveUp(S) ==
    /\ \A s \in S : stage[s] = "idle"
    /\ stage' = [s \in Collections |-> IF s \in S THEN "closed" ELSE stage[s]]
    /\ UNCHANGED target

PromiseNext ==
    \/ \E s \in Collections :
          \/ \E T \in (SUBSET Owed) \ {{}} : Aim(s, T)
          \/ Ask(s) \/ Capture(s) \/ Credit(s) \/ Close(s)
    \/ \E S \in SUBSET Collections : GiveUp(S)

PromiseSpec == PromiseInit /\ [][PromiseNext]_<<stage, target>>
=============================================================================
