-------------------------------- MODULE Intake --------------------------------
(***************************************************************************)
(* What the handoff boundary promises, without sessions, batches or wires. *)
(* The LCM decides each row at most once, only rows Pathfinder has durably *)
(* announced are decided, and a receipt never says anything but what was   *)
(* decided.  Handoff implements it.                                        *)
(***************************************************************************)
CONSTANT Rows

VARIABLES
    decision,   \* what the LCM made of a row
    receipt     \* what Pathfinder recorded of it

Answers == {"accepted", "rejected"}

Init ==
    /\ decision = [r \in Rows |-> "undecided"]
    /\ receipt = [r \in Rows |-> "none"]

Announce(R) ==
    /\ receipt' = [r \in Rows |-> IF r \in R /\ receipt[r] = "none" THEN "pending" ELSE receipt[r]]
    /\ UNCHANGED decision

Decide(R) ==
    /\ \A r \in R : decision[r] = "undecided" /\ receipt[r] # "none"
    /\ \E d \in [R -> Answers] :
          decision' = [r \in Rows |-> IF r \in R THEN d[r] ELSE decision[r]]
    /\ UNCHANGED receipt

Record(R) ==
    /\ \A r \in R : decision[r] \in Answers
    /\ receipt' = [r \in Rows |-> IF r \in R THEN decision[r] ELSE receipt[r]]
    /\ UNCHANGED decision

Next == \E R \in SUBSET Rows : Announce(R) \/ Decide(R) \/ Record(R)

Spec == Init /\ [][Next]_<<decision, receipt>>
=============================================================================
