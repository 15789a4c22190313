---------------------------- MODULE PairingOffers ----------------------------
(***************************************************************************)
(* What pairing promises, with no threads, locks, clocks, sweeps or        *)
(* crashes: an offer is made once, stands until it has earned one device,  *)
(* has seen too many wrong codes or is closed, and never stands again; a   *)
(* device gets a grant only if an offer has earned it.                     *)
(***************************************************************************)
EXTENDS Naturals, FiniteSets

CONSTANTS Offers,       \* a code on the PC's screen, offered once
          Devices,
          MaxAttempts,  \* wrong codes that close an offer
          MaxOpen       \* offers that stand at the same time

VARIABLES offer,        \* what has become of each offer
          wrong,        \* wrong codes it has seen
          earned,       \* the devices it has earned
          grants        \* the durable truth about every device

vars == <<offer, wrong, earned, grants>>

Init ==
    /\ offer = [p \in Offers |-> "unmade"]
    /\ wrong = [p \in Offers |-> 0]
    /\ earned = [p \in Offers |-> {}]
    /\ grants = [d \in Devices |-> "absent"]

Unspent == {p \in Offers : offer[p] # "spent"}
Without(P) == [p \in Offers |-> IF p \in P THEN "closed" ELSE offer[p]]
Standing(o) == {p \in Offers : o[p] = "open"}
Earned == UNION {earned[p] : p \in Offers}

(* Offers close when their time is over, or when they are forgotten; one     *)
(* that was drawn and is refused closes unmade.                              *)
Close ==
    /\ \E P \in SUBSET Unspent : offer' = Without(P)
    /\ UNCHANGED <<wrong, earned, grants>>

(* A new one stands if there is room, after others have made some.           *)
Make(p) ==
    /\ offer[p] = "unmade"
    /\ \E P \in SUBSET (Unspent \ {p}) :
          /\ Cardinality(Standing(Without(P))) < MaxOpen
          /\ offer' = [Without(P) EXCEPT ![p] = "open"]
    /\ UNCHANGED <<wrong, earned, grants>>

Miss(p) ==
    /\ offer[p] = "open"
    /\ wrong' = [wrong EXCEPT ![p] = @ + 1]
    /\ offer' = [offer EXCEPT ![p] = IF wrong'[p] = MaxAttempts THEN "closed" ELSE "open"]
    /\ UNCHANGED <<earned, grants>>

Redeem(p, d) ==
    /\ offer[p] = "open"
    /\ d \notin Earned
    /\ offer' = [offer EXCEPT ![p] = "spent"]
    /\ earned' = [earned EXCEPT ![p] = {d}]
    /\ UNCHANGED <<wrong, grants>>

Grant(d) ==
    /\ d \in Earned /\ grants[d] = "absent"
    /\ grants' = [grants EXCEPT ![d] = "authorized"]
    /\ UNCHANGED <<offer, wrong, earned>>

Revoke(d) ==
    /\ grants[d] = "authorized"
    /\ grants' = [grants EXCEPT ![d] = "revoked"]
    /\ UNCHANGED <<offer, wrong, earned>>

Next ==
    \/ Close
    \/ \E p \in Offers : Make(p) \/ Miss(p) \/ \E d \in Devices : Redeem(p, d)
    \/ \E d \in Devices : Grant(d) \/ Revoke(d)

Spec == Init /\ [][Next]_vars
=============================================================================
