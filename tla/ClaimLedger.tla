---------------------------- MODULE ClaimLedger ----------------------------
(***************************************************************************)
(* What wgserver promises about who gets a peer, as one ledger that is     *)
(* written at once: no reads ahead, no transactions, nobody beaten to an   *)
(* address.  It is the specification Claims implements.                    *)
(*                                                                         *)
(* Whoever is granted a peer gets the lowest address that is free at that  *)
(* moment, and a user is told no only while they have their quota.         *)
(***************************************************************************)
EXTENDS Integers, FiniteSets

CONSTANTS
    Users, NoUser,  \* NoUser: an admin's peer
    Usable,         \* addresses there are to give
    Quota,
    Before          \* addresses given to admins before the first state

VARIABLES
    granted,        \* [ip, by]
    toldNo          \* users who are being told that their quota is used up

vars == <<granted, toldNo>>

Free == Usable \ {g.ip : g \in granted}
Has(u) == Cardinality({g \in granted : g.by = u})

Init == granted = [ip : Before, by : {NoUser}] /\ toldNo = {}

Give(h, who) ==
    /\ h \in Free /\ \A l \in Free : h <= l
    /\ granted' = granted \union {[ip |-> h, by |-> who]}
    /\ UNCHANGED toldNo

Claim(h, u) == Has(u) < Quota /\ Give(h, u)

Refuse(u) ==
    /\ Has(u) >= Quota
    /\ toldNo' = toldNo \union {u}
    /\ UNCHANGED granted

Told(u) ==
    /\ toldNo' = toldNo \ {u}
    /\ UNCHANGED granted

Next ==
    \/ \E h \in Free : Give(h, NoUser) \/ \E u \in Users : Claim(h, u)
    \/ \E u \in Users : Refuse(u) \/ Told(u)

Spec == Init /\ [][Next]_vars

=============================================================================
