------------------------------- MODULE Pairing -------------------------------
(***************************************************************************)
(* What the waiting room promises, without rows, keys, locks or clocks:    *)
(* every user starts out waiting, and is either paired, at one stroke and  *)
(* for good, with one other user who was waiting too, or let go alone.     *)
(* PeerLobby implements it (RefinesPairing there).                         *)
(***************************************************************************)
EXTENDS Naturals

CONSTANTS Users, Unpaired, Gone

VARIABLE partner   \* the user somebody is paired with, Unpaired or Gone

PairingTypeOK == partner \in [Users -> Users \cup {Unpaired, Gone}]

Init == partner = [u \in Users |-> Unpaired]

\* The matcher merges the bookings of a and b.
Pair(a, b) ==
    /\ a # b /\ partner[a] = Unpaired /\ partner[b] = Unpaired
    /\ partner' = [partner EXCEPT ![a] = b, ![b] = a]

\* A booking is cancelled: nobody was found, or its user never came.
LetGo(a) ==
    /\ partner[a] = Unpaired
    /\ partner' = [partner EXCEPT ![a] = Gone]

Next == \E a \in Users : LetGo(a) \/ \E b \in Users : Pair(a, b)

Spec == Init /\ [][Next]_partner
=============================================================================
