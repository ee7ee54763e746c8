-------------------------- MODULE MinuteWalletProofs --------------------------
(***************************************************************************)
(* Proofs about MinuteWallet: an interview is charged once, the wallet is  *)
(* what its ledger adds up to, the month's minutes stay within the plan    *)
(* and what was given back, and unused minutes are given back once, for    *)
(* any sessions, calls, prices, months and packs.                          *)
(***************************************************************************)
EXTENDS MinuteWallet, FiniteSums, TLAPS

\* Where a call is with a session.
Bound == Holding \cup Settling \cup {"lock"}

CallOK(t) ==
    /\ pc[t] \in Bound => of[t] \in Sessions
    /\ pc[t] \in Holding => charges[of[t]] = 0
    /\ pc[t] \in Settling => of[t] \in started

CallsOK == \A t \in Calls : CallOK(t)

\* The lock on the row of a session has one holder.
OneHolds ==
    \A t, u \in Calls : pc[t] \in Holding /\ pc[u] \in Holding /\ of[t] = of[u] => t = u

\* What a call read of the wallet was not below zero.
SawOK == ~raced => \A t \in Calls, b \in Buckets : saw[t][b] >= 0

WalletInv == TypeOK /\ CallsOK /\ OneHolds /\ ChargedOnce /\ WalletIsLedger /\ SawOK

\* A session that two calls never settled at once is settled by one at a time.
OneSettles ==
    \A t, u \in Calls :
        pc[t] \in Settling /\ pc[u] \in Settling /\ of[t] = of[u] /\ of[t] \notin settling => t = u

\* What was given back, with the minutes used, is all that was reserved.
GaveBack(s, used) ==
    Total(refunded[s]) > 0 => Total(refunded[s]) + used >= Total(reserved[s])

SessionOK(s) ==
    /\ s \notin started => Total(refunded[s]) = 0
    /\ s \notin settling => GaveBack(s, elapsed[s])

SettleOK(t) ==
    of[t] \notin settling =>
        /\ pc[t] = "rows" => lasted[t] <= elapsed[of[t]] /\ GaveBack(of[t], lasted[t])
        /\ pc[t] = "refund" =>
              /\ Total(refunded[of[t]]) > 0 => paid[t] = Nothing
              /\ Total(paid[t]) > 0 => Total(paid[t]) + elapsed[of[t]] >= Total(reserved[of[t]])

RefundInv ==
    /\ OneSettles
    /\ \A s \in Sessions : SessionOK(s)
    /\ \A t \in Calls : SettleOK(t)

-----------------------------------------------------------------------------
(* The operators on wallets.                                               *)

\* A charge takes from a bucket what is there, and nothing from an empty one.
LEMMA UseOK ==
    ASSUME NEW w \in Minutes
    PROVE  /\ Use(w) \in Minutes
           /\ (\A b \in Buckets : w[b] >= 0) => \A b \in Buckets : 0 <= Use(w)[b] /\ Use(w)[b] <= w[b]
  BY WalletAssumption DEF Minutes, Use, Least, Buckets

\* What is unused is not negative, and with what was used it is all.
LEMMA UnusedOK ==
    ASSUME TypeOK, NEW s \in Sessions, NEW used \in Nat
    PROVE  /\ Unused(s, used) \in Amounts
           /\ Total(Unused(s, used)) = Total(reserved[s]) - Least(used, Total(reserved[s]))
<1>1. reserved[s] \in Amounts BY DEF TypeOK
<1> DEFINE r == reserved[s]
           left == Total(r) - Least(used, Total(r))
           p == Least(left, r["purchased"])
           m == Least(left - p, r["monthly"])
           f == Least(left - p - m, r["free"])
<1>2. r["free"] \in Nat /\ r["monthly"] \in Nat /\ r["purchased"] \in Nat
  BY <1>1 DEF Amounts, Buckets
<1>3. left \in Nat /\ left <= Total(r) BY <1>2 DEF Total, Least
<1>4. p \in Nat /\ m \in Nat /\ f \in Nat /\ f + m + p = left
  <2> HIDE DEF left
  <2>1. p \in Nat /\ p <= left /\ (p = left \/ p = r["purchased"]) BY <1>2, <1>3 DEF Least
  <2> HIDE DEF p
  <2>2. m \in Nat /\ m <= left - p /\ (m = left - p \/ m = r["monthly"]) BY <1>2, <1>3, <2>1 DEF Least
  <2> HIDE DEF m
  <2>3. f \in Nat /\ f <= left - p - m /\ (f = left - p - m \/ f = r["free"])
    BY <1>2, <1>3, <2>1, <2>2 DEF Least
  <2> HIDE DEF f
  <2>4. left <= r["free"] + r["monthly"] + r["purchased"] BY <1>3 DEF Total
  <2> HIDE DEF r
  <2> QED BY <1>2, <1>3, <2>1, <2>2, <2>3, <2>4
<1>5. Unused(s, used)
        = [b \in Buckets |-> CASE b = "free" -> f [] b = "monthly" -> m [] b = "purchased" -> p]
  BY DEF Unused
<1> HIDE DEF f, m, p, left, r
<1>6. Unused(s, used) \in Amounts BY <1>4, <1>5 DEF Amounts, Buckets
<1>7. Total(Unused(s, used)) = left BY <1>4, <1>5 DEF Total, Buckets
<1> QED BY <1>6, <1>7 DEF left, r

\* What is still due is nothing when enough was given back.
LEMMA StillDueOK ==
    ASSUME TypeOK, NEW s \in Sessions, NEW used \in Nat
    PROVE  /\ StillDue(s, used) \in Amounts
           /\ Total(refunded[s]) > 0 /\ GaveBack(s, used) => StillDue(s, used) = Nothing
           /\ Total(refunded[s]) = 0 => Total(StillDue(s, used)) + used >= Total(reserved[s])
<1>1. refunded[s] \in Amounts /\ reserved[s] \in Amounts BY DEF TypeOK
<1>2. refunded[s]["free"] \in Nat /\ refunded[s]["monthly"] \in Nat /\ refunded[s]["purchased"] \in Nat
      /\ Total(reserved[s]) \in Nat /\ Total(refunded[s]) \in Nat
  BY <1>1 DEF Amounts, Buckets, Total
<1> DEFINE x == Unused(s, used)
<1>3. x \in Amounts /\ Total(x) = Total(reserved[s]) - Least(used, Total(reserved[s])) BY UnusedOK
<1>4. x["free"] \in Nat /\ x["monthly"] \in Nat /\ x["purchased"] \in Nat
  BY <1>3 DEF Amounts, Buckets
<1> HIDE DEF x
<1>5. CASE Total(refunded[s]) >= Total(x)
  <2>1. StillDue(s, used) = Nothing BY <1>5 DEF StillDue, x
  <2>2. Nothing \in Amounts /\ Total(Nothing) = 0 BY DEF Nothing, Amounts, Buckets, Total
  <2> QED BY <1>2, <1>3, <1>5, <2>1, <2>2 DEF Least
<1>6. CASE ~(Total(refunded[s]) >= Total(x))
  <2>1. StillDue(s, used) = [b \in Buckets |-> Positive(x[b] - refunded[s][b])]
    BY <1>6 DEF StillDue, x
  <2>2. StillDue(s, used) \in Amounts
    BY <1>1, <1>3, <2>1 DEF Amounts, Positive
  <2>3. Total(refunded[s]) > 0 => ~GaveBack(s, used)
    BY <1>2, <1>3, <1>6 DEF GaveBack, Least
  <2>4. ASSUME Total(refunded[s]) = 0 PROVE Total(StillDue(s, used)) + used >= Total(reserved[s])
    <3>1. refunded[s]["free"] = 0 /\ refunded[s]["monthly"] = 0 /\ refunded[s]["purchased"] = 0
      <4>1. refunded[s]["free"] + refunded[s]["monthly"] + refunded[s]["purchased"] = 0
        BY <2>4 DEF Total
      <4> QED BY <1>2, <4>1
    <3>2. Total(StillDue(s, used)) = Total(x)
      BY <1>4, <2>1, <3>1 DEF Total, Positive, Buckets
    <3> QED BY <1>2, <1>3, <3>2 DEF Least
  <2> QED BY <2>2, <2>3, <2>4
<1> QED BY <1>5, <1>6

-----------------------------------------------------------------------------
(* Types of the calls' variables, by the way a call moves.                 *)

LocalOK ==
    /\ pc \in [Calls -> Places] /\ of \in [Calls -> Sessions \cup {NoSession}]
    /\ saw \in [Calls -> Minutes] /\ paid \in [Calls -> Amounts]
    /\ resets \in [Calls -> BOOLEAN] /\ month \in [Calls -> 0..period]
    /\ lasted \in [Calls -> 0..Cost]

LEMMA LeaveOK ==
    ASSUME TypeOK, NEW t \in Calls, Leave(t)
    PROVE  period' = period => LocalOK'
<1>1. Nothing \in Minutes /\ Nothing \in Amounts BY DEF Nothing, Minutes, Amounts
<1>2. "done" \in Places /\ 0 \in 0..period /\ 0 \in 0..Cost
  BY WalletAssumption DEF Places, TypeOK
<1> QED BY <1>1, <1>2 DEF TypeOK, Leave, LocalOK

LEMMA PlusOK ==
    ASSUME NEW v \in Amounts
    PROVE  /\ \A w \in Minutes : Plus(w, v) \in Minutes
           /\ \A w \in Amounts : Plus(w, v) \in Amounts
           /\ \A w \in [Kept -> Int] : Plus(w, v) \in [Kept -> Int]
           /\ \A w \in Minutes, b \in Buckets : Plus(w, v)[b] = w[b] + v[b]
           /\ \A w \in [Kept -> Int], b \in Kept : Plus(w, v)[b] = w[b] + v[b]
           /\ \A w \in Minutes : Total(Plus(w, v)) = Total(w) + Total(v)
  BY DEF Plus, Minutes, Amounts, Buckets, Kept, Total

\* What is given back moves the wallet and its ledger alike.
LEMMA GivenBack ==
    ASSUME wallet \in Minutes, booked \in [Kept -> Int], NEW v \in Amounts,
           wallet' = Plus(wallet, v), booked' = Plus(booked, v)
    PROVE  /\ wallet' \in Minutes /\ booked' \in [Kept -> Int]
           /\ \A b \in Buckets : wallet'[b] = wallet[b] + v[b]
           /\ \A b \in Kept : booked'[b] = booked[b] + v[b]
<1>1. wallet' \in Minutes /\ booked' \in [Kept -> Int] BY PlusOK
<1>2. \A b \in Buckets : wallet'[b] = wallet[b] + v[b] BY PlusOK
<1>3. \A b \in Kept : booked'[b] = booked[b] + v[b] BY PlusOK
<1> QED BY <1>1, <1>2, <1>3

\* A charge keeps the wallet and its ledger in step.
LEMMA ReserveOK ==
    ASSUME WalletInv, NEW t \in Calls, NEW w \in Minutes, NEW read \in Minutes,
           of[t] \in Sessions, charges[of[t]] = 0, Reserve(t, w, read),
           ~raced => /\ \A b \in Buckets : w[b] >= 0 /\ read[b] >= 0
                     /\ \A b \in Kept : w[b] = booked[b]
    PROVE  /\ wallet' \in Minutes /\ booked' \in [Kept -> Int]
           /\ reserved' \in [Sessions -> Amounts] /\ refunded' \in [Sessions -> Amounts]
           /\ charges' \in [Sessions -> Nat] /\ started' \subseteq Sessions
           /\ raced' \in BOOLEAN /\ (~raced' => ~raced)
           /\ ChargedOnce' /\ WalletIsLedger'
<1> DEFINE use == Use(read)
<1>1. use \in Minutes BY UseOK
<1>2. (\A b \in Buckets : read[b] >= 0) => \A b \in Buckets : 0 <= use[b] /\ use[b] <= read[b] BY UseOK
<1>3. /\ wallet' = [b \in Buckets |-> w[b] - use[b]]
      /\ booked' = [b \in Kept |-> booked[b] - Positive(use[b])]
      /\ reserved' = [reserved EXCEPT ![of[t]] = [b \in Buckets |-> @[b] + Positive(use[b])]]
      /\ charges' = [charges EXCEPT ![of[t]] = @ + 1]
      /\ started' = started \cup {of[t]}
      /\ raced' = (raced \/ \E b \in Buckets : w[b] < read[b])
      /\ refunded' = refunded
  BY DEF Reserve, Decrement
<1> HIDE DEF use
<1>4. \A b \in Buckets : Positive(use[b]) \in Nat BY <1>1 DEF Minutes, Positive
<1>5. wallet' \in Minutes BY <1>1, <1>3 DEF Minutes
<1>6. booked' \in [Kept -> Int] BY <1>3, <1>4 DEF WalletInv, TypeOK, Kept, Buckets
<1>7. reserved' \in [Sessions -> Amounts] BY <1>3, <1>4 DEF WalletInv, TypeOK, Amounts
<1>8. refunded' \in [Sessions -> Amounts] BY <1>3 DEF WalletInv, TypeOK
<1>9. charges' \in [Sessions -> Nat] /\ started' \subseteq Sessions BY <1>3 DEF WalletInv, TypeOK
<1>10. raced' \in BOOLEAN /\ (~raced' => ~raced) BY <1>3 DEF WalletInv, TypeOK
<1>11. ChargedOnce' BY <1>3 DEF WalletInv, TypeOK, ChargedOnce
<1>12. ASSUME ~raced' PROVE (\A b \in Buckets : wallet'[b] >= 0) /\ (\A b \in Kept : wallet'[b] = booked'[b])
  <2>1. ~raced /\ \A b \in Buckets : ~(w[b] < read[b]) BY <1>3, <1>12
  <2>2. \A b \in Buckets : w[b] >= read[b] /\ use[b] >= 0 /\ use[b] <= read[b] BY <1>2, <2>1 DEF Minutes
  <2>3. \A b \in Buckets : wallet'[b] >= 0 BY <1>1, <1>3, <2>2 DEF Minutes
  <2>4. \A b \in Kept : wallet'[b] = booked'[b] BY <1>1, <1>3, <2>1, <2>2 DEF Minutes, Kept, Buckets, Positive
  <2> QED BY <2>3, <2>4
<1>13. WalletIsLedger' BY <1>12 DEF WalletIsLedger
<1> QED BY <1>5, <1>6, <1>7, <1>8, <1>9, <1>10, <1>11, <1>13

-----------------------------------------------------------------------------
LEMMA InitOK == Init => WalletInv /\ RefundInv
<1> SUFFICES ASSUME Init PROVE WalletInv /\ RefundInv OBVIOUS
<1>1. Nothing \in Minutes /\ Nothing \in Amounts /\ Total(Nothing) = 0
      /\ \A b \in Buckets : Nothing[b] = 0
  BY DEF Nothing, Minutes, Amounts, Buckets, Total
<1>2. TypeOK
  <2>1. wallet \in Minutes /\ booked \in [Kept -> Int] /\ packs \in 0..MaxPacks
    BY WalletAssumption DEF Init, Minutes, Buckets, Kept
  <2>2. period \in Nat \ {0} /\ grantedIn \in 0..period /\ planRows \subseteq 1..period
    BY DEF Init
  <2>3. active \in BOOLEAN /\ lapsed \in BOOLEAN BY DEF Init
  <2>4. /\ charges \in [Sessions -> Nat] /\ started \subseteq Sessions
        /\ elapsed \in [Sessions -> 0..Cost]
    BY WalletAssumption DEF Init
  <2>5. /\ reserved \in [Sessions -> Amounts] /\ refunded \in [Sessions -> Amounts]
        /\ saw \in [Calls -> Minutes] /\ paid \in [Calls -> Amounts]
    BY <1>1 DEF Init
  <2>6. /\ pc \in [Calls -> Places] /\ of \in [Calls -> Sessions \cup {NoSession}]
        /\ resets \in [Calls -> BOOLEAN] /\ raced \in BOOLEAN /\ settling \subseteq Sessions
    BY DEF Init, Places
  <2>7. month \in [Calls -> 0..period] /\ lasted \in [Calls -> 0..Cost]
    BY WalletAssumption DEF Init
  <2> QED BY <2>1, <2>2, <2>3, <2>4, <2>5, <2>6, <2>7 DEF TypeOK
<1>3. CallsOK /\ OneHolds /\ ChargedOnce
  BY DEF Init, CallsOK, CallOK, Bound, Holding, Settling, OneHolds, ChargedOnce
<1>4. WalletIsLedger BY WalletAssumption DEF Init, WalletIsLedger, Buckets, Kept
<1>5. SawOK BY <1>1 DEF Init, SawOK
<1>6. RefundInv
  BY <1>1 DEF Init, RefundInv, OneSettles, SessionOK, SettleOK, GaveBack, Settling
<1> QED BY <1>2, <1>3, <1>4, <1>5, <1>6 DEF WalletInv

(* One lemma for the steps of the wallet, one for those of the refunds.    *)
LEMMA WalletStep == WalletInv /\ [Next]_vars => WalletInv'
<1> SUFFICES ASSUME WalletInv, [Next]_vars PROVE WalletInv' OBVIOUS
<1> USE WalletAssumption DEF WalletInv, Call, Go, Finish, Leave, LookForGrant, BeginSettle, money, plan, rows, clock, local, history
<1>0. Nothing \in Minutes /\ Nothing \in Amounts /\ \A b \in Buckets : Nothing[b] = 0
  BY DEF Nothing, Minutes, Amounts, Buckets
<1>1. ASSUME NextPeriod PROVE WalletInv'
  <2>1. TypeOK' BY <1>1 DEF NextPeriod, TypeOK, Minutes, Buckets, Kept, Places
  <2>2. CallsOK' BY <1>1 DEF NextPeriod, CallsOK, CallOK, Bound, Holding, Settling, TypeOK
  <2>3. OneHolds' /\ ChargedOnce' BY <1>1 DEF NextPeriod, OneHolds, ChargedOnce, Holding, TypeOK
  <2>4. WalletIsLedger' BY <1>1 DEF NextPeriod, WalletIsLedger, TypeOK
  <2>5. SawOK' BY <1>0, <1>1 DEF NextPeriod, SawOK, TypeOK
  <2> QED BY <2>1, <2>2, <2>3, <2>4, <2>5
<1>2. ASSUME Subscribe PROVE WalletInv'
  <2>1. TypeOK' BY <1>2 DEF Subscribe, TypeOK, Minutes, Buckets, Kept, Places
  <2>2. CallsOK' BY <1>2 DEF Subscribe, CallsOK, CallOK, Bound, Holding, Settling, TypeOK
  <2>3. OneHolds' /\ ChargedOnce' BY <1>2 DEF Subscribe, OneHolds, ChargedOnce, Holding, TypeOK
  <2>4. WalletIsLedger' BY <1>2 DEF Subscribe, WalletIsLedger, TypeOK
  <2>5. SawOK' BY <1>0, <1>2 DEF Subscribe, SawOK, TypeOK
  <2> QED BY <2>1, <2>2, <2>3, <2>4, <2>5
<1>3. ASSUME Lapse PROVE WalletInv'
  <2>1. TypeOK' BY <1>3 DEF Lapse, TypeOK, Minutes, Buckets, Kept, Places
  <2>2. CallsOK' BY <1>3 DEF Lapse, CallsOK, CallOK, Bound, Holding, Settling, TypeOK
  <2>3. OneHolds' /\ ChargedOnce' BY <1>3 DEF Lapse, OneHolds, ChargedOnce, Holding, TypeOK
  <2>4. WalletIsLedger' BY <1>3 DEF Lapse, WalletIsLedger, TypeOK
  <2>5. SawOK' BY <1>0, <1>3 DEF Lapse, SawOK, TypeOK
  <2> QED BY <2>1, <2>2, <2>3, <2>4, <2>5
<1>4. ASSUME BuyPack PROVE WalletInv'
  <2>1. TypeOK' BY <1>4 DEF BuyPack, TypeOK, Minutes, Buckets, Kept, Places
  <2>2. CallsOK' BY <1>4 DEF BuyPack, CallsOK, CallOK, Bound, Holding, Settling, TypeOK
  <2>3. OneHolds' /\ ChargedOnce' BY <1>4 DEF BuyPack, OneHolds, ChargedOnce, Holding, TypeOK
  <2>4. WalletIsLedger' BY <1>4 DEF BuyPack, WalletIsLedger, TypeOK, Minutes, Buckets, Kept
  <2>5. SawOK' BY <1>0, <1>4 DEF BuyPack, SawOK, TypeOK
  <2> QED BY <2>1, <2>2, <2>3, <2>4, <2>5
<1>5. ASSUME NEW t \in Calls, Read(t) PROVE WalletInv'
  <2>1. TypeOK' BY <1>5 DEF Read, TypeOK, Minutes, Buckets, Kept, Places
  <2>2. CallsOK' BY <1>5 DEF Read, CallsOK, CallOK, Bound, Holding, Settling, TypeOK
  <2>3. OneHolds' /\ ChargedOnce' BY <1>5 DEF Read, OneHolds, ChargedOnce, Holding, TypeOK
  <2>4. WalletIsLedger' BY <1>5 DEF Read, WalletIsLedger, TypeOK
  <2>5. SawOK' BY <1>0, <1>5 DEF Read, SawOK, TypeOK
  <2> QED BY <2>1, <2>2, <2>3, <2>4, <2>5
<1>6. ASSUME NEW t \in Calls, FindExpired(t) PROVE WalletInv'
  <2>1. TypeOK' BY <1>6 DEF FindExpired, TypeOK, Minutes, Buckets, Kept, Places
  <2>2. CallsOK' BY <1>6 DEF FindExpired, CallsOK, CallOK, Bound, Holding, Settling, TypeOK
  <2>3. OneHolds' /\ ChargedOnce' BY <1>6 DEF FindExpired, OneHolds, ChargedOnce, Holding, TypeOK
  <2>4. WalletIsLedger' BY <1>6 DEF FindExpired, WalletIsLedger, TypeOK
  <2>5. SawOK' BY <1>0, <1>6 DEF FindExpired, SawOK, TypeOK
  <2> QED BY <2>1, <2>2, <2>3, <2>4, <2>5
<1>7. ASSUME NEW t \in Calls, NEW s \in Sessions, Start(t, s) PROVE WalletInv'
  <2>1. TypeOK' BY <1>7 DEF Start, TypeOK, Minutes, Buckets, Kept, Places
  <2>2. CallsOK' BY <1>7 DEF Start, CallsOK, CallOK, Bound, Holding, Settling, TypeOK
  <2>3. OneHolds' /\ ChargedOnce' BY <1>7 DEF Start, OneHolds, ChargedOnce, Holding, TypeOK
  <2>4. WalletIsLedger' BY <1>7 DEF Start, WalletIsLedger, TypeOK
  <2>5. SawOK' BY <1>0, <1>7 DEF Start, SawOK, TypeOK
  <2> QED BY <2>1, <2>2, <2>3, <2>4, <2>5
<1>8. ASSUME NEW t \in Calls, NEW s \in Sessions, Complete(t, s) PROVE WalletInv'
  <2>1. TypeOK' BY <1>8 DEF Complete, TypeOK, Minutes, Buckets, Kept, Places
  <2>2. CallsOK' BY <1>8 DEF Complete, CallsOK, CallOK, Bound, Holding, Settling, TypeOK
  <2>3. OneHolds' /\ ChargedOnce' BY <1>8 DEF Complete, OneHolds, ChargedOnce, Holding, TypeOK
  <2>4. WalletIsLedger' BY <1>8 DEF Complete, WalletIsLedger, TypeOK
  <2>5. SawOK' BY <1>0, <1>8 DEF Complete, SawOK, TypeOK
  <2> QED BY <2>1, <2>2, <2>3, <2>4, <2>5
<1>9. ASSUME NEW t \in Calls, NEW s \in Sessions, SettleAgain(t, s) PROVE WalletInv'
  <2>1. TypeOK' BY <1>9 DEF SettleAgain, TypeOK, Minutes, Buckets, Kept, Places
  <2>2. CallsOK' BY <1>9 DEF SettleAgain, CallsOK, CallOK, Bound, Holding, Settling, TypeOK
  <2>3. OneHolds' /\ ChargedOnce' BY <1>9 DEF SettleAgain, OneHolds, ChargedOnce, Holding, TypeOK
  <2>4. WalletIsLedger' BY <1>9 DEF SettleAgain, WalletIsLedger, TypeOK
  <2>5. SawOK' BY <1>0, <1>9 DEF SettleAgain, SawOK, TypeOK
  <2> QED BY <2>1, <2>2, <2>3, <2>4, <2>5
<1>10. ASSUME NEW t \in Calls, Expire(t) PROVE WalletInv'
  <2>1. LocalOK' BY <1>10, LeaveOK DEF Expire
  <2>2. wallet' \in Minutes BY <1>10 DEF Expire, TypeOK, Minutes, Buckets
  <2>3. grantedIn' \in 0..period BY <1>10 DEF Expire, TypeOK
  <2>4. TypeOK' BY <1>10, <2>1, <2>2, <2>3 DEF Expire, TypeOK, LocalOK
  <2>5. CallsOK' BY <1>10 DEF Expire, CallsOK, CallOK, Bound, Holding, Settling, TypeOK
  <2>6. OneHolds' /\ ChargedOnce' BY <1>10 DEF Expire, OneHolds, ChargedOnce, Holding, TypeOK
  <2>7. WalletIsLedger' BY <1>10 DEF Expire, WalletIsLedger, TypeOK, Minutes, Buckets, Kept
  <2>8. SawOK' BY <1>0, <1>10 DEF Expire, SawOK, TypeOK
  <2> QED BY <2>4, <2>5, <2>6, <2>7, <2>8
<1>11. ASSUME NEW t \in Calls, ReadLook(t) PROVE WalletInv'
  <2>1. TypeOK' BY <1>11 DEF ReadLook, TypeOK, Minutes, Buckets, Kept, Places
  <2>2. CallsOK' BY <1>11 DEF ReadLook, CallsOK, CallOK, Bound, Holding, Settling, TypeOK
  <2>3. OneHolds' /\ ChargedOnce' BY <1>11 DEF ReadLook, OneHolds, ChargedOnce, Holding, TypeOK
  <2>4. WalletIsLedger' BY <1>11 DEF ReadLook, WalletIsLedger, TypeOK
  <2>5. SawOK' BY <1>0, <1>11 DEF ReadLook, SawOK, TypeOK
  <2> QED BY <2>1, <2>2, <2>3, <2>4, <2>5
<1>12. ASSUME NEW t \in Calls, ReadGrant(t) PROVE WalletInv'
  <2>1. TypeOK' BY <1>12 DEF ReadGrant, TypeOK, Places, Granted, MarkGranted, Minutes, Buckets
  <2>2. CallsOK' BY <1>12 DEF ReadGrant, CallsOK, CallOK, Bound, Holding, Settling, TypeOK
  <2>3. OneHolds' /\ ChargedOnce' BY <1>12 DEF ReadGrant, OneHolds, ChargedOnce, Holding, TypeOK
  <2>4. WalletIsLedger' BY <1>12 DEF ReadGrant, WalletIsLedger, TypeOK, Granted, Minutes, Buckets, Kept
  <2>5. SawOK' BY <1>0, <1>12 DEF ReadGrant, SawOK, TypeOK
  <2> QED BY <2>1, <2>2, <2>3, <2>4, <2>5
<1>13. ASSUME NEW t \in Calls, ReadRow(t) PROVE WalletInv'
  <2>1. LocalOK' BY <1>13, LeaveOK DEF ReadRow
  <2>2. TypeOK' BY <1>13, <2>1 DEF ReadRow, TypeOK, LocalOK
  <2>3. CallsOK' BY <1>13 DEF ReadRow, CallsOK, CallOK, Bound, Holding, Settling, TypeOK
  <2>4. OneHolds' /\ ChargedOnce' BY <1>13 DEF ReadRow, OneHolds, ChargedOnce, Holding, TypeOK
  <2>5. WalletIsLedger' BY <1>13 DEF ReadRow, WalletIsLedger, TypeOK
  <2>6. SawOK' BY <1>0, <1>13 DEF ReadRow, SawOK, TypeOK
  <2> QED BY <2>2, <2>3, <2>4, <2>5, <2>6
<1>14. ASSUME NEW t \in Calls, ReadDone(t) PROVE WalletInv'
  <2>1. LocalOK' BY <1>14, LeaveOK DEF ReadDone
  <2>2. TypeOK' BY <1>14, <2>1 DEF ReadDone, TypeOK, LocalOK
  <2>3. CallsOK' BY <1>14 DEF ReadDone, CallsOK, CallOK, Bound, Holding, Settling, TypeOK
  <2>4. OneHolds' /\ ChargedOnce' BY <1>14 DEF ReadDone, OneHolds, ChargedOnce, Holding, TypeOK
  <2>5. WalletIsLedger' BY <1>14 DEF ReadDone, WalletIsLedger, TypeOK
  <2>6. SawOK' BY <1>0, <1>14 DEF ReadDone, SawOK, TypeOK
  <2> QED BY <2>2, <2>3, <2>4, <2>5, <2>6
<1>15. ASSUME NEW t \in Calls, Lock(t) PROVE WalletInv'
  <2>1. TypeOK' BY <1>15 DEF Lock, TypeOK, Minutes, Buckets, Kept, Places
  <2>2. CallsOK' BY <1>15 DEF Lock, CallsOK, CallOK, Bound, Holding, Settling, TypeOK
  <2>3. OneHolds' /\ ChargedOnce' BY <1>15 DEF Lock, OneHolds, ChargedOnce, Holding, TypeOK, CallsOK, CallOK, Bound
  <2>4. WalletIsLedger' BY <1>15 DEF Lock, WalletIsLedger, TypeOK
  <2>5. SawOK' BY <1>0, <1>15 DEF Lock, SawOK, TypeOK
  <2> QED BY <2>1, <2>2, <2>3, <2>4, <2>5
<1>16. ASSUME NEW t \in Calls, AlreadyStarted(t) PROVE WalletInv'
  <2>1. LocalOK' BY <1>16, LeaveOK DEF AlreadyStarted
  <2>2. TypeOK' BY <1>16, <2>1 DEF AlreadyStarted, TypeOK, LocalOK
  <2>3. CallsOK' BY <1>16 DEF AlreadyStarted, CallsOK, CallOK, Bound, Holding, Settling, TypeOK
  <2>4. OneHolds' /\ ChargedOnce' BY <1>16 DEF AlreadyStarted, OneHolds, ChargedOnce, Holding, TypeOK
  <2>5. WalletIsLedger' BY <1>16 DEF AlreadyStarted, WalletIsLedger, TypeOK
  <2>6. SawOK' BY <1>0, <1>16 DEF AlreadyStarted, SawOK, TypeOK
  <2> QED BY <2>2, <2>3, <2>4, <2>5, <2>6
<1>17. ASSUME NEW t \in Calls, StartLook(t) PROVE WalletInv'
  <2>1. TypeOK' BY <1>17 DEF StartLook, TypeOK, Minutes, Buckets, Kept, Places
  <2>2. CallsOK' BY <1>17 DEF StartLook, CallsOK, CallOK, Bound, Holding, Settling, TypeOK
  <2>3. OneHolds' /\ ChargedOnce' BY <1>17 DEF StartLook, OneHolds, ChargedOnce, Holding, TypeOK
  <2>4. WalletIsLedger' BY <1>17 DEF StartLook, WalletIsLedger, TypeOK
  <2>5. SawOK' BY <1>0, <1>17 DEF StartLook, SawOK, TypeOK
  <2> QED BY <2>1, <2>2, <2>3, <2>4, <2>5
<1>18. ASSUME NEW t \in Calls, ReadTotal(t) PROVE WalletInv'
  <2>1. TypeOK' BY <1>18 DEF ReadTotal, TypeOK, Minutes, Buckets, Kept, Places
  <2>2. CallsOK' BY <1>18 DEF ReadTotal, CallsOK, CallOK, Bound, Holding, Settling, TypeOK
  <2>3. OneHolds' /\ ChargedOnce' BY <1>18 DEF ReadTotal, OneHolds, ChargedOnce, Holding, TypeOK
  <2>4. WalletIsLedger' BY <1>18 DEF ReadTotal, WalletIsLedger, TypeOK
  <2>5. SawOK' BY <1>0, <1>18 DEF ReadTotal, SawOK, TypeOK, WalletIsLedger
  <2> QED BY <2>1, <2>2, <2>3, <2>4, <2>5
<1>19. ASSUME NEW t \in Calls, TooFewMinutes(t) PROVE WalletInv'
  <2>1. LocalOK' BY <1>19, LeaveOK DEF TooFewMinutes
  <2>2. TypeOK' BY <1>19, <2>1 DEF TooFewMinutes, TypeOK, LocalOK
  <2>3. CallsOK' BY <1>19 DEF TooFewMinutes, CallsOK, CallOK, Bound, Holding, Settling, TypeOK
  <2>4. OneHolds' /\ ChargedOnce' BY <1>19 DEF TooFewMinutes, OneHolds, ChargedOnce, Holding, TypeOK
  <2>5. WalletIsLedger' BY <1>19 DEF TooFewMinutes, WalletIsLedger, TypeOK
  <2>6. SawOK' BY <1>0, <1>19 DEF TooFewMinutes, SawOK, TypeOK
  <2> QED BY <2>2, <2>3, <2>4, <2>5, <2>6
<1>20. ASSUME NEW t \in Calls, StartReserve(t) PROVE WalletInv'
  <2>1. of[t] \in Sessions /\ charges[of[t]] = 0 BY <1>20 DEF StartReserve, CallsOK, CallOK, Bound, Holding, Settling
  <2>2. Reserve(t, wallet, saw[t]) /\ UNCHANGED plan /\ Leave(t) BY <1>20 DEF StartReserve
  <2>3. wallet \in Minutes /\ saw[t] \in Minutes BY DEF TypeOK
  <2>4. ~raced => /\ \A b \in Buckets : wallet[b] >= 0 /\ saw[t][b] >= 0
                 /\ \A b \in Kept : wallet[b] = booked[b]
    BY DEF SawOK, WalletIsLedger
  <2>5. grantedIn' = grantedIn /\ planRows' = planRows BY <2>2
  <2>6. /\ wallet' \in Minutes /\ booked' \in [Kept -> Int]
        /\ reserved' \in [Sessions -> Amounts] /\ refunded' \in [Sessions -> Amounts]
        /\ charges' \in [Sessions -> Nat] /\ started' \subseteq Sessions
        /\ raced' \in BOOLEAN /\ (~raced' => ~raced)
        /\ ChargedOnce' /\ WalletIsLedger'
    BY <2>1, <2>2, <2>3, <2>4, ReserveOK
  <2>7. LocalOK' BY <2>2, LeaveOK
  <2>8. packs' = packs /\ elapsed' = elapsed /\ settling' = settling BY <2>2 DEF Reserve
  <2>9. TypeOK' BY <2>2, <2>5, <2>6, <2>7, <2>8 DEF TypeOK, LocalOK
  <2>10. CallsOK' BY <1>20, <2>1, <2>2 DEF StartReserve, CallsOK, CallOK, Bound, Holding, Settling, OneHolds, Reserve, TypeOK
  <2>11. OneHolds' BY <2>2 DEF OneHolds, Holding, TypeOK
  <2>12. SawOK' BY <1>0, <2>2, <2>6 DEF SawOK, TypeOK
  <2> QED BY <2>6, <2>9, <2>10, <2>11, <2>12
<1>21. ASSUME NEW t \in Calls, StartGrant(t) PROVE WalletInv'
  <2>1. of[t] \in Sessions /\ charges[of[t]] = 0 BY <1>21 DEF StartGrant, CallsOK, CallOK, Bound, Holding, Settling
  <2>2. Reserve(t, Granted(wallet), Granted(wallet)) /\ UNCHANGED <<active, lapsed, period>> /\ Leave(t)
    BY <1>21 DEF StartGrant
  <2>3. Granted(wallet) \in Minutes
    BY DEF TypeOK, Granted, Minutes, Buckets
  <2>4. ~raced => /\ \A b \in Buckets : Granted(wallet)[b] >= 0
                 /\ \A b \in Kept : Granted(wallet)[b] = booked[b]
    BY DEF Granted, WalletIsLedger, TypeOK, Minutes, Buckets, Kept
  <2>5. grantedIn' \in 0..period /\ planRows' \subseteq 1..period
    BY <1>21 DEF StartGrant, MarkGranted, TypeOK
  <2>6. /\ wallet' \in Minutes /\ booked' \in [Kept -> Int]
        /\ reserved' \in [Sessions -> Amounts] /\ refunded' \in [Sessions -> Amounts]
        /\ charges' \in [Sessions -> Nat] /\ started' \subseteq Sessions
        /\ raced' \in BOOLEAN /\ (~raced' => ~raced)
        /\ ChargedOnce' /\ WalletIsLedger'
    BY <2>1, <2>2, <2>3, <2>4, ReserveOK
  <2>7. LocalOK' BY <2>2, LeaveOK
  <2>8. packs' = packs /\ elapsed' = elapsed /\ settling' = settling BY <2>2 DEF Reserve
  <2>9. TypeOK' BY <2>2, <2>5, <2>6, <2>7, <2>8 DEF TypeOK, LocalOK
  <2>10. CallsOK' BY <1>21, <2>1, <2>2 DEF StartGrant, CallsOK, CallOK, Bound, Holding, Settling, OneHolds, Reserve, TypeOK
  <2>11. OneHolds' BY <2>2 DEF OneHolds, Holding, TypeOK
  <2>12. SawOK' BY <1>0, <2>2, <2>6 DEF SawOK, TypeOK
  <2> QED BY <2>6, <2>9, <2>10, <2>11, <2>12
<1>22. ASSUME NEW t \in Calls, ReadSession(t) PROVE WalletInv'
  <2>1. of[t] \in Sessions BY <1>22 DEF ReadSession, CallsOK, CallOK, Bound, Holding, Settling
  <2>2. TypeOK' BY <1>22, <2>1 DEF ReadSession, TypeOK, Minutes, Buckets, Kept, Places
  <2>3. CallsOK' BY <1>22 DEF ReadSession, CallsOK, CallOK, Bound, Holding, Settling, TypeOK
  <2>4. OneHolds' /\ ChargedOnce' BY <1>22 DEF ReadSession, OneHolds, ChargedOnce, Holding, TypeOK
  <2>5. WalletIsLedger' BY <1>22 DEF ReadSession, WalletIsLedger, TypeOK
  <2>6. SawOK' BY <1>0, <1>22 DEF ReadSession, SawOK, TypeOK
  <2> QED BY <2>2, <2>3, <2>4, <2>5, <2>6
<1>23. ASSUME NEW t \in Calls, ReadRows(t) PROVE WalletInv'
  <2>1. of[t] \in Sessions /\ lasted[t] \in Nat BY <1>23 DEF ReadRows, CallsOK, CallOK, Bound, Holding, Settling, TypeOK
  <2>2. StillDue(of[t], lasted[t]) \in Amounts BY <2>1, StillDueOK
  <2>3. TypeOK' BY <1>23, <2>2 DEF ReadRows, TypeOK, Minutes, Buckets, Kept, Places
  <2>4. CallsOK' BY <1>23 DEF ReadRows, CallsOK, CallOK, Bound, Holding, Settling, TypeOK
  <2>5. OneHolds' /\ ChargedOnce' BY <1>23 DEF ReadRows, OneHolds, ChargedOnce, Holding, TypeOK
  <2>6. WalletIsLedger' BY <1>23 DEF ReadRows, WalletIsLedger, TypeOK
  <2>7. SawOK' BY <1>0, <1>23 DEF ReadRows, SawOK, TypeOK
  <2> QED BY <2>3, <2>4, <2>5, <2>6, <2>7
<1>24. ASSUME NEW t \in Calls, Refund(t) PROVE WalletInv'
  <2>1. LocalOK' BY <1>24, LeaveOK DEF Refund
  <2>2. of[t] \in Sessions /\ paid[t] \in Amounts BY <1>24 DEF Refund, CallsOK, CallOK, Bound, Holding, Settling, TypeOK
  <2>3. wallet' = Plus(wallet, paid[t]) /\ booked' = Plus(booked, paid[t])
        /\ refunded' = [refunded EXCEPT ![of[t]] = Plus(refunded[of[t]], paid[t])]
    BY <1>24 DEF Refund
  <2>4. /\ wallet' \in Minutes /\ booked' \in [Kept -> Int]
        /\ \A b \in Buckets : wallet'[b] = wallet[b] + paid[t][b]
        /\ \A b \in Kept : booked'[b] = booked[b] + paid[t][b]
    <3>1. wallet \in Minutes /\ booked \in [Kept -> Int] BY DEF TypeOK
    <3> QED BY <2>2, <2>3, <3>1, GivenBack
  <2>5. refunded' \in [Sessions -> Amounts] BY <2>2, <2>3, PlusOK DEF TypeOK
  <2>6. TypeOK' BY <1>24, <2>1, <2>2, <2>4, <2>5 DEF Refund, TypeOK, LocalOK
  <2>7. CallsOK' BY <1>24 DEF Refund, CallsOK, CallOK, Bound, Holding, Settling, TypeOK
  <2>8. OneHolds' /\ ChargedOnce' BY <1>24 DEF Refund, OneHolds, ChargedOnce, Holding, TypeOK
  <2>9. WalletIsLedger' BY <1>24, <2>1, <2>2, <2>4, <2>5 DEF Refund, WalletIsLedger, TypeOK, Minutes, Amounts, Buckets, Kept
  <2>10. SawOK' BY <1>0, <1>24 DEF Refund, SawOK, TypeOK
  <2> QED BY <2>6, <2>7, <2>8, <2>9, <2>10
<1>25. ASSUME NEW t \in Calls, Abort(t) PROVE WalletInv'
  <2>1. LocalOK' BY <1>25, LeaveOK DEF Abort
  <2>2. TypeOK' BY <1>25, <2>1 DEF Abort, TypeOK, LocalOK
  <2>3. CallsOK' BY <1>25 DEF Abort, CallsOK, CallOK, Bound, Holding, Settling, TypeOK
  <2>4. OneHolds' /\ ChargedOnce' BY <1>25 DEF Abort, OneHolds, ChargedOnce, Holding, TypeOK
  <2>5. WalletIsLedger' BY <1>25 DEF Abort, WalletIsLedger, TypeOK
  <2>6. SawOK' BY <1>0, <1>25 DEF Abort, SawOK, TypeOK
  <2> QED BY <2>2, <2>3, <2>4, <2>5, <2>6
<1>26. CASE UNCHANGED vars
  <2>1. UNCHANGED <<money, plan, rows, clock, pc, of, local, history>> BY <1>26 DEF vars
  <2> QED BY <2>1 DEF TypeOK, CallsOK, CallOK, OneHolds, ChargedOnce, WalletIsLedger, SawOK
<1> QED BY <1>1, <1>2, <1>3, <1>4, <1>5, <1>6, <1>7, <1>8, <1>9, <1>10, <1>11, <1>12, <1>13,
    <1>14, <1>15, <1>16, <1>17, <1>18, <1>19, <1>20, <1>21, <1>22, <1>23, <1>24, <1>25, <1>26
    DEF Next, Arrive, Grants, Starts, Settles

LEMMA RefundStep == WalletInv /\ RefundInv /\ [Next]_vars => RefundInv'
<1> SUFFICES ASSUME WalletInv, RefundInv, [Next]_vars PROVE RefundInv' OBVIOUS
<1> USE WalletAssumption DEF WalletInv, RefundInv, Call, Go, Finish, Leave, LookForGrant, BeginSettle, money, plan, rows, clock, local, history
<1>0. Total(Nothing) = 0 BY DEF Nothing, Buckets, Total
<1>1. ASSUME NextPeriod PROVE RefundInv'
  BY <1>1 DEF NextPeriod, OneSettles, SessionOK, SettleOK, GaveBack, TypeOK
<1>2. ASSUME Subscribe PROVE RefundInv'
  BY <1>2 DEF Subscribe, OneSettles, SessionOK, SettleOK, GaveBack, TypeOK
<1>3. ASSUME Lapse PROVE RefundInv'
  BY <1>3 DEF Lapse, OneSettles, SessionOK, SettleOK, GaveBack, TypeOK
<1>4. ASSUME BuyPack PROVE RefundInv'
  BY <1>4 DEF BuyPack, OneSettles, SessionOK, SettleOK, GaveBack, TypeOK
<1>5. ASSUME NEW t \in Calls, Read(t) PROVE RefundInv'
  <2>1. OneSettles' BY <1>5 DEF Read, OneSettles, Settling, TypeOK
  <2>2. \A x \in Sessions : SessionOK(x)' BY <1>5 DEF Read, SessionOK, GaveBack
  <2>3. \A u \in Calls : SettleOK(u)' BY <1>5 DEF Read, SettleOK, GaveBack, TypeOK
  <2> QED BY <2>1, <2>2, <2>3
<1>6. ASSUME NEW t \in Calls, FindExpired(t) PROVE RefundInv'
  <2>1. OneSettles' BY <1>6 DEF FindExpired, OneSettles, Settling, TypeOK
  <2>2. \A x \in Sessions : SessionOK(x)' BY <1>6 DEF FindExpired, SessionOK, GaveBack
  <2>3. \A u \in Calls : SettleOK(u)' BY <1>6 DEF FindExpired, SettleOK, GaveBack, TypeOK
  <2> QED BY <2>1, <2>2, <2>3
<1>7. ASSUME NEW t \in Calls, NEW s \in Sessions, Start(t, s) PROVE RefundInv'
  <2>1. OneSettles' BY <1>7 DEF Start, OneSettles, Settling, TypeOK
  <2>2. \A x \in Sessions : SessionOK(x)' BY <1>7 DEF Start, SessionOK, GaveBack
  <2>3. \A u \in Calls : SettleOK(u)' BY <1>7 DEF Start, SettleOK, GaveBack, TypeOK
  <2> QED BY <2>1, <2>2, <2>3
<1>8. ASSUME NEW t \in Calls, NEW s \in Sessions, Complete(t, s) PROVE RefundInv'
  <2>1. OneSettles' BY <1>8 DEF Complete, OneSettles, Settling, TypeOK
  <2>2. /\ \A x \in Sessions : elapsed[x] <= elapsed'[x] /\ elapsed[x] \in Nat /\ elapsed'[x] \in Nat
        /\ settling \subseteq settling' /\ UNCHANGED <<reserved, refunded, started>>
        /\ pc'[t] = "settle" /\ \A u \in Calls \ {t} : pc'[u] = pc[u] /\ of'[u] = of[u]
        /\ UNCHANGED <<paid, lasted>>
    BY <1>8 DEF Complete, TypeOK
  <2>3. \A x \in Sessions : Total(refunded[x]) \in Nat /\ Total(reserved[x]) \in Nat
    BY DEF TypeOK, Amounts, Buckets, Total
  <2>4. \A x \in Sessions : SessionOK(x)' BY <2>2, <2>3 DEF SessionOK, GaveBack
  <2>5. ASSUME NEW u \in Calls PROVE SettleOK(u)'
    <3>1. CASE u = t BY <2>2, <3>1 DEF SettleOK
    <3>2. CASE u # t /\ pc[u] \in Settling
      <4>1. of[u] \in Sessions /\ SettleOK(u) /\ Total(paid[u]) \in Nat /\ lasted[u] \in Nat
        BY <3>2 DEF CallsOK, CallOK, Bound, TypeOK, Amounts, Buckets, Total
      <4> QED BY <2>2, <2>3, <3>2, <4>1 DEF SettleOK, GaveBack
    <3>3. CASE u # t /\ pc[u] \notin Settling BY <2>2, <3>3 DEF SettleOK, Settling
    <3> QED BY <3>1, <3>2, <3>3
  <2> QED BY <2>1, <2>4, <2>5
<1>9. ASSUME NEW t \in Calls, NEW s \in Sessions, SettleAgain(t, s) PROVE RefundInv'
  <2>1. OneSettles' BY <1>9 DEF SettleAgain, OneSettles, Settling, TypeOK
  <2>2. /\ \A x \in Sessions : elapsed[x] <= elapsed'[x] /\ elapsed[x] \in Nat /\ elapsed'[x] \in Nat
        /\ settling \subseteq settling' /\ UNCHANGED <<reserved, refunded, started>>
        /\ pc'[t] = "settle" /\ \A u \in Calls \ {t} : pc'[u] = pc[u] /\ of'[u] = of[u]
        /\ UNCHANGED <<paid, lasted>>
    BY <1>9 DEF SettleAgain, TypeOK
  <2>3. \A x \in Sessions : Total(refunded[x]) \in Nat /\ Total(reserved[x]) \in Nat
    BY DEF TypeOK, Amounts, Buckets, Total
  <2>4. \A x \in Sessions : SessionOK(x)' BY <2>2, <2>3 DEF SessionOK, GaveBack
  <2>5. ASSUME NEW u \in Calls PROVE SettleOK(u)'
    <3>1. CASE u = t BY <2>2, <3>1 DEF SettleOK
    <3>2. CASE u # t /\ pc[u] \in Settling
      <4>1. of[u] \in Sessions /\ SettleOK(u) /\ Total(paid[u]) \in Nat /\ lasted[u] \in Nat
        BY <3>2 DEF CallsOK, CallOK, Bound, TypeOK, Amounts, Buckets, Total
      <4> QED BY <2>2, <2>3, <3>2, <4>1 DEF SettleOK, GaveBack
    <3>3. CASE u # t /\ pc[u] \notin Settling BY <2>2, <3>3 DEF SettleOK, Settling
    <3> QED BY <3>1, <3>2, <3>3
  <2> QED BY <2>1, <2>4, <2>5
<1>10. ASSUME NEW t \in Calls, Expire(t) PROVE RefundInv'
  <2>1. OneSettles' BY <1>10 DEF Expire, OneSettles, Settling, TypeOK
  <2>2. \A x \in Sessions : SessionOK(x)' BY <1>10 DEF Expire, SessionOK, GaveBack
  <2>3. \A u \in Calls : SettleOK(u)' BY <1>10 DEF Expire, SettleOK, GaveBack, TypeOK
  <2> QED BY <2>1, <2>2, <2>3
<1>11. ASSUME NEW t \in Calls, ReadLook(t) PROVE RefundInv'
  <2>1. OneSettles' BY <1>11 DEF ReadLook, OneSettles, Settling, TypeOK
  <2>2. \A x \in Sessions : SessionOK(x)' BY <1>11 DEF ReadLook, SessionOK, GaveBack
  <2>3. \A u \in Calls : SettleOK(u)' BY <1>11 DEF ReadLook, SettleOK, GaveBack, TypeOK
  <2> QED BY <2>1, <2>2, <2>3
<1>12. ASSUME NEW t \in Calls, ReadGrant(t) PROVE RefundInv'
  <2>1. OneSettles' BY <1>12 DEF ReadGrant, OneSettles, Settling, TypeOK
  <2>2. \A x \in Sessions : SessionOK(x)' BY <1>12 DEF ReadGrant, SessionOK, GaveBack
  <2>3. \A u \in Calls : SettleOK(u)' BY <1>12 DEF ReadGrant, SettleOK, GaveBack, TypeOK
  <2> QED BY <2>1, <2>2, <2>3
<1>13. ASSUME NEW t \in Calls, ReadRow(t) PROVE RefundInv'
  <2>1. OneSettles' BY <1>13 DEF ReadRow, OneSettles, Settling, TypeOK
  <2>2. \A x \in Sessions : SessionOK(x)' BY <1>13 DEF ReadRow, SessionOK, GaveBack
  <2>3. \A u \in Calls : SettleOK(u)' BY <1>13 DEF ReadRow, SettleOK, GaveBack, TypeOK
  <2> QED BY <2>1, <2>2, <2>3
<1>14. ASSUME NEW t \in Calls, ReadDone(t) PROVE RefundInv'
  <2>1. OneSettles' BY <1>14 DEF ReadDone, OneSettles, Settling, TypeOK
  <2>2. \A x \in Sessions : SessionOK(x)' BY <1>14 DEF ReadDone, SessionOK, GaveBack
  <2>3. \A u \in Calls : SettleOK(u)' BY <1>14 DEF ReadDone, SettleOK, GaveBack, TypeOK
  <2> QED BY <2>1, <2>2, <2>3
<1>15. ASSUME NEW t \in Calls, Lock(t) PROVE RefundInv'
  <2>1. OneSettles' BY <1>15 DEF Lock, OneSettles, Settling, TypeOK
  <2>2. \A x \in Sessions : SessionOK(x)' BY <1>15 DEF Lock, SessionOK, GaveBack
  <2>3. \A u \in Calls : SettleOK(u)' BY <1>15 DEF Lock, SettleOK, GaveBack, TypeOK
  <2> QED BY <2>1, <2>2, <2>3
<1>16. ASSUME NEW t \in Calls, AlreadyStarted(t) PROVE RefundInv'
  <2>1. OneSettles' BY <1>16 DEF AlreadyStarted, OneSettles, Settling, TypeOK
  <2>2. \A x \in Sessions : SessionOK(x)' BY <1>16 DEF AlreadyStarted, SessionOK, GaveBack
  <2>3. \A u \in Calls : SettleOK(u)' BY <1>16 DEF AlreadyStarted, SettleOK, GaveBack, TypeOK
  <2> QED BY <2>1, <2>2, <2>3
<1>17. ASSUME NEW t \in Calls, StartLook(t) PROVE RefundInv'
  <2>1. OneSettles' BY <1>17 DEF StartLook, OneSettles, Settling, TypeOK
  <2>2. \A x \in Sessions : SessionOK(x)' BY <1>17 DEF StartLook, SessionOK, GaveBack
  <2>3. \A u \in Calls : SettleOK(u)' BY <1>17 DEF StartLook, SettleOK, GaveBack, TypeOK
  <2> QED BY <2>1, <2>2, <2>3
<1>18. ASSUME NEW t \in Calls, ReadTotal(t) PROVE RefundInv'
  <2>1. OneSettles' BY <1>18 DEF ReadTotal, OneSettles, Settling, TypeOK
  <2>2. \A x \in Sessions : SessionOK(x)' BY <1>18 DEF ReadTotal, SessionOK, GaveBack
  <2>3. \A u \in Calls : SettleOK(u)' BY <1>18 DEF ReadTotal, SettleOK, GaveBack, TypeOK
  <2> QED BY <2>1, <2>2, <2>3
<1>19. ASSUME NEW t \in Calls, TooFewMinutes(t) PROVE RefundInv'
  <2>1. OneSettles' BY <1>19 DEF TooFewMinutes, OneSettles, Settling, TypeOK
  <2>2. \A x \in Sessions : SessionOK(x)' BY <1>19 DEF TooFewMinutes, SessionOK, GaveBack
  <2>3. \A u \in Calls : SettleOK(u)' BY <1>19 DEF TooFewMinutes, SettleOK, GaveBack, TypeOK
  <2> QED BY <2>1, <2>2, <2>3
<1>20. ASSUME NEW t \in Calls, StartReserve(t) PROVE RefundInv'
  <2>1. of[t] \in Sessions /\ of[t] \notin started /\ Total(refunded[of[t]]) = 0
    BY <1>20 DEF StartReserve, CallsOK, CallOK, Bound, Holding, ChargedOnce, SessionOK
  <2>2. /\ UNCHANGED <<refunded, elapsed, settling>> /\ started' = started \cup {of[t]}
        /\ \A x \in Sessions \ {of[t]} : reserved'[x] = reserved[x]
        /\ pc'[t] = "done" /\ \A u \in Calls \ {t} : pc'[u] = pc[u] /\ of'[u] = of[u] /\ paid'[u] = paid[u] /\ lasted'[u] = lasted[u]
    BY <1>20 DEF StartReserve, Reserve, TypeOK
  <2>3. \A x \in Sessions : SessionOK(x)' BY <2>1, <2>2 DEF SessionOK, GaveBack
  <2>4. OneSettles' BY <2>2 DEF OneSettles, Settling
  <2>5. ASSUME NEW u \in Calls PROVE SettleOK(u)'
    <3>1. CASE u = t BY <2>2, <3>1 DEF SettleOK
    <3>2. CASE u # t /\ pc[u] \in Settling
      <4>1. of[u] \in Sessions /\ of[u] # of[t] /\ SettleOK(u) BY <2>1, <3>2 DEF CallsOK, CallOK, Bound
      <4> QED BY <2>2, <3>2, <4>1 DEF SettleOK, GaveBack
    <3>3. CASE u # t /\ pc[u] \notin Settling BY <2>2, <3>3 DEF SettleOK, Settling
    <3> QED BY <3>1, <3>2, <3>3
  <2> QED BY <2>3, <2>4, <2>5
<1>21. ASSUME NEW t \in Calls, StartGrant(t) PROVE RefundInv'
  <2>1. of[t] \in Sessions /\ of[t] \notin started /\ Total(refunded[of[t]]) = 0
    BY <1>21 DEF StartGrant, CallsOK, CallOK, Bound, Holding, ChargedOnce, SessionOK
  <2>2. /\ UNCHANGED <<refunded, elapsed, settling>> /\ started' = started \cup {of[t]}
        /\ \A x \in Sessions \ {of[t]} : reserved'[x] = reserved[x]
        /\ pc'[t] = "done" /\ \A u \in Calls \ {t} : pc'[u] = pc[u] /\ of'[u] = of[u] /\ paid'[u] = paid[u] /\ lasted'[u] = lasted[u]
    BY <1>21 DEF StartGrant, Reserve, TypeOK
  <2>3. \A x \in Sessions : SessionOK(x)' BY <2>1, <2>2 DEF SessionOK, GaveBack
  <2>4. OneSettles' BY <2>2 DEF OneSettles, Settling
  <2>5. ASSUME NEW u \in Calls PROVE SettleOK(u)'
    <3>1. CASE u = t BY <2>2, <3>1 DEF SettleOK
    <3>2. CASE u # t /\ pc[u] \in Settling
      <4>1. of[u] \in Sessions /\ of[u] # of[t] /\ SettleOK(u) BY <2>1, <3>2 DEF CallsOK, CallOK, Bound
      <4> QED BY <2>2, <3>2, <4>1 DEF SettleOK, GaveBack
    <3>3. CASE u # t /\ pc[u] \notin Settling BY <2>2, <3>3 DEF SettleOK, Settling
    <3> QED BY <3>1, <3>2, <3>3
  <2> QED BY <2>3, <2>4, <2>5
<1>22. ASSUME NEW t \in Calls, ReadSession(t) PROVE RefundInv'
  <2>1. of[t] \in Sessions /\ of[t] \in started BY <1>22 DEF ReadSession, CallsOK, CallOK, Bound, Settling
  <2>2. SettleOK(t)'
    <3>1. /\ pc'[t] = "rows" /\ of' = of /\ lasted'[t] = elapsed[of[t]]
          /\ refunded' = refunded /\ reserved' = reserved /\ elapsed' = elapsed /\ settling' = settling
      BY <1>22 DEF ReadSession, TypeOK
    <3>2. SessionOK(of[t]) /\ elapsed[of[t]] \in Nat BY <2>1 DEF TypeOK
    <3> QED BY <3>1, <3>2 DEF SettleOK, SessionOK, GaveBack
  <2>3. \A u \in Calls \ {t} : SettleOK(u)' BY <1>22 DEF ReadSession, SettleOK, GaveBack, TypeOK
  <2>4. OneSettles' BY <1>22 DEF ReadSession, OneSettles, Settling, TypeOK
  <2>5. \A x \in Sessions : SessionOK(x)' BY <1>22 DEF ReadSession, SessionOK, GaveBack
  <2> QED BY <2>2, <2>3, <2>4, <2>5
<1>23. ASSUME NEW t \in Calls, ReadRows(t) PROVE RefundInv'
  <2>1. of[t] \in Sessions /\ of[t] \in started BY <1>23 DEF ReadRows, CallsOK, CallOK, Bound, Settling
  <2>2. lasted[t] \in Nat /\ elapsed[of[t]] \in Nat BY <2>1 DEF TypeOK
  <2>3. /\ Total(refunded[of[t]]) > 0 /\ GaveBack(of[t], lasted[t]) => StillDue(of[t], lasted[t]) = Nothing
        /\ Total(refunded[of[t]]) = 0 =>
              Total(StillDue(of[t], lasted[t])) + lasted[t] >= Total(reserved[of[t]])
        /\ StillDue(of[t], lasted[t]) \in Amounts
    BY <2>1, <2>2, StillDueOK
  <2>4. /\ Total(refunded[of[t]]) \in Nat /\ Total(reserved[of[t]]) \in Nat
        /\ Total(StillDue(of[t], lasted[t])) \in Nat
    BY <2>1, <2>3 DEF TypeOK, Amounts, Buckets, Total
  <2>5. SettleOK(t)'
    <3>1. SettleOK(t) /\ pc[t] = "rows" BY <1>23 DEF ReadRows
    <3>2. /\ pc'[t] = "refund" /\ of' = of /\ paid'[t] = StillDue(of[t], lasted[t])
          /\ refunded' = refunded /\ reserved' = reserved /\ elapsed' = elapsed /\ settling' = settling
      BY <1>23 DEF ReadRows, TypeOK
    <3> QED BY <1>0, <2>2, <2>3, <2>4, <3>1, <3>2 DEF SettleOK
  <2>6. \A u \in Calls \ {t} : SettleOK(u)' BY <1>23 DEF ReadRows, SettleOK, GaveBack, TypeOK
  <2>7. OneSettles' BY <1>23 DEF ReadRows, OneSettles, Settling, TypeOK
  <2>8. \A x \in Sessions : SessionOK(x)' BY <1>23 DEF ReadRows, SessionOK, GaveBack
  <2> QED BY <2>5, <2>6, <2>7, <2>8
<1>24. ASSUME NEW t \in Calls, Refund(t) PROVE RefundInv'
  <2>1. of[t] \in Sessions /\ of[t] \in started BY <1>24 DEF Refund, CallsOK, CallOK, Bound, Settling
  <2>2. paid[t] \in Amounts /\ refunded[of[t]] \in Minutes BY <2>1 DEF TypeOK, Amounts, Minutes
  <2>3. refunded' = [refunded EXCEPT ![of[t]] = Plus(refunded[of[t]], paid[t])]
        /\ reserved' = reserved /\ elapsed' = elapsed /\ started' = started /\ settling' = settling
    BY <1>24 DEF Refund
  <2>4. Total(refunded'[of[t]]) = Total(refunded[of[t]]) + Total(paid[t])
        /\ \A x \in Sessions \ {of[t]} : refunded'[x] = refunded[x]
    BY <2>1, <2>2, <2>3, PlusOK DEF TypeOK
  <2>5. /\ Total(refunded[of[t]]) \in Nat /\ Total(paid[t]) \in Nat /\ Total(reserved[of[t]]) \in Nat
        /\ elapsed[of[t]] \in Nat
    BY <2>1, <2>2 DEF TypeOK, Amounts, Buckets, Total
  <2>6. pc[t] = "refund" /\ SettleOK(t) /\ SessionOK(of[t]) BY <1>24, <2>1 DEF Refund
  <2>7. ASSUME NEW x \in Sessions, x = of[t] PROVE SessionOK(x)'
    BY <2>7, <1>0, <2>1, <2>3, <2>4, <2>5, <2>6 DEF SessionOK, SettleOK, GaveBack
  <2>8. \A x \in Sessions : SessionOK(x)' BY <2>3, <2>4, <2>7 DEF SessionOK, GaveBack
  <2>9. OneSettles' BY <1>24 DEF Refund, OneSettles, Settling, TypeOK
  <2>10. ASSUME NEW u \in Calls PROVE SettleOK(u)'
    <3>1. CASE u = t BY <1>24, <3>1 DEF Refund, SettleOK, TypeOK
    <3>2. CASE u # t /\ pc[u] \in Settling /\ of[u] \notin settling
      <4>1. of[u] # of[t] BY <2>6, <3>2 DEF OneSettles, Settling
      <4>2. of[u] \in Sessions BY <3>2 DEF CallsOK, CallOK, Bound
      <4>3. SettleOK(u) OBVIOUS
      <4> QED BY <1>24, <2>3, <2>4, <3>2, <4>1, <4>2, <4>3 DEF Refund, SettleOK, GaveBack, TypeOK
    <3>3. CASE u # t /\ (pc[u] \notin Settling \/ of[u] \in settling)
      BY <1>24, <2>3, <3>3 DEF Refund, SettleOK, Settling, TypeOK
    <3> QED BY <3>1, <3>2, <3>3
  <2> QED BY <2>8, <2>9, <2>10
<1>25. ASSUME NEW t \in Calls, Abort(t) PROVE RefundInv'
  <2>1. OneSettles' BY <1>25 DEF Abort, OneSettles, Settling, TypeOK
  <2>2. \A x \in Sessions : SessionOK(x)' BY <1>25 DEF Abort, SessionOK, GaveBack
  <2>3. \A u \in Calls : SettleOK(u)' BY <1>25 DEF Abort, SettleOK, GaveBack, TypeOK
  <2> QED BY <2>1, <2>2, <2>3
<1>26. CASE UNCHANGED vars
  <2>1. UNCHANGED <<money, plan, rows, clock, pc, of, local, history>> BY <1>26 DEF vars
  <2> QED BY <2>1 DEF OneSettles, SessionOK, SettleOK, GaveBack
<1> QED BY <1>1, <1>2, <1>3, <1>4, <1>5, <1>6, <1>7, <1>8, <1>9, <1>10, <1>11, <1>12, <1>13,
    <1>14, <1>15, <1>16, <1>17, <1>18, <1>19, <1>20, <1>21, <1>22, <1>23, <1>24, <1>25, <1>26
    DEF Next, Arrive, Grants, Starts, Settles

\* Only a refund changes what was given back, and a second one adds nothing.
LEMMA RefundOnceStep ==
    ASSUME WalletInv, RefundInv, [Next]_vars
    PROVE  [\A s \in Sessions :
              s \notin settling /\ Total(refunded[s]) > 0 => refunded'[s] = refunded[s]]_vars
<1> SUFFICES ASSUME Next, NEW s \in Sessions, s \notin settling, Total(refunded[s]) > 0
             PROVE  refunded'[s] = refunded[s]
  OBVIOUS
<1>1. CASE UNCHANGED refunded BY <1>1
<1>2. ASSUME NEW t \in Calls, Refund(t) PROVE refunded'[s] = refunded[s]
  <2>1. pc[t] = "refund" /\ refunded' = [refunded EXCEPT ![of[t]] = Plus(refunded[of[t]], paid[t])]
    BY <1>2 DEF Refund, Finish
  <2>2. CASE of[t] # s BY <2>1, <2>2 DEF WalletInv, TypeOK
  <2>3. CASE of[t] = s
    <3>1. paid[t] = Nothing BY <2>1, <2>3 DEF RefundInv, SettleOK
    <3>2. refunded[s] \in Amounts BY DEF WalletInv, TypeOK
    <3>3. Plus(refunded[s], Nothing) = refunded[s]
      BY <3>2 DEF Amounts, Plus, Nothing, Buckets
    <3> QED BY <2>1, <2>3, <3>1, <3>3 DEF WalletInv, TypeOK
  <2> QED BY <2>2, <2>3
<1>3. CASE ~ \E t \in Calls : Refund(t)
  <2>1. UNCHANGED refunded
    BY <1>3 DEF Next, NextPeriod, Subscribe, Lapse, BuyPack, Arrive, Grants, Starts, Settles, rows,
         Read, FindExpired, Start, Complete, SettleAgain, Expire, ReadLook, ReadGrant, ReadRow, ReadDone,
         Lock, AlreadyStarted, StartLook, ReadTotal, TooFewMinutes, StartReserve, StartGrant, Reserve,
         ReadSession, ReadRows, Abort
  <2> QED BY <2>1
<1> QED BY <1>2, <1>3

-----------------------------------------------------------------------------
(* The month's minutes and the sum of what was given back.                 *)

LEMMA BackIs ==
    ASSUME TypeOK
    PROVE  /\ MonthlyBack \in [Sessions -> Nat] /\ MonthlyBack \in [Sessions -> Int]
           /\ SumOver(MonthlyBack, Sessions) \in Nat
<1>1. MonthlyBack \in [Sessions -> Nat] BY DEF TypeOK, Amounts, Buckets, MonthlyBack
<1>2. SumOver(MonthlyBack, Sessions) \in Nat BY <1>1, SumNatural, WalletAssumption
<1> QED BY <1>1, <1>2

MonthOK == ~raced => wallet["monthly"] <= Plan + SumOver(MonthlyBack, Sessions)

LEMMA MonthIsSum == MonthlyIsBounded <=> MonthOK
BY DEF MonthlyIsBounded, MonthOK, SumOver

\* A step that gives nothing back, and leaves the month's minutes at most the plan or what they were.
LEMMA NothingBack ==
    ASSUME TypeOK, MonthOK, refunded' = refunded, ~raced' => ~raced,
           ~raced' => wallet'["monthly"] <= wallet["monthly"] \/ wallet'["monthly"] <= Plan,
           wallet' \in Minutes
    PROVE  MonthOK'
<1>1. MonthlyBack' = MonthlyBack BY DEF MonthlyBack
<1>2. SumOver(MonthlyBack, Sessions)' = SumOver(MonthlyBack, Sessions) BY <1>1
<1>3. wallet["monthly"] \in Int /\ wallet'["monthly"] \in Int BY DEF TypeOK, Minutes, Buckets
<1>4. SumOver(MonthlyBack, Sessions) \in Nat BY BackIs
<1> QED BY <1>2, <1>3, <1>4, WalletAssumption DEF MonthOK

\* A charge takes from the month's minutes, or leaves them.
LEMMA ReserveTakes ==
    ASSUME NEW t \in Calls, NEW w \in Minutes, NEW read \in Minutes, Reserve(t, w, read),
           \A b \in Buckets : read[b] >= 0
    PROVE  wallet'["monthly"] <= w["monthly"]
<1>1. "monthly" \in Buckets BY DEF Buckets
<1>2. Use(read) \in Minutes /\ 0 <= Use(read)["monthly"] BY <1>1, UseOK
<1>3. wallet'["monthly"] = w["monthly"] - Use(read)["monthly"] BY <1>1 DEF Reserve, Decrement
<1> HIDE DEF Use
<1> QED BY <1>1, <1>2, <1>3 DEF Minutes

LEMMA MonthStep == WalletInv /\ MonthOK /\ [Next]_vars => MonthOK'
<1> SUFFICES ASSUME WalletInv, MonthOK, [Next]_vars PROVE MonthOK' OBVIOUS
<1>0. /\ TypeOK /\ WalletInv' /\ TypeOK' /\ wallet' \in Minutes
      /\ "monthly" \in Buckets /\ "purchased" \in Buckets /\ wallet \in Minutes
  BY WalletStep DEF WalletInv, TypeOK, Buckets
<1>1. CASE UNCHANGED <<wallet, refunded, raced>> BY <1>0, <1>1, NothingBack DEF Minutes
<1>2. CASE BuyPack
  <2>1. wallet'["monthly"] = wallet["monthly"] /\ refunded' = refunded /\ raced' = raced
    BY <1>0, <1>2 DEF BuyPack, rows, history, Minutes
  <2> QED BY <1>0, <2>1, NothingBack DEF Minutes
<1>3. ASSUME NEW t \in Calls, ReadGrant(t) PROVE MonthOK'
  <2>1. wallet'["monthly"] = Plan /\ refunded' = refunded /\ raced' = raced
    BY <1>0, <1>3 DEF ReadGrant, Granted, rows, history, Minutes
  <2> QED BY <1>0, <2>1, NothingBack, WalletAssumption
<1>4. ASSUME NEW t \in Calls, Expire(t) PROVE MonthOK'
  <2>1. wallet'["monthly"] = 0 /\ refunded' = refunded /\ raced' = raced
    BY <1>0, <1>4 DEF Expire, rows, history, Minutes
  <2> QED BY <1>0, <2>1, NothingBack, WalletAssumption
<1>5. ASSUME NEW t \in Calls, StartReserve(t) PROVE MonthOK'
  <2>1. Reserve(t, wallet, saw[t]) /\ saw[t] \in Minutes BY <1>0, <1>5 DEF StartReserve, TypeOK
  <2>2. refunded' = refunded /\ (~raced' => ~raced) BY <2>1 DEF Reserve
  <2>3. ASSUME ~raced' PROVE wallet'["monthly"] <= wallet["monthly"]
    <3>1. \A b \in Buckets : saw[t][b] >= 0 BY <2>2, <2>3 DEF WalletInv, SawOK
    <3> QED BY <1>0, <2>1, <3>1, ReserveTakes
  <2> QED BY <1>0, <2>2, <2>3, NothingBack
<1>6. ASSUME NEW t \in Calls, StartGrant(t) PROVE MonthOK'
  <2> DEFINE w == Granted(wallet)
  <2>1. Reserve(t, w, w) /\ w \in Minutes /\ w["monthly"] = Plan
    BY <1>0, <1>6, WalletAssumption DEF StartGrant, Granted, Minutes
  <2>2. refunded' = refunded /\ (~raced' => ~raced) BY <2>1 DEF Reserve
  <2>3. ASSUME ~raced' PROVE wallet'["monthly"] <= Plan
    <3>1. \A b \in Buckets : w[b] >= 0
      BY <1>0, <2>2, <2>3, WalletAssumption DEF WalletInv, WalletIsLedger, Granted, Minutes
    <3> HIDE DEF w
    <3> QED BY <2>1, <3>1, ReserveTakes
  <2> QED BY <1>0, <2>2, <2>3, NothingBack
<1>7. ASSUME NEW t \in Calls, Refund(t) PROVE MonthOK'
  <2>1. of[t] \in Sessions /\ paid[t] \in Amounts
    BY <1>7 DEF Refund, Finish, WalletInv, CallsOK, CallOK, Bound, Settling, TypeOK
  <2> DEFINE s == of[t]
             m == paid[t]["monthly"]
  <2>2. m \in Nat /\ refunded[s] \in Amounts BY <1>0, <2>1 DEF TypeOK, Amounts
  <2>3. raced' = raced /\ wallet'["monthly"] = wallet["monthly"] + m
    BY <1>0, <1>7, <2>1, PlusOK DEF Refund, history
  <2>4. refunded' = [refunded EXCEPT ![s] = Plus(refunded[s], paid[t])]
    BY <1>7 DEF Refund
  <2>5. Plus(refunded[s], paid[t])["monthly"] = refunded[s]["monthly"] + m
    BY <1>0, <2>1, <2>2 DEF Plus, Amounts
  <2>6. /\ MonthlyBack'[s] = MonthlyBack[s] + m
        /\ \A x \in Sessions : x # s => MonthlyBack'[x] = MonthlyBack[x]
    BY <1>0, <2>1, <2>4, <2>5 DEF MonthlyBack, TypeOK
  <2>7. MonthlyBack \in [Sessions -> Int] /\ MonthlyBack' \in [Sessions -> Int]
        /\ SumOver(MonthlyBack, Sessions) \in Nat
    <3>1. MonthlyBack' \in [Sessions -> Int] BY <1>0 DEF TypeOK, Amounts, MonthlyBack
    <3> QED BY <1>0, <3>1, BackIs
  <2>8. SumOver(MonthlyBack', Sessions) = SumOver(MonthlyBack, Sessions) - MonthlyBack[s] + MonthlyBack'[s]
    BY <2>1, <2>6, <2>7, SumChange, WalletAssumption
  <2>9. SumOver(MonthlyBack, Sessions)' = SumOver(MonthlyBack, Sessions) + m
    <3>1. SumOver(MonthlyBack, Sessions)' = SumOver(MonthlyBack', Sessions) OBVIOUS
    <3>2. MonthlyBack[s] \in Int BY <2>1, <2>7
    <3> HIDE DEF m
    <3> QED BY <2>2, <2>6, <2>7, <2>8, <3>1, <3>2
  <2>10. wallet["monthly"] \in Int BY <1>0 DEF Minutes
  <2> HIDE DEF m
  <2> QED BY <2>2, <2>3, <2>7, <2>9, <2>10, WalletAssumption DEF MonthOK
<1>8. CASE /\ Next /\ ~BuyPack
           /\ ~ \E t \in Calls : \/ ReadGrant(t) \/ Expire(t) \/ StartReserve(t)
                                 \/ StartGrant(t) \/ Refund(t)
  <2>1. UNCHANGED <<wallet, refunded, raced>>
    BY <1>8 DEF Next, NextPeriod, Subscribe, Lapse, Arrive, Grants, Starts, Settles,
         rows, money, history, Read, FindExpired, Start, Complete, SettleAgain, ReadLook,
         ReadRow, ReadDone, Lock, AlreadyStarted, StartLook, ReadTotal, TooFewMinutes,
         ReadSession, ReadRows, Abort
  <2> QED BY <1>1, <2>1
<1>9. CASE UNCHANGED vars BY <1>1, <1>9 DEF vars, money, rows, history
<1> QED BY <1>2, <1>3, <1>4, <1>5, <1>6, <1>7, <1>8, <1>9

LEMMA MonthInit == Init => MonthOK
<1> SUFFICES ASSUME Init PROVE MonthOK OBVIOUS
<1>1. SumOver(MonthlyBack, Sessions) \in Nat BY InitOK, BackIs DEF WalletInv
<1>2. wallet["monthly"] = 0 BY DEF Init, Buckets
<1> QED BY <1>1, <1>2, WalletAssumption DEF MonthOK

-----------------------------------------------------------------------------
(* The variables keep their types: no grant of a month to come, no refund  *)
(* below zero.                                                             *)
THEOREM WalletTypes == Spec => []TypeOK
<1>1. WalletInv => TypeOK BY DEF WalletInv
<1>2. WalletInv /\ [Next]_vars => WalletInv' BY WalletStep
<1> QED BY InitOK, <1>2, <1>1, PTL DEF Spec

(* POST /interviews/:id/start charges an interview once, whatever starts   *)
(* of it are open at the same time.                                        *)
THEOREM InterviewIsChargedOnce == Spec => []ChargedOnce
<1>1. WalletInv => ChargedOnce BY DEF WalletInv
<1> QED BY InitOK, WalletStep, <1>1, PTL DEF Spec

(* The free and the purchased minutes are what the ledger adds up to, and  *)
(* none is below zero, unless a start spent what another had taken.        *)
THEOREM LedgerExplainsWallet == Spec => []WalletIsLedger
<1>1. WalletInv => WalletIsLedger BY DEF WalletInv
<1> QED BY InitOK, WalletStep, <1>1, PTL DEF Spec

(* ensureMonthlyGrant: whatever grants of a month are open, late or made   *)
(* again, the month's minutes exceed the plan by no more than what was     *)
(* given back, unless a start spent what another had taken.                *)
THEOREM MonthIsBounded == Spec => []MonthlyIsBounded
<1>1. Init => WalletInv /\ MonthOK BY InitOK, MonthInit
<1>2. WalletInv /\ MonthOK /\ [Next]_vars => (WalletInv /\ MonthOK)' BY WalletStep, MonthStep
<1>3. WalletInv /\ MonthOK => MonthlyIsBounded BY MonthIsSum
<1> QED BY <1>1, <1>2, <1>3, PTL DEF Spec

(* settleInterviewMinuteReservation gives the unused minutes of an         *)
(* interview back once, unless two calls settle it at the same time.       *)
THEOREM UnusedIsRefundedOnce == Spec => RefundedOnce
<1>1. Spec => [](WalletInv /\ RefundInv)
  BY InitOK, WalletStep, RefundStep, PTL DEF Spec
<1>2. WalletInv /\ RefundInv /\ [Next]_vars =>
        [\A s \in Sessions :
            s \notin settling /\ Total(refunded[s]) > 0 => refunded'[s] = refunded[s]]_vars
  BY RefundOnceStep
<1> QED BY <1>1, <1>2, PTL DEF Spec, RefundedOnce
================================================================================
