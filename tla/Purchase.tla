------------------------------ MODULE Purchase ------------------------------
(***************************************************************************)
(* What ordering by voice promises about the money for one basket, however *)
(* many requests, retries and failures there are behind it: nothing is     *)
(* held without the customer's yes, nothing is taken except for goods that *)
(* were ordered for the amount agreed and not given up, what was given     *)
(* back is not asked for again, and a basket that is settled stays so.     *)
(***************************************************************************)

CONSTANTS Basket, Amount, None

VARIABLES
    stage,    \* of each basket: open, agreed, paying, or closed
    amount,   \* what the customer said yes to
    money,    \* on the customer's card
    goods     \* what was ordered: its status and total

purchase == <<stage, amount, money, goods>>

Nothing == [status |-> "none", total |-> None]

Init ==
    /\ stage = [b \in Basket |-> "open"]
    /\ amount = [b \in Basket |-> None]
    /\ money = [b \in Basket |-> "none"]
    /\ goods = [b \in Basket |-> Nothing]

\* The customer says yes, once.
Agree(b) ==
    /\ stage[b] = "open"
    /\ stage' = [stage EXCEPT ![b] = "agreed"]
    /\ \E a \in Amount : amount' = [amount EXCEPT ![b] = a]
    /\ UNCHANGED <<money, goods>>

\* Declined, replaced by another basket, or refused by the bank.
GiveUp(b) ==
    /\ stage[b] \in {"open", "agreed"}
    /\ stage' = [stage EXCEPT ![b] = "closed"]
    /\ UNCHANGED <<amount, money, goods>>

\* Money is held; whoever asked for it may not have heard.
Hold(b) ==
    /\ stage[b] = "agreed" /\ money[b] \in {"none", "AUTHORIZED"}
    /\ money' = [money EXCEPT ![b] = "AUTHORIZED"]
    /\ \E s \in {"agreed", "paying"} : stage' = [stage EXCEPT ![b] = s]
    /\ UNCHANGED <<amount, goods>>

Order(b) ==
    /\ stage[b] = "paying" /\ goods[b] = Nothing
    /\ goods' = [goods EXCEPT ![b] = [status |-> "CONFIRMED", total |-> amount[b]]]
    /\ UNCHANGED <<stage, amount, money>>

Capture(b) ==
    /\ stage[b] = "paying" /\ money[b] = "AUTHORIZED"
    /\ goods[b].status \in {"CONFIRMED", "PREPARING"} /\ goods[b].total = amount[b]
    /\ money' = [money EXCEPT ![b] = "CAPTURED"]
    /\ UNCHANGED <<stage, amount, goods>>

Returned(b) == [money EXCEPT ![b] = IF @ = "AUTHORIZED" THEN "VOIDED" ELSE @]

\* What is held and not taken is given back before a payment is over.
Settle(b) ==
    /\ stage[b] = "paying"
    /\ money' = Returned(b) /\ money'[b] \in {"VOIDED", "CAPTURED"}
    /\ \E s \in {"paying", "closed"} : stage' = [stage EXCEPT ![b] = s]
    /\ UNCHANGED <<amount, goods>>

\* Goods that are not packed yet can be given up, by either side.
Cancel(b) ==
    /\ goods[b].status = "CONFIRMED"
    /\ goods' = [goods EXCEPT ![b].status = "CANCELLED"]
    /\ money' = Returned(b)
    /\ UNCHANGED <<stage, amount>>

Pack(b) ==
    /\ goods[b].status = "CONFIRMED"
    /\ goods' = [goods EXCEPT ![b].status = "PREPARING"]
    /\ UNCHANGED <<stage, amount, money>>

Next ==
    \E b \in Basket :
        \/ Agree(b) \/ GiveUp(b) \/ Hold(b) \/ Order(b) \/ Capture(b)
        \/ Settle(b) \/ Cancel(b) \/ Pack(b)

Spec == Init /\ [][Next]_purchase
=============================================================================
