---------------------------- MODULE MC_Handlers ----------------------------
(* Instantiation of Handlers for TLC: the requests clients may send.      *)
EXTENDS Handlers

CA(a, b, d) == [kind |-> "createAccount", auth |-> a, body |-> b, doc |-> d]
GA(n, i) == [kind |-> "getAccount", auth |-> TRUE, numeric |-> n, id |-> i]
CT(b, acc, op, pos) ==
    [kind |-> "createTxn", auth |-> TRUE, body |-> b, acc |-> acc, op |-> op, positive |-> pos]

(* One document number, one operation type (id 1), ids 1 and 2 for an     *)
(* account that exists once created and one that never does; every        *)
(* rejection of the router, the decoder and the validators.                *)
AllShapes ==
    {CA(TRUE, TRUE, "d1"), CA(FALSE, TRUE, "d1"), CA(TRUE, FALSE, "d1"), CA(TRUE, TRUE, ""),
     GA(TRUE, 1), GA(FALSE, 0),
     CT(TRUE, 1, 1, TRUE), CT(TRUE, 2, 1, TRUE), CT(TRUE, 1, 2, TRUE), CT(TRUE, 1, 1, FALSE)}

(* An account creation and a transaction on the account it creates.      *)
Creates ==
    {CA(TRUE, TRUE, "d1"), CT(TRUE, 1, 1, TRUE)}

(* Account creation and the lookups that may miss.                        *)
Lookups ==
    {CA(TRUE, TRUE, "d1"), CT(TRUE, 2, 1, TRUE), CT(TRUE, 1, 2, TRUE)}
=============================================================================
