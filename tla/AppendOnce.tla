----------------------------- MODULE AppendOnce -----------------------------
(***************************************************************************)
(* What the one-shot deliveries promise, without leases, fences or         *)
(* processes: each item is handed to a remote service, a row to a sheet or *)
(* a message to a chat, by requests whose outcome may stay unknown; at     *)
(* most one request of an item is ever undecided, an item that landed is   *)
(* never requested again, and a verdict of delivery is only given for an   *)
(* item that landed.  SheetHandoff, TelegramOutbox and V2Delivery          *)
(* implement it.                                                           *)
(***************************************************************************)
EXTENDS Naturals

CONSTANTS Items, Requests

VARIABLES
  verdict,      \* what the authority has decided about each item
  outstanding,  \* the requests of each item that are still undecided
  landed        \* how many requests of each item were applied

vars == <<verdict, outstanding, landed>>

Init == /\ verdict = [i \in Items |-> "open"]
        /\ outstanding = [i \in Items |-> {}]
        /\ landed = [i \in Items |-> 0]

(* A request may only leave while the item is open, has not landed and has *)
(* no undecided request.                                                   *)
Request(i, r) ==
  /\ landed[i] = 0 /\ outstanding[i] = {}
  /\ outstanding' = [outstanding EXCEPT ![i] = {r}]
  /\ UNCHANGED <<verdict, landed>>

Land(i, r) ==
  /\ r \in outstanding[i]
  /\ outstanding' = [outstanding EXCEPT ![i] = @ \ {r}]
  /\ landed' = [landed EXCEPT ![i] = @ + 1]
  /\ UNCHANGED verdict

Refuse(i, r) ==
  /\ r \in outstanding[i]
  /\ outstanding' = [outstanding EXCEPT ![i] = @ \ {r}]
  /\ UNCHANGED <<verdict, landed>>

Deliver(i) ==
  /\ verdict[i] = "open" /\ landed[i] > 0
  /\ verdict' = [verdict EXCEPT ![i] = "delivered"]
  /\ UNCHANGED <<outstanding, landed>>

Block(i) ==
  /\ verdict[i] = "open"
  /\ verdict' = [verdict EXCEPT ![i] = "blocked"]
  /\ UNCHANGED <<outstanding, landed>>

(* A blocked item is reopened only when no request of it can land any more *)
(* and none has.                                                           *)
Reopen(i) ==
  /\ verdict[i] = "blocked" /\ landed[i] = 0 /\ outstanding[i] = {}
  /\ verdict' = [verdict EXCEPT ![i] = "open"]
  /\ UNCHANGED <<outstanding, landed>>

Next == \E i \in Items :
          \/ Deliver(i) \/ Block(i) \/ Reopen(i)
          \/ \E r \in Requests : Request(i, r) \/ Land(i, r) \/ Refuse(i, r)

Spec == Init /\ [][Next]_vars
=============================================================================
