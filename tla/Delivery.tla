------------------------------ MODULE Delivery ------------------------------
(***************************************************************************)
(* What the ledger of the scheduled reports promises about a Delivery: one *)
(* scheduled report, for one report period, sent to one recipient.  It is  *)
(* open, claimed by one trigger, or delivered; it counts as delivered only *)
(* when its send succeeded; a claim that fails or is abandoned reopens it, *)
(* and a delivered one is never claimed again.                             *)
(***************************************************************************)
CONSTANT Deliveries    \* (report, recipient) pairs

VARIABLES
  state,    \* open, claimed or delivered
  mailed    \* whether the mail server has accepted a message for it

dvars == <<state, mailed>>

DInit ==
  /\ state  = [d \in Deliveries |-> "open"]
  /\ mailed = [d \in Deliveries |-> FALSE]

Claim(d) ==
  /\ state[d] = "open"
  /\ state' = [state EXCEPT ![d] = "claimed"]
  /\ UNCHANGED mailed

Mail(d) ==
  /\ state[d] = "claimed"
  /\ mailed' = [mailed EXCEPT ![d] = TRUE]
  /\ UNCHANGED state

Confirm(d) ==
  /\ state[d] = "claimed"
  /\ mailed[d]
  /\ state' = [state EXCEPT ![d] = "delivered"]
  /\ UNCHANGED mailed

(* The send failed, or the claim was abandoned and has expired. *)
Reopen(d) ==
  /\ state[d] = "claimed"
  /\ state' = [state EXCEPT ![d] = "open"]
  /\ UNCHANGED mailed

DNext == \E d \in Deliveries : Claim(d) \/ Mail(d) \/ Confirm(d) \/ Reopen(d)

DSpec == DInit /\ [][DNext]_dvars
=============================================================================
