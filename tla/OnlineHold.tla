----------------------------- MODULE OnlineHold -----------------------------
(***************************************************************************)
(* What the booking system promises about a booking that is paid online,   *)
(* whoever looks at it: how its hold ends, what its money does to it, and  *)
(* when an administrator is told.                                          *)
(*                                                                         *)
(* A hold keeps its room until it lapses, so that only a lapsed one can    *)
(* find its room taken when the money comes.  The payment has one outcome, *)
(* which is final.  A booking that is paid for and cannot take place is    *)
(* flagged in the same step.                                               *)
(*                                                                         *)
(* Bookings implements it for every booking, with the rooms and without    *)
(* the provider; OnlinePayments for its hold, with the provider and        *)
(* without the rooms.                                                      *)
(***************************************************************************)

VARIABLES
  stage,   \* "none" before the booking is made; "hold", "lapsed", "booked",
           \* "conflict" (paid, and its room is another's) or "cancelled"
  money,   \* the outcome of the payment: "awaited", "received" or "void"
  flag     \* an administrator is asked to look

hold == <<stage, money, flag>>

Waiting == {"hold", "lapsed"}
Decided == {"booked", "conflict"}

Init ==
  /\ stage \in {"none", "hold"}
  /\ money = "awaited"
  /\ flag = FALSE

Open ==
  /\ stage = "none"
  /\ stage' = "hold"
  /\ flag' = FALSE
  /\ UNCHANGED money

Lapse ==
  /\ stage = "hold"
  /\ stage' = "lapsed"
  /\ UNCHANGED <<money, flag>>

\* The money comes.  (A booking that takes place can still need attention:
\* for the resident's hours.)
Receive ==
  /\ stage \in Waiting \cup {"cancelled"}
  /\ money = "awaited"
  /\ money' = "received"
  /\ \/ stage \in Waiting /\ stage' = "booked" /\ flag' \in BOOLEAN
     \/ stage = "lapsed" /\ stage' = "conflict" /\ flag' = TRUE
     \/ stage = "cancelled" /\ stage' = stage /\ flag' = TRUE

\* The payment ends without money.
Void ==
  /\ stage \in Waiting \cup {"cancelled"}
  /\ money = "awaited"
  /\ money' = "void"
  /\ \/ stage \in Waiting /\ stage' = "cancelled" /\ flag' = FALSE
     \/ stage = "cancelled" /\ UNCHANGED <<stage, flag>>

\* The customer or an administrator cancels, or the time is over.
Cancel ==
  /\ stage \in Waiting \cup Decided
  /\ stage' = "cancelled"
  /\ flag' = (money = "received")
  /\ UNCHANGED money

\* Somebody did not know whether there is a payment when it was too late to ask
\* again.  By the time an administrator is asked the money may have come, or the
\* payment may have ended, or the office may have gone on.
Doubt ==
  /\ stage \in {"lapsed", "cancelled"} \cup Decided
  /\ flag' = TRUE
  /\ UNCHANGED <<stage, money>>

\* An administrator has looked.
Resolve ==
  /\ stage \in Waiting \cup {"booked", "cancelled"}
  /\ flag' = FALSE
  /\ UNCHANGED <<stage, money>>

\* What is decided is the office's: it edits, confirms, moves the booking.
Work ==
  /\ stage \in Decided
  /\ stage' \in Decided
  /\ flag' \in BOOLEAN
  /\ stage' = "conflict" => flag'
  /\ UNCHANGED money

Next ==
  Open \/ Lapse \/ Receive \/ Void \/ Cancel \/ Doubt \/ Resolve \/ Work

Spec == Init /\ [][Next]_hold
=============================================================================
