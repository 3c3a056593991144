---------------------------- MODULE RoomCalendar ----------------------------
(***************************************************************************)
(* What the booking service promises about rooms, with payment, hours and  *)
(* approval forgotten: every booking occupies a set of room-time cells,    *)
(* a step changes what one booking occupies, and a cell is only ever given *)
(* to a booking while no other booking occupies it.  Bookings implements   *)
(* this specification.                                                     *)
(***************************************************************************)
CONSTANTS Booking, Cell

VARIABLE occupied

Init == occupied = [b \in Booking |-> {}]

Free(b, cells) == \A c \in Booking \ {b} : occupied[c] \cap cells = {}

\* A hold, a change of time or a resolved conflict takes the cells at once.
Occupy(b, cells) ==
  /\ Free(b, cells)
  /\ occupied' = [occupied EXCEPT ![b] = cells]

\* Cancellation, expiry, a lost conflict.
Release(b) == occupied' = [occupied EXCEPT ![b] = {}]

Next == \E b \in Booking :
          \/ Release(b)
          \/ \E cells \in SUBSET Cell : Occupy(b, cells)

Spec == Init /\ [][Next]_occupied

\* No room is occupied by two bookings at the same time.
Disjoint == \A b, c \in Booking : b # c => occupied[b] \cap occupied[c] = {}
=============================================================================
