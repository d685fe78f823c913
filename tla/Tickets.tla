------------------------------ MODULE Tickets ------------------------------
(***************************************************************************)
(* What is promised of everything RelayScope hands out to be used once:    *)
(* pairing codes and sync tokens of the browser extension, states of a     *)
(* login at the OAuth provider.  A ticket opens once, with a deadline.     *)
(* Before the deadline it may be used, or taken by one holder who either   *)
(* uses it up or gives it back.  What it gives access to is had at most   *)
(* once, and once it was had the ticket never opens again.                 *)
(***************************************************************************)
EXTENDS Naturals

CONSTANTS
    Ticket,
    Life            \* Life[t]: how long t is open

VARIABLES
    ticket,         \* per ticket: its phase, its deadline and how often what it
                    \* gives access to was had
    now

New == [phase |-> "none", deadline |-> 0, uses |-> 0]

Init == ticket = [t \in Ticket |-> New]

Open(t, new) == ticket[t] = New /\ new = [New EXCEPT !.phase = "open",
                                                    !.deadline = now + Life[t]]
InTime(t) == ticket[t].phase = "open" /\ now < ticket[t].deadline
Use(t, new) == InTime(t) /\ new = [ticket[t] EXCEPT !.phase = "used", !.uses = 1]
Take(t, new) == InTime(t) /\ new = [ticket[t] EXCEPT !.phase = "taken"]
UseTaken(t, new) == /\ ticket[t].phase \in {"taken", "gone"} /\ ticket[t].uses = 0
                    /\ new = [ticket[t] EXCEPT !.uses = 1]
UseUp(t, new) == /\ ticket[t].phase = "taken" /\ ticket[t].uses = 1
                 /\ new = [ticket[t] EXCEPT !.phase = "used"]
GiveBack(t, new) == /\ ticket[t].phase = "taken" /\ ticket[t].uses = 0
                    /\ new = [ticket[t] EXCEPT !.phase = "open"]
Vanish(t, new) == /\ ticket[t].phase \in {"open", "taken"}
                  /\ new = [ticket[t] EXCEPT !.phase = "gone"]

Step(t, new) == \/ Open(t, new) \/ Use(t, new) \/ Take(t, new) \/ UseTaken(t, new)
                \/ UseUp(t, new) \/ GiveBack(t, new) \/ Vanish(t, new)

\* Several tickets may change at once: a restart forgets them all.
Next ==
    /\ now' >= now
    /\ DOMAIN ticket' = Ticket
    /\ \A t \in Ticket : LET new == ticket'[t] IN new = ticket[t] \/ Step(t, new)

Spec == Init /\ [][Next]_<<ticket, now>>
=============================================================================
