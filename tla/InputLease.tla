----------------------------- MODULE InputLease -----------------------------
(***************************************************************************)
(* What the Desktop Gateway promises about input, with no goroutine,       *)
(* channel, timer or reservation in it: at most one party holds it, it is  *)
(* handed over through nobody, it is numbered, and a quarantine or a       *)
(* shutdown keeps it free.  The promise is the one the comments of         *)
(* internal/desktopgateway/control.go make for controlRegistry; module     *)
(* InputControl is shown to keep it.                                       *)
(***************************************************************************)
EXTENDS Naturals

VARIABLES
  holder,      \* who holds input: nobody, the human or the agent
  term,        \* the number of the last lease granted
  quarantine,  \* no lease may be granted until a power operation lifts it
  closed       \* the process is shutting down

leaseVars == <<holder, term, quarantine, closed>>

Init ==
  /\ holder = "nobody" /\ term = 0
  /\ quarantine = FALSE /\ closed = FALSE

(* Input that is free and not withheld goes to one party under a new term.  *)
Grant(party) ==
  /\ holder = "nobody" /\ ~quarantine /\ ~closed
  /\ holder' = party /\ term' = term + 1
  /\ UNCHANGED <<quarantine, closed>>

(* The holder gives input up, or loses it, to nobody.                       *)
End ==
  /\ holder # "nobody"
  /\ holder' = "nobody"
  /\ UNCHANGED <<term, quarantine, closed>>

(* A power operation takes the desktop: only while nobody holds input.      *)
Withhold ==
  /\ holder = "nobody" /\ ~closed
  /\ quarantine' = TRUE
  /\ UNCHANGED <<holder, term, closed>>

(* A power operation ends and leaves the desktop usable.                    *)
Lift ==
  /\ holder = "nobody" /\ quarantine /\ ~closed
  /\ quarantine' = FALSE
  /\ UNCHANGED <<holder, term, closed>>

(* Shutdown begins.  A lease that is live is withheld from everyone else    *)
(* and ends later.                                                          *)
Close ==
  /\ ~closed
  /\ closed' = TRUE
  /\ quarantine' \in {TRUE, quarantine}
  /\ holder # "nobody" => quarantine'
  /\ UNCHANGED <<holder, term>>

Next ==
  \/ \E party \in {"human", "agent"} : Grant(party)
  \/ End \/ Withhold \/ Lift \/ Close

Spec == Init /\ [][Next]_leaseVars
=============================================================================
