------------------------------- MODULE Sender -------------------------------
(***************************************************************************)
(* What a class that implements Sender (src/includes/sender.h) promises to *)
(* the system that uses it, as one variable.                               *)
(*                                                                         *)
(*   closed    not initialized, or end_sender was called                   *)
(*   ready     the last list was sent: is_send_done is true                *)
(*   queued    a list was accepted; the sender still points at the caller's *)
(*   sending   the list was copied; is_send_done is false                  *)
(*   broken    the worker ended while ready: is_send_done is still true    *)
(*   stuck     the worker ended with a list in hand: is_send_done stays    *)
(*             false                                                       *)
(***************************************************************************)
VARIABLE phase

Phases == {"closed", "ready", "queued", "sending", "broken", "stuck"}

\* is_send_done, for a sender that is open.
Done == phase \in {"ready", "broken"}

Init == phase = "closed"

\* initialize returns true; the worker may have failed by then.
Open == phase = "closed" /\ phase' \in {"ready", "broken"}

\* send returns true.  A worker that ends after send looked at it leaves the
\* list with nobody to take it.
Accept ==
  \/ phase = "ready"  /\ phase' = "queued"
  \/ phase = "broken" /\ phase' = "stuck"

Take     == phase = "queued"  /\ phase' = "sending"
Complete == phase = "sending" /\ phase' = "ready"

\* The worker ends because of an error.
Fail ==
  \/ phase = "ready" /\ phase' = "broken"
  \/ phase \in {"queued", "sending"} /\ phase' = "stuck"

\* end_sender, called by the user or at the start of initialize.
Close == phase # "closed" /\ phase' = "closed"

Next == Open \/ Accept \/ Take \/ Complete \/ Fail \/ Close

Spec == Init /\ [][Next]_phase
=============================================================================
