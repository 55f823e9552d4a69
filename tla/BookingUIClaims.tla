-------------------------- MODULE BookingUIClaims --------------------------
(* What a comment of the event page says and its code does not do.         *)
EXTENDS BookingUI

\* EventDetailPage.tsx:81: the page reloads "so we get the new fresh set of
\* tickets" after a cancel. So the first list of a page that is loaded does not
\* show as the user's own a ticket whose reservation he has cancelled.
CancelledNotListed ==
  [][list = None /\ list' # None =>
       \A x \in cancels : list'.mine \cap x.ids = {}]_vars
=============================================================================
