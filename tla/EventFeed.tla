------------------------------- MODULE EventFeed -------------------------------
(***************************************************************************)
(* What BoldEventCoordinator promises its listeners, without how: of each  *)
(* event in Bold's log they hear at most once, and never of one that was   *)
(* there before its device was followed.  EventCoordinator implements it.  *)
(***************************************************************************)
CONSTANT EventKeys      \* what an event is recognised by, BoldEvent.key

VARIABLE feed           \* for each event in the log, what became of it

Standings == {"new",        \* not reported yet
              "old",        \* in the log when its device was first polled
              "reported"}   \* given to the listeners as new

Init == feed = [k \in {} |-> "new"]

\* A lock uploads an event.
Log ==
    \E k \in EventKeys \ DOMAIN feed :
        feed' = [j \in DOMAIN feed \cup {k} |-> IF j = k THEN "new" ELSE feed[j]]

\* Some events that were new become `standing`.
Become(standing) ==
    \E events \in (SUBSET {k \in DOMAIN feed : feed[k] = "new"}) \ {{}} :
        feed' = [k \in DOMAIN feed |-> IF k \in events THEN standing ELSE feed[k]]

\* A device is followed: its history is taken for known.
Follow == Become("old")

\* The listeners are given new events, of a poll or a push.
Report == Become("reported")

\* All three change the feed.  Saying so first lets TLC leave at once the many
\* steps of an implementation that do not.
Next == feed' # feed /\ (Log \/ Follow \/ Report)

Spec == Init /\ [][Next]_feed
=============================================================================
