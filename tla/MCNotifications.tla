---------------------------- MODULE MCNotifications ----------------------------
(* One apartment over four months of two, two, four and two days for TLC. *)
EXTENDS Notifications

CONSTANTS a1, email, phone

MCFirstDay == <<0, 2, 4, 8, 10>>

\* One contract, whose billing day may move and which may end, and a successor.
MCOffers ==
    {[apartment |-> a1, start |-> 1, end |-> 10, day |-> d] : d \in {2, 4}}
        \cup {[apartment |-> a1, start |-> 1, end |-> 3, day |-> 2],
              [apartment |-> a1, start |-> 5, end |-> 10, day |-> 0]}

\* Email and Web Push, or Web Push alone at other distances.
MCPlans ==
    {[before |-> 2, every |-> 2, readings |-> 4, after |-> 1, again |-> 2,
      channels |-> {email}, push |-> TRUE],
     [before |-> 1, every |-> 1, readings |-> 2, after |-> 2, again |-> 1,
      channels |-> {}, push |-> TRUE]}

\* One who bills, one who lets, one who follows an invoice, and two who cannot decide.
MCOwners ==
    {{"contracts", "invoices"}, {"contracts", "archive"}, {"invoices", "status", "push"},
     {"contracts", "settings"}, {"status", "settings"}}
================================================================================
