---------------------------- MODULE DocumentStore ----------------------------
(***************************************************************************)
(* What the owner of HomeTrap is promised about contract attachments: each *)
(* operation takes effect at once or not at all, and nothing else, a crash *)
(* or a restart included, changes what is kept.  A deletion that has begun *)
(* or has failed may put the attachments of its own tenant out of reach.   *)
(***************************************************************************)
CONSTANTS
    Tenants,    \* tenant identities
    Files,      \* attachments
    Owner       \* Owner[f] is the tenant attachment f belongs to

VARIABLES
    stored,     \* the attachments that are kept
    hidden,     \* those of them that cannot be downloaded for the time being
    saved       \* the attachments in the last backup

vars == <<stored, hidden, saved>>

Of(t) == {f \in Files : Owner[f] = t}

Init == stored = {} /\ hidden = {} /\ saved = {}

\* An upload request adds all of its files, which belong to one tenant.
Upload(t, fs) ==
    /\ fs \subseteq Of(t) \ stored
    /\ stored' = stored \cup fs
    /\ UNCHANGED <<hidden, saved>>

Remove(f) ==
    /\ f \in stored
    /\ stored' = stored \ {f}
    /\ hidden' = hidden \ {f}
    /\ UNCHANGED saved

\* The deletion of a tenant first puts all of its attachments out of reach.  If it
\* fails they are not lost: they come back at once or later.
HideTenant(t) ==
    /\ hidden' = hidden \cup (stored \cap Of(t))
    /\ UNCHANGED <<stored, saved>>

RemoveTenant(t) ==
    /\ stored' = stored \ Of(t)
    /\ hidden' = hidden \ Of(t)
    /\ UNCHANGED saved

Show(fs) ==
    /\ hidden' = hidden \ fs
    /\ UNCHANGED <<stored, saved>>

\* A backup takes what can be downloaded.
Backup ==
    /\ saved' = stored \ hidden
    /\ UNCHANGED <<stored, hidden>>

\* A restore only adds, and for each tenant it brings back all of the saved
\* attachments or none.
Restore(ts) ==
    /\ stored' = stored \cup {f \in saved : Owner[f] \in ts}
    /\ UNCHANGED <<hidden, saved>>

Next ==
    \/ \E t \in Tenants : \/ HideTenant(t) \/ RemoveTenant(t)
                          \/ \E fs \in SUBSET Of(t) : Upload(t, fs)
    \/ \E f \in Files : Remove(f)
    \/ \E fs \in SUBSET Files : Show(fs)
    \/ Backup
    \/ \E ts \in SUBSET Tenants : Restore(ts)

Spec == Init /\ [][Next]_vars
=============================================================================
