-------------------------- MODULE MCAttachmentStore --------------------------
(* Small instances of AttachmentStore for TLC. *)
EXTENDS AttachmentStore, TLC

CONSTANTS w1, w2, t1, t2, f1, f2, f3, n1, n2

\* Two files of one tenant, so that an upload or a clean-up can stop half way.
MCOwner == (f1 :> t1) @@ (f2 :> t1) @@ (f3 :> t2)

\* One file for each tenant.
TwoFiles == (f1 :> t1) @@ (f3 :> t2)

\* Tenants are not interchangeable: they own different files.
Interchangeable == Permutations({w1, w2}) \cup Permutations({n1, n2})
=============================================================================
