--------------------------- MODULE MCAdminSessions ---------------------------
(* AdminSessions on small sets; requests and session ids are interchangeable. *)
EXTENDS AdminSessions, TLC

Interchangeable == Permutations(Requests) \cup Permutations(Sids)
=============================================================================
