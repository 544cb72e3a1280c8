------------------------------ MODULE MCRequests ------------------------------
(* Requests on small sets; requests are interchangeable, and so are users and ids. *)
EXTENDS Requests, TLC

Interchangeable == Permutations(Requests) \cup Permutations(Users) \cup Permutations(Posts)
===============================================================================
