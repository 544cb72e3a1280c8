------------------------------ MODULE MCAccounts ------------------------------
(* Accounts on small sets; requests are interchangeable. *)
EXTENDS Accounts, TLC

\* Two passwords that bcrypt takes for one, and a third.
SharedPrefix == [p \in 0..MaxPw |-> p \div 2]

Interchangeable == Permutations(Requests)
===============================================================================
