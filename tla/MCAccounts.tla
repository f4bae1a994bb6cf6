----------------------------- MODULE MCAccounts -----------------------------
(***************************************************************************)
(* Instances of Accounts for TLC.                                          *)
(***************************************************************************)
EXTENDS Accounts

Form(r, d, p) == [role |-> r, disabled |-> d, password |-> p]

\* One PATCH per path through its handler.
MCForms == {Form("none", "none", "strong"), Form("admin", "none", "strong"),
            Form("viewer", "none", "none"), Form("none", "yes", "none"),
            Form("none", "no", "none"),     Form("viewer", "none", "weak")}

Admin(n) == [name |-> n, role |-> "admin", disabled |-> FALSE, era |-> 0]
Session(i, n) == [user |-> i, name |-> n, era |-> 0, expired |-> FALSE]

\* A fresh database, and two administrators who are logged in.
MCStarts(c, d, m, n) ==
  { [users |-> << >>, lastUser |-> 0, sessions |-> << >>, lastToken |-> 0,
     cookie |-> [x \in Clients |-> 0]],
    [users |-> <<Admin(m), Admin(n)>>, lastUser |-> 2,
     sessions |-> <<Session(1, m), Session(2, n)>>, lastToken |-> 2,
     cookie |-> [x \in Clients |-> IF x = c THEN 1 ELSE 2]] }

CONSTANTS c1, c2, ann, bob, cat
MCClients == {c1, c2}
MCNames == {ann, bob, cat}
MCStart == MCStarts(c1, c2, ann, bob)
=============================================================================
