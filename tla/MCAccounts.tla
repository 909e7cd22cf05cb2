----------------------------- MODULE MCAccounts -----------------------------
(***************************************************************************)
(* Accounts with model values; sessions, links and requests are            *)
(* interchangeable. A behaviour calls the operations of one mix.           *)
(***************************************************************************)
EXTENDS Accounts, TLC

CONSTANTS c1, c2, c3, c4

TwoBatches == {{c1, c2}, {c3, c4}}

Joining == {"create", "register", "google", "verify", "resend", "login",
            "update", "deactivate", "throw"}
Browsing == {"create", "login", "refresh", "signout", "throw"}
Leaving == {"create", "login", "refresh", "logout"}
Aging == {"create", "login", "refresh", "time"}
Lapsing == {"create", "login", "logout", "forgot", "time"}
Forgetting == {"create", "login", "refresh", "forgot", "reset"}
Failing == {"create", "login", "forgot", "reset", "throw"}
Changing == {"create", "login", "refresh", "change"}
Overlapping == {"create", "login", "forgot", "reset", "change"}
Waiting == {"create", "login", "setup", "time"}
SecondFactor == {"create", "login", "setup", "confirm", "disable"}

AllMixes == {Joining, Browsing, Leaving, Aging, Lapsing, Forgetting, Failing,
             Changing, Overlapping, Waiting, SecondFactor}
RegisterMix == {{"register", "verify", "login"}}
CodesMix == {{"create", "login", "setup", "confirm"}}
ResetMix == {Forgetting}
LostMix == {{"create", "login", "refresh", "throw"}}

Symmetry == Permutations(Sessions) \cup Permutations(Links)
            \cup Permutations(Requests)
=============================================================================
