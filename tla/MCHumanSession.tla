--------------------------- MODULE MCHumanSession ---------------------------
(***************************************************************************)
(* Scenes of the login lane for TLC: which verbs take part, and what the   *)
(* person starts with.                                                     *)
(***************************************************************************)
EXTENDS HumanSession, TLC

\* The calls and the session identifiers are interchangeable.
Symmetry == Permutations(Requests) \cup Permutations(Sessions)

\* Logins, the replacement of the password and everything that ends sessions.
Password ==
    [verbs |-> {"login", "change", "recover", "force", "logout", "endown"},
     steps |-> {}, outdated |-> FALSE, enrolled |-> FALSE,
     maxNow |-> 3, maxGen |-> 1, maxSecrets |-> 0, maxCodes |-> 1]

\* Codes presented against a factor that can be removed or reset meanwhile.
Factor ==
    [verbs |-> {"login", "stepup", "remove", "reset"},
     steps |-> {1, 2}, outdated |-> TRUE, enrolled |-> TRUE,
     maxNow |-> 1, maxGen |-> 0, maxSecrets |-> 1, maxCodes |-> 0]

\* Secrets and sets of codes that replace each other.
Enrolment ==
    [verbs |-> {"login", "confirm", "regenerate", "remove"},
     steps |-> {1}, outdated |-> FALSE, enrolled |-> FALSE,
     maxNow |-> 1, maxGen |-> 0, maxSecrets |-> 2, maxCodes |-> 0]

AllScenes == {Password, Factor, Enrolment}

\* A password change while logins verify an outdated hash.
Outdated ==
    [verbs |-> {"login", "change"},
     steps |-> {}, outdated |-> TRUE, enrolled |-> FALSE,
     maxNow |-> 2, maxGen |-> 1, maxSecrets |-> 0, maxCodes |-> 0]

OutdatedScene == {Outdated}
=============================================================================
