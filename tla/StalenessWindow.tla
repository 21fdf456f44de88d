-------------------------- MODULE StalenessWindow --------------------------
(***************************************************************************)
(* What a verifier that answers from a copy promises: a subject is granted *)
(* only if it was valid less than Window before the caller asked.  How the *)
(* copy is kept, and when it is thrown away, is left open; to deny a       *)
(* caller is always allowed.                                               *)
(***************************************************************************)
EXTENDS Integers

CONSTANTS Subjects, Callers, Window

VARIABLES
    now,
    valid,          \* the subjects that are valid at the authority
    lastValid,      \* subject -> the moment it last stopped being valid
    asked,          \* calls under way: [caller, subject, at]
    granted         \* calls answered by a grant

vars == <<now, valid, lastValid, asked, granted>>

Call == [caller : Callers, subject : Subjects, at : Nat]

Init ==
    /\ now \in Nat
    /\ valid \subseteq Subjects
    /\ lastValid = [s \in Subjects |-> 0]
    /\ asked = {} /\ granted = {}

Tick == now' = now + 1 /\ UNCHANGED <<valid, lastValid, asked, granted>>

\* The authority changes its mind, in either direction.
Validate(s) ==
    /\ valid' = valid \cup {s}
    /\ UNCHANGED <<now, lastValid, asked, granted>>

Invalidate(s) ==
    /\ s \in valid
    /\ valid' = valid \ {s}
    /\ lastValid' = [lastValid EXCEPT ![s] = now]
    /\ UNCHANGED <<now, asked, granted>>

Others(S, c) == {x \in S : x.caller # c}

\* A caller asks; its earlier answer no longer counts.
Ask(c, s) ==
    /\ asked' = Others(asked, c) \cup {[caller |-> c, subject |-> s, at |-> now]}
    /\ granted' = Others(granted, c)
    /\ UNCHANGED <<now, valid, lastValid>>

Recent(x) == x.subject \in valid \/ lastValid[x.subject] > x.at - Window

Grant(x) ==
    /\ Recent(x)
    /\ asked' = asked \ {x} /\ granted' = granted \cup {x}
    /\ UNCHANGED <<now, valid, lastValid>>

\* Calls are denied, finished or lost.
Forget ==
    /\ asked' \subseteq asked /\ granted' \subseteq granted
    /\ UNCHANGED <<now, valid, lastValid>>

Next ==
    \/ Tick \/ Forget
    \/ \E s \in Subjects : Validate(s) \/ Invalidate(s)
    \/ \E c \in Callers, s \in Subjects : Ask(c, s)
    \/ \E x \in asked : Grant(x)

Spec == Init /\ [][Next]_vars
=============================================================================
