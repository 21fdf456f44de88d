---------------------------- MODULE MCGrantFacts ----------------------------
(* Model values and scenes for GrantFacts. *)
EXTENDS GrantFacts

Symmetry == Permutations(Passes)

\* Three transactions create and deactivate bindings.
Race == [open |-> 3, ends |-> {"revoke", "expire", "delete"}, sweeping |-> FALSE,
         changes |-> 0, aborts |-> 0]

\* The object comes, changes and goes while two transactions follow it, with the
\* sweep of the worker among them.
Queue == [open |-> 2, ends |-> {}, sweeping |-> TRUE, changes |-> 2, aborts |-> 0]

\* A transaction is lost on the way: a revocation, a pass of the queue or the sweep.
Loss == [open |-> 2, ends |-> {"revoke"}, sweeping |-> TRUE, changes |-> 1,
         aborts |-> 1]

AllScenes == {Race, Queue, Loss}

\* The object alone.
Object == {[open |-> 2, ends |-> {}, sweeping |-> TRUE, changes |-> 2, aborts |-> 0]}
=============================================================================
