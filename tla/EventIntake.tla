---------------------------- MODULE EventIntake ----------------------------
(***************************************************************************)
(* What a checkpointed event source promises, whichever processor reads    *)
(* it: an event is taken care of before the stored cursor passes it.  The  *)
(* cursor moves forward, over events that are accounted for, or goes back  *)
(* to a saved copy of the store together with the outcomes of that copy.   *)
(***************************************************************************)
EXTENDS Integers

VARIABLES
    checkpoint,     \* the stored cursor, -1 while the key is missing
    done,           \* positions taken care of, as far as the store knows
    saved           \* the copy a restart of the store comes back to

intakeVars == <<checkpoint, done, saved>>

Covered(c, D) == 1..c \subseteq D

Init == checkpoint = -1 /\ done = {} /\ saved = [at |-> -1, done |-> {}]

(* An event is indexed, queued, dropped or skipped.                        *)
Take ==
    /\ done \subseteq done'
    /\ UNCHANGED <<checkpoint, saved>>

(* The cursor moves; everything it passes is accounted for.                *)
Commit ==
    /\ checkpoint' > checkpoint
    /\ Covered(checkpoint', done)
    /\ UNCHANGED <<done, saved>>

Snapshot ==
    /\ saved' = [at |-> checkpoint, done |-> done]
    /\ UNCHANGED <<checkpoint, done>>

Restore ==
    /\ checkpoint' = saved.at /\ done' = saved.done
    /\ UNCHANGED saved

Next == Take \/ Commit \/ Snapshot \/ Restore

Spec == Init /\ [][Next]_intakeVars
=============================================================================
