------------------------------ MODULE MCStream ------------------------------
(* One task, one or two workers for model checking TaskStream. *)
EXTENDS TaskStream, TLC

CONSTANTS t1, w1, w2

OneTask == {t1}
OneWorker == {w1}
TwoWorkers == {w1, w2}

\* Without maintenance, which only makes jobs and the sweep wait: what happens
\* with pauses happens without them, too.
Unpaused == ~paused

\* Workers are interchangeable.
Symmetry == Permutations(Workers)
=============================================================================
