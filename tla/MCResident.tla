----------------------------- MODULE MCResident -----------------------------
(***************************************************************************)
(* Instances of ResidentCoordinator for TLC.                               *)
(***************************************************************************)
EXTENDS ResidentProperties, TLC

\* Every coordinator serves the same model id on the same port, as the queue's
\* retry of a target does.
OneService == [c \in Coordinators |-> "service"]

\* One command per stage is enough to reach every place of the program.
OneCommand == [s \in Stages |-> 1]

\* The numbers of commands of the code.
AllCommands == [vstar |-> 3, mmstar |-> 1, zoombench |-> 2, judge |-> 4]

Symmetric == Permutations(Coordinators)
=============================================================================
