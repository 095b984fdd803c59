----------------------------- MODULE MCRunMarker -----------------------------
(* Small instances of RunMarker: runs a1 a2 a3 and end-sessions on machine A,  *)
(* run b1 on machine B.                                                      *)
EXTENDS RunMarker

CONSTANTS a1, a2, a3, b1, ea

MCMachineOf == [x \in {a1, a2, a3, b1, ea} |-> IF x = b1 THEN "B" ELSE "A"]

World(io, one, ending) == [ioErrors |-> io, onePerMachine |-> one, ending |-> ending]

\* Runs and end-sessions, with I/O errors or without; runs only, one at a time
\* on each machine.
EveryWorld == {World(TRUE, FALSE, TRUE), World(FALSE, FALSE, TRUE), World(TRUE, TRUE, FALSE)}
RunsOnly == {World(FALSE, FALSE, FALSE)}
=============================================================================
