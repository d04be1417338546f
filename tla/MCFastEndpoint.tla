--------------------------- MODULE MCFastEndpoint ---------------------------
(* FastEndpoint with two processes, and one mishap at a time. *)
EXTENDS FastEndpoint, TLC
CONSTANTS p1, p2
MCProcesses == {p1, p2}
MCCases == {Requests \cup {"fail", "slow"}, {"start", "pause", "resume", "die"},
            {"start", "starve"}}
NoMishaps == {{"start", "pause", "resume"}}
Symmetry == Permutations(MCProcesses)
=============================================================================
