------------------------------ MODULE MCRunPath -------------------------------
EXTENDS RunPath

\* A plain call; the others differ from it.
Plain == [abi |-> "auto", trust |-> "unknown", sub |-> FALSE,
          protected |-> FALSE, blockade |-> FALSE, expected |-> NoDigest,
          event |-> FALSE, fuel |-> TRUE, cpuWall |-> FALSE, byteWall |-> FALSE,
          fsync |-> FALSE, dir |-> FALSE, pool |-> TRUE]

MCCalls == {
    Plain,
    [Plain EXCEPT !.trust = "trusted", !.expected = "comp"],
    [Plain EXCEPT !.trust = "mistyped"],
    [Plain EXCEPT !.abi = "preview1", !.event = TRUE, !.blockade = TRUE, !.byteWall = TRUE,
                  !.fuel = FALSE],
    [Plain EXCEPT !.abi = "preview1", !.fuel = FALSE, !.dir = TRUE],
    [Plain EXCEPT !.abi = "preview1", !.sub = TRUE, !.fuel = FALSE, !.expected = "core"],
    [Plain EXCEPT !.abi = "component", !.trust = "trusted", !.dir = TRUE],
    [Plain EXCEPT !.blockade = TRUE],
    [Plain EXCEPT !.protected = TRUE, !.trust = "untrusted", !.cpuWall = TRUE,
                  !.byteWall = TRUE],
    [Plain EXCEPT !.protected = TRUE, !.blockade = TRUE, !.expected = "comp",
                  !.cpuWall = TRUE, !.byteWall = TRUE],
    [Plain EXCEPT !.protected = TRUE, !.byteWall = TRUE, !.fsync = TRUE]
}

\* The words that change a verdict.  Where "interrupt" is looked for it comes
\* first; where it is not, "exit 0" decides.
MCNames == {{}, {"interrupt", "exit 0"}, {"all fuel consumed"}}
===============================================================================
