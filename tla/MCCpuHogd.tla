------------------------------ MODULE MCCpuHogd ------------------------------
(* Commands on both sides of every bound the daemon tests. *)
EXTENDS CpuHogd, TLC

Cmd(w, a) == [word |-> w, args |-> a]

\* A jam without a number and a hydra without seconds, which take those of the
\* next command in the same read or the value of an earlier one: 60 at first, 0,
\* -6 (no jam), 100 and 101 (the last one hydra accepts and the first it does not).
\* The mask is negative and has a gap; one bit is a CPU the daemon may not use.
MCMessages ==
    { Cmd("jam", <<>>), Cmd("hydra", <<-6>>), Cmd("hydra", <<0, 101>>),
      Cmd("number", <<100, 100>>), Cmd("quit", <<>>) }
=============================================================================
