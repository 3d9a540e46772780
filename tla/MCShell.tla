------------------------------ MODULE MCShell ------------------------------
(* Commands and lines for the runs of Shell.                               *)
EXTENDS Shell

Cmd(kind) == [kind |-> kind, leftover |-> 0, redirect |-> "none", words |-> 1]
With(command, redirect, words) == [command EXCEPT !.redirect = redirect, !.words = words]
Ls == Cmd("source")
Cat == Cmd("filter")
Head1 == Cmd("head")
Nope == Cmd("absent")
BadCd == Cmd("badcd")
Named(r) == [Ls EXCEPT !.leftover = r]      \* a name strcmp() takes for a builtin

MCLines ==
    { <<Ls>>, <<Named(1)>>, <<BadCd>>, <<Cmd("echo")>>, <<Cmd("exit")>>, <<With(Ls, "out", 3)>>,
      <<Ls, Head1>>, <<Ls, Nope>>, <<Ls, Cat, With(Cat, "out", 3)>>,
      <<Cmd("echo"), Cat>>, <<Ls, Cmd("cd"), Cat>>, <<Ls, Cmd("echo")>>,
      <<With(Cat, "in", 3), Ls>>, <<Ls, With(Cat, "badout", 2)>> }
=============================================================================
