------------------------------ MODULE MCShell -------------------------------
(* Commands with each construct of the shell, and tables of several sizes.  *)
EXTENDS Shell

Echo(w) == execcmd(<<"echo", w>>)
CatIn == execcmd(<<"cat">>)
To(c, f) == redircmd(c, f, TRUE, 1)
From(c, f) == redircmd(c, f, FALSE, 0)

SomeCmds ==
  {pipecmd(Echo("a"), To(CatIn, "f")),
   pipecmd(execcmd(<<"cat", "f">>), pipecmd(CatIn, CatIn)),
   pipecmd(Echo("a"), Echo("b")),
   pipecmd(listcmd(backcmd(From(CatIn, "f")), Echo("b")), CatIn)}
SomeGarbage == {<<"echo", ">">>}

Size(nproc, nfile, nofile, npipe) ==
  [nproc |-> nproc, nfile |-> nfile, nofile |-> nofile, npipe |-> npipe]
SomeLimits == {Size(7, 5, 6, 2), Size(5, 5, 6, 1), Size(7, 5, 4, 2)}

\* Commands of two levels, with every construct inside every other.
Simple == {execcmd(<<>>), Echo("a")}
Over(S) ==
  {pipecmd(c, d) : c \in S, d \in S} \cup {listcmd(c, d) : c \in S, d \in S}
    \cup {backcmd(c) : c \in S} \cup {To(c, "f") : c \in S} \cup {From(c, "f") : c \in S}
Trees == Simple \cup Over(Simple \cup Over(Simple))

\* The parser turns every printed command of two levels back into itself:
\* precedence, nesting in parentheses and the order of redirections
\* (sh.c:327-446).  Constant, and evaluated while init starts.
ParserInverts ==
  at(initproc, "console") => \A c \in Trees : parsecmd(show(c)) = c
=============================================================================
