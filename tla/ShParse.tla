------------------------------ MODULE ShParse -------------------------------
(***************************************************************************)
(* The parser of the shell (sh.c).  A line is a sequence of tokens: the    *)
(* symbols and the words that gettoken cuts out of the characters of the   *)
(* line.  A parse function takes the tokens that are left and returns the  *)
(* command with the tokens it leaves; panic() ends the process, here by a  *)
(* command of type PANIC that leaves nothing.                              *)
(***************************************************************************)
EXTENDS Naturals, Sequences

CONSTANT MAXARGS

Symbols == {"<", ">", ">>", "|", "&", ";", "(", ")"}

execcmd(argv) == [type |-> "EXEC", argv |-> argv]
redircmd(cmd, file, create, fd) ==
  [type |-> "REDIR", cmd |-> cmd, file |-> file, create |-> create, fd |-> fd]
PANIC == [type |-> "PANIC"]

\* The command of a constructor whose argument was parsed last: a panic in the
\* argument is all there is.
pipecmd(left, right) ==
  IF right = PANIC THEN PANIC ELSE [type |-> "PIPE", left |-> left, right |-> right]
listcmd(left, right) ==
  IF right = PANIC THEN PANIC ELSE [type |-> "LIST", left |-> left, right |-> right]
backcmd(cmd) == [type |-> "BACK", cmd |-> cmd]

parsed(cmd, s) == [cmd |-> cmd, s |-> s]
panic == parsed(PANIC, <<>>)

\* gettoken: what the next token is; the end of the line is a token, too.
gettoken(s) == IF s = <<>> THEN "end" ELSE IF Head(s) \in Symbols THEN Head(s) ELSE "word"

peek(s, toks) == gettoken(s) \in toks

\* The redirections at the front of s, after the ones found so far.  > and >>
\* open the file in the same mode.
RECURSIVE parseredirs(_, _)
parseredirs(redirs, s) ==
  IF ~peek(s, {"<", ">", ">>"}) THEN [redirs |-> redirs, s |-> s, ok |-> TRUE]
  ELSE IF gettoken(Tail(s)) # "word" THEN [redirs |-> redirs, s |-> s, ok |-> FALSE]
  ELSE parseredirs(Append(redirs, [file |-> s[2], create |-> s[1] # "<"]),
                   SubSeq(s, 3, Len(s)))

\* cmd inside its redirections: the last one written is the outermost.
RECURSIVE redirected(_, _)
redirected(cmd, redirs) ==
  IF redirs = <<>> THEN cmd
  ELSE LET r == Head(redirs)
       IN redirected(redircmd(cmd, r.file, r.create, IF r.create THEN 1 ELSE 0), Tail(redirs))

\* The loop of parseexec: words, each followed by redirections.
RECURSIVE parseargs(_, _, _)
parseargs(argv, redirs, s) ==
  LET r == parseredirs(redirs, s)
  IN IF ~r.ok \/ Len(argv) >= MAXARGS \/ peek(r.s, {"("}) THEN panic
     ELSE IF peek(r.s, {"|", ")", "&", ";", "end"})
       THEN parsed(redirected(execcmd(argv), r.redirs), r.s)
     ELSE parseargs(Append(argv, Head(r.s)), r.redirs, Tail(r.s))

RECURSIVE parseline(_)
RECURSIVE parsepipe(_)

parseblock(s) ==
  LET l == parseline(Tail(s))
      r == parseredirs(<<>>, Tail(l.s))
  IN IF ~peek(l.s, {")"}) THEN panic
     ELSE IF ~r.ok THEN panic
     ELSE parsed(redirected(l.cmd, r.redirs), r.s)

parseexec(s) == IF peek(s, {"("}) THEN parseblock(s) ELSE parseargs(<<>>, <<>>, s)

parsepipe(s) ==
  LET e == parseexec(s)
      p == parsepipe(Tail(e.s))
  IN IF peek(e.s, {"|"}) THEN parsed(pipecmd(e.cmd, p.cmd), p.s) ELSE e

RECURSIVE backs(_)
backs(l) == IF peek(l.s, {"&"}) THEN backs(parsed(backcmd(l.cmd), Tail(l.s))) ELSE l

\* Slip: what follows a semicolon belongs to the last command of the pipeline.
parselineRight(s) ==
  LET b == parsepipe(s)
      l == parseline(Tail(b.s))
  IN IF peek(b.s, {";"}) THEN parsed(listcmd(b.cmd, l.cmd), l.s) ELSE backs(b)

parseline(s) ==
  LET b == backs(parsepipe(s))
      l == parseline(Tail(b.s))
  IN IF peek(b.s, {";"}) THEN parsed(listcmd(b.cmd, l.cmd), l.s) ELSE b

parsecmd(s) == LET l == parseline(s) IN IF l.s = <<>> THEN l.cmd ELSE PANIC
=============================================================================
