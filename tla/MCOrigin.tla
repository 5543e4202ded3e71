------------------------------ MODULE MCOrigin ------------------------------
(***************************************************************************)
(* Small instances of Origin for TLC.                                      *)
(***************************************************************************)
EXTENDS OriginProperties, TLC

At(function, place, line, lines) ==
  [module |-> place, function |-> function, place |-> place, line |-> line, lines |-> lines]

Handler == At("handler", "app", 9, 20)
Server == <<At("next", "dep", 5, 0), At("New", "sdk", 1, 0), At("goexit", "bare", 1, 0)>>

\* A handler; a callback of the standard library at the first line of a file, above a
\* package in pkg/models and a handler beyond the end of its file; a goroutine with
\* nothing but the application, and one with nothing of it; and a stack deeper than what
\* is taken of it, its first line near the end of a file.
SomeStacks ==
  {<<Handler>> \o Server,
   <<At("less", "app", 1, 3), At("Slice", "std", 7, 30), At("load", "pkgmod", 3, 9),
     At("handler", "app", 21, 20)>> \o Server,
   <<At("job", "app", 1, 3), At("goexit", "bare", 1, 0)>>,
   <<At("retry", "dep", 2, 5), At("goexit", "bare", 1, 0)>>,
   <<At("handler", "app", 19, 20), Handler, At("walk", "app", 4, 4), At("walk", "app", 4, 4),
     Handler>> \o Server}

Brand(name) ==
  [name |-> name, version |-> IF name \in {"Not", "Other", "Chromium"} THEN "8" ELSE "120"]
Agent(words) == [w \in words |-> "120"]
Orders(name) ==
  {<<Brand(name), Brand("Chromium"), Brand("Not")>>,
   <<Brand("Not"), Brand("Chromium"), Brand(name)>>,
   <<Brand("Other"), Brand(name), Brand("Chromium")>>}

Sent(brands, agent, name, os) ==
  [brands |-> brands, agent |-> Agent(agent), name |-> name, version |-> "120", os |-> os]

\* The User-Agents of browsers, with their client hints and without; then Chrome for
\* iOS and Edge for Android, which the code takes for nobody's and for Chrome's, and a
\* client that is no browser.
SomeHeaders ==
  {Sent(b, {"Windows_NT", "Chrome/", "Safari/"}, "Chrome", "Windows") :
     b \in Orders("Google_Chrome") \cup {<<>>}}
  \cup {Sent(<<Brand("Not"), Brand("Microsoft_Edge")>>,
             {"Windows_NT", "Chrome/", "Safari/", "Edg/"}, "Edge", "Windows"),
        Sent(<<Brand("Brave"), Brand("Other")>>, {"Linux", "Android", "Chrome/", "Safari/"},
             "Brave", "Android"),
        Sent(<<>>, {"Linux", "Chrome/", "Safari/", "OPR/"}, "Opera", "Linux"),
        Sent(<<>>, {"iPhone", "Mac_OS_X", "Version/", "Safari/"}, "Safari", "iOS"),
        Sent(<<>>, {"Linux", "Firefox/"}, "Firefox", "Linux"),
        Sent(<<>>, {"iPhone", "Mac_OS_X", "Safari/"}, "Chrome", "iOS"),
        Sent(<<>>, {"Linux", "Android", "Chrome/", "Safari/"}, "Edge", "Android"),
        Sent(<<>>, {}, "", "")}

SomeFingerprints == {<<"order_error">>}
=============================================================================
