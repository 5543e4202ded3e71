----------------------------- MODULE MCPayload -----------------------------
(***************************************************************************)
(* Small instances of Payload for TLC.                                     *)
(***************************************************************************)
EXTENDS PayloadProperties, TLC

CONSTANTS i1, i2

\* A key that is withheld, and keys that the options, the host and the browser have a
\* tag for, which an application may use as well.
FourKeys == {"token", "os", "environment", "browser"}
Environment == <<"environment">>

\* One item with tags from everywhere, some of them twice, and one with none of its
\* own.
OneTagged ==
  LET some == [scope   |-> {<<>>, <<"token">>, <<"environment">>},
               span    |-> {<<>>, <<"os", "browser">>},
               browser |-> {<<>>, <<"browser">>},
               call    |-> {<<>>, <<"token", "token">>, <<"os", "browser", "os">>}]
  IN  (i1 :> some) @@ (i2 :> [source \in DOMAIN some |-> {<<>>}])
=============================================================================
