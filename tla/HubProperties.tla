--------------------------- MODULE HubProperties ---------------------------
(***************************************************************************)
(* What hubs and scopes must satisfy.                                      *)
(***************************************************************************)
EXTENDS Hub

Notes == [by : Goroutines, on : Scopes]
Drafts == [scope : Scopes \cup {0}, todo : SUBSET Kinds, got : [Kinds -> Seq(Notes)],
           marked : BOOLEAN]

\* Every variable holds a value of its type, a hub in use points at an allocated
\* scope, and no scope holds more of a kind than there is room for, so that "memory
\* stays bounded" (span.go:622-623).
TypeOK ==
  /\ note \in [Scopes -> [Kinds -> Seq(Notes)]]
  /\ \A s \in Scopes, k \in Kinds : Len(note[s][k]) <= Room(k)
  /\ captured \in [Scopes -> BOOLEAN]
  /\ scopes \in Scopes
  /\ current \in [Hubs -> 0..scopes]
  /\ hub \in [Goroutines -> Goroutines \cup {"none"}]
  /\ \A g \in Goroutines : hub[g] # "none" => current[hub[g]] # 0
  /\ context \in [Goroutines -> Hubs]
  /\ open \in [Goroutines -> Seq([original : Scopes, clone : Scopes])]
  /\ home \in [Hubs -> 0..scopes]
  /\ draft \in [Goroutines -> Drafts]
  /\ made \in [Goroutines -> SUBSET [kind : Kinds, scope : Scopes]]

-----------------------------------------------------------------------------
\* What a WithScope callback or a cloned hub sets never reaches the request's own
\* scope: it holds only notes made on itself.  "Mutations made inside fn are
\* scoped to that callback only" (span.go:373-374).
RequestScopeIsClean ==
  \A k \in Kinds : \A i \in DOMAIN note[Base][k] : note[Base][k][i].on = Base

\* Outside its callbacks a hub points where it did before them: at the request's
\* scope, or at the scope of its clone, and never at a callback's scope
\* (span.go:390-402).
ScopeRestored ==
  \A h \in Hubs :
    (\A g \in Goroutines : hub[g] = h => open[g] = <<>>) => current[h] = home[h]

Complete(g) == draft[g].scope # 0 /\ draft[g].todo = {}

\* A note that came after another of the same goroutine's hub: made on the same scope
\* or further in, and by that goroutine itself unless on the request's scope, to which
\* all the request's goroutines write.
Later(n, own) == n.on >= own.on /\ (n.on = Base \/ n.by = own.by)

\* A note is there, or later ones have taken all the room.
Survives(trail, kind, own) ==
  \/ \E i \in DOMAIN trail :
       trail[i] = own /\ \A j \in i..Len(trail) : Later(trail[j], own)
  \/ Len(trail) = Room(kind) /\ \A j \in DOMAIN trail : Later(trail[j], own)

\* An event captured through a hub carries what its goroutine set through that hub and
\* in the callbacks open around the capture: captures made inside fn "will use the
\* modified scope" (span.go:375-376).  The fingerprint, the user and each key have a
\* value, and one of an outer scope never shows for that of an inner one; a breadcrumb
\* gives way only to later ones (span.go:523-527, 602, 629-632).  On the request's own
\* scope the later value may be another goroutine's; on a hub's or a callback's own it
\* is the goroutine's.
CaptureIsEnriched ==
  \A g \in Goroutines :
    Complete(g) /\ draft[g].scope = current[hub[g]] =>
      \A m \in made[g] :
        Survives(draft[g].got[m.kind], m.kind, [by |-> g, on |-> m.scope])
=============================================================================
