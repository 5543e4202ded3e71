-------------------------------- MODULE Hub --------------------------------
(***************************************************************************)
(* Hubs and scopes (span.go:27-646, and Client.captureWithContext).  A hub *)
(* is a pointer to a scope; goroutines annotate the scope, swap the        *)
(* pointer for the length of a WithScope callback, and capture events that *)
(* copy what the scope holds.                                              *)
(*                                                                         *)
(* A step is one section under a mutex (a hub's or a scope's).  A note is  *)
(* one call of a setter: the goroutine that made it and the scope it was   *)
(* made on.  A kind of tag or extra is one key of them.  The scopes form a *)
(* heap, numbered as they are allocated; 1 is the scope of the hub that is *)
(* stored in the request's context.                                        *)
(***************************************************************************)
EXTENDS Integers, Sequences, FiniteSets

CONSTANTS
  Goroutines,     \* each may hold a hub of its own, named after it
  Stored,         \* the hub in the context: SetHubOnContext
  Kinds,          \* what is annotated: some of DOMAIN ReadOrder
  Ways,           \* how a goroutine comes by its hub
  MaxBreadcrumbs, \* maxBreadcrumbs: how many a scope keeps
  MaxScopes       \* bound: scopes allocated in a run

ASSUME HubAssumption ==
  /\ Stored \notin Goroutines
  /\ "none" \notin Goroutines
  /\ Kinds \subseteq {"fingerprint", "tag", "breadcrumb", "user", "extra"}
  /\ Ways \subseteq {"context", "share", "clone", "cloneWithBreadcrumbs"}
  /\ MaxBreadcrumbs \in Nat \ {0}
  /\ MaxScopes \in Nat \ {0}

VARIABLES
  note,      \* by scope and kind: the notes it holds, the oldest first
  captured,  \* Scope.captured
  scopes,    \* how many scopes have been allocated
  current,   \* Hub.scope
  hub,       \* the hub a goroutine holds, or "none"
  context,   \* the hub in the goroutine's context
  open,      \* its WithScope calls under way: what each restores, and its clone
  home,      \* history: the scope a hub was made with
  draft,     \* the capture call it is in, or NoDraft
  made       \* history: by goroutine, the notes it made that no callback ended

scopeVars == <<note, captured, scopes>>
hubVars == <<scopeVars, current, hub, context, open, home, draft, made>>

Base == 1
Scopes == 1..MaxScopes
Hubs == Goroutines \cup {Stored}

\* How many notes of a kind a scope holds: a fingerprint, a user and the value of a
\* key replace what was there, and breadcrumbs are a ring.
Room(kind) == IF kind = "breadcrumb" THEN MaxBreadcrumbs ELSE 1
NothingNoted == [k \in Kinds |-> <<>>]

\* The order in which a capture reads its scope.
ReadOrder == [fingerprint |-> 1, tag |-> 2, breadcrumb |-> 3, user |-> 4, extra |-> 5]
NoDraft == [scope |-> 0, todo |-> {}, got |-> NothingNoted, marked |-> FALSE]
IsNext(k, kinds) == k \in kinds /\ \A other \in kinds : ReadOrder[k] <= ReadOrder[other]

Idle(g) == hub[g] # "none" /\ draft[g] = NoDraft
Innermost(g) == open[g][Len(open[g])]

HubInit ==
  /\ note = [s \in Scopes |-> NothingNoted]
  /\ captured = [s \in Scopes |-> FALSE]
  /\ scopes = Base
  /\ current = [h \in Hubs |-> IF h = Stored THEN Base ELSE 0]
  /\ hub = [g \in Goroutines |-> "none"]
  /\ context = [g \in Goroutines |-> Stored]
  /\ open = [g \in Goroutines |-> <<>>]
  /\ home = current
  /\ draft = [g \in Goroutines |-> NoDraft]
  /\ made = [g \in Goroutines |-> {}]

-----------------------------------------------------------------------------
\* A new scope, which starts with what the kinds hold on the scope from.
Allocate(from, kinds) ==
  /\ scopes < MaxScopes
  /\ scopes' = scopes + 1
  /\ note' = [note EXCEPT ![scopes'] =
                [k \in Kinds |-> IF k \in kinds THEN note[from][k] ELSE <<>>]]
  /\ UNCHANGED captured

\* Mutant of GetHub: the copy has no scope.
GetHubWithoutScope(g) ==
  /\ "context" \in Ways
  /\ hub' = [hub EXCEPT ![g] = g]
  /\ UNCHANGED <<scopeVars, current, context, open, home, draft, made>>

\* GetHubFromContext: a copy of the hub in the context, with the same scope.
GetHub(g) ==
  /\ "context" \in Ways
  /\ hub' = [hub EXCEPT ![g] = g]
  /\ current' = [current EXCEPT ![g] = current[context[g]]]
  /\ home' = [home EXCEPT ![g] = current'[g]]
  /\ UNCHANGED <<scopeVars, context, open, draft, made>>

\* A goroutine is started with the very hub of another one.
ShareHub(g, from) ==
  /\ "share" \in Ways
  /\ hub[from] # "none"
  /\ hub' = [hub EXCEPT ![g] = hub[from]]
  /\ UNCHANGED <<scopeVars, current, context, open, home, draft, made>>

\* What Clone and CloneWithBreadcrumbs copy of the parent's scope.
Inherited(way) ==
  {"tag", "user"} \cup IF way = "cloneWithBreadcrumbs" THEN {"breadcrumb"} ELSE {}

\* hub.Clone() for a goroutine, which puts the clone in its own context.
CloneHub(g, from, way) ==
  /\ way \in Ways \ {"context", "share"}
  /\ hub[from] # "none"
  /\ Allocate(current[hub[from]], Inherited(way))
  /\ hub' = [hub EXCEPT ![g] = g]
  /\ current' = [current EXCEPT ![g] = scopes']
  /\ home' = [home EXCEPT ![g] = scopes']
  /\ context' = [context EXCEPT ![g] = g]
  /\ UNCHANGED <<open, draft, made>>

\* WithScope, up to the call of fn: clone() copies every kind, and the clone has
\* captured nothing yet.
WithScope(g) ==
  /\ Idle(g)
  /\ Allocate(current[hub[g]], Kinds)
  /\ current' = [current EXCEPT ![hub[g]] = scopes']
  /\ open' = [open EXCEPT ![g] =
                Append(@, [original |-> current[hub[g]], clone |-> scopes'])]
  /\ UNCHANGED <<hub, context, home, draft, made>>

\* Mutant of EndWithScope: the scope is left in place.
EndWithoutRestoring(g) ==
  /\ Idle(g) /\ open[g] # <<>>
  /\ open' = [open EXCEPT ![g] = SubSeq(@, 1, Len(@) - 1)]
  /\ UNCHANGED <<scopeVars, current, hub, context, home, draft, made>>

\* The deferred end of WithScope, whether fn returned or panicked.
EndWithScope(g) ==
  /\ Idle(g) /\ open[g] # <<>>
  /\ current' = [current EXCEPT ![hub[g]] = Innermost(g).original]
  /\ open' = [open EXCEPT ![g] = SubSeq(@, 1, Len(@) - 1)]
  /\ made' = [made EXCEPT ![g] = {m \in @ : m.scope # Innermost(g).clone}]
  /\ UNCHANGED <<scopeVars, hub, context, home, draft>>

\* The scopes a goroutine can write to: its hub's, and the one WithScope gave to
\* its callback.
Reach(g) == {current[hub[g]]} \cup
            IF open[g] = <<>> THEN {} ELSE {Innermost(g).clone}

\* What a kind holds once n has been noted: the oldest makes room for it.
Noted(trail, kind, n) ==
  Append(IF Len(trail) >= Room(kind) THEN Tail(trail) ELSE trail, n)

\* Mutant of Annotate: a clone shares the slices and maps of its original.
AnnotateThrough(g, kind) ==
  /\ Idle(g)
  /\ LET reached == Reach(g) \cup {home[hub[g]]}
         n == [by |-> g, on |-> current[hub[g]]] IN
     note' = [s \in Scopes |->
                IF s \in reached THEN [note[s] EXCEPT ![kind] = Noted(@, kind, n)]
                ELSE note[s]]
  /\ UNCHANGED <<captured, scopes, current, hub, context, open, home, draft, made>>

\* Mutant of Annotate: what is there already is not replaced, and a full ring takes
\* nothing more.
AnnotateIfRoom(g, kind) ==
  /\ Idle(g)
  /\ \E s \in Reach(g) :
       /\ note' = [note EXCEPT ![s][kind] =
                     IF Len(@) >= Room(kind) THEN @ ELSE Append(@, [by |-> g, on |-> s])]
       /\ made' = [made EXCEPT ![g] = @ \cup {[kind |-> kind, scope |-> s]}]
  /\ UNCHANGED <<captured, scopes, current, hub, context, open, home, draft>>

\* SetTag, AddBreadcrumb, SetContext (SetExtra), SetUser, SetFingerprint.
Annotate(g, kind) ==
  /\ Idle(g)
  /\ \E s \in Reach(g) :
       /\ note' = [note EXCEPT ![s][kind] = Noted(@, kind, [by |-> g, on |-> s])]
       /\ made' = [made EXCEPT ![g] = @ \cup {[kind |-> kind, scope |-> s]}]
  /\ UNCHANGED <<captured, scopes, current, hub, context, open, home, draft>>

-----------------------------------------------------------------------------
StartDraft(g, s) ==
  /\ draft' = [draft EXCEPT ![g] = [NoDraft EXCEPT !.scope = s, !.todo = Kinds]]
  /\ UNCHANGED <<scopeVars, current, hub, context, open, home, made>>

\* Hub.CaptureException and CaptureMessage: scopeSnapshot.
Capture(g) == Idle(g) /\ StartDraft(g, current[hub[g]])

\* Client.CaptureException and CaptureMessage, given the goroutine's context.
CaptureWithContext(g) == Idle(g) /\ StartDraft(g, current[context[g]])

\* fingerprint(), then applyScopeData: one section of the scope's mutex each.
ReadNotes(g) ==
  \E k \in draft[g].todo :
    /\ IsNext(k, draft[g].todo)
    /\ draft' = [draft EXCEPT ![g].got[k] = note[draft[g].scope][k], ![g].todo = @ \ {k}]
    /\ UNCHANGED <<scopeVars, current, hub, context, open, home, made>>

\* scope.markCaptured, on the scope of the snapshot.
MarkCaptured(g) ==
  /\ draft[g].scope # 0 /\ draft[g].todo = {} /\ ~draft[g].marked
  /\ captured' = [captured EXCEPT ![draft[g].scope] = TRUE]
  /\ draft' = [draft EXCEPT ![g].marked = TRUE]
  /\ UNCHANGED <<note, scopes, current, hub, context, open, home, made>>

\* The event is handed to CaptureEventAsync.
Deliver(g) ==
  /\ draft[g].marked
  /\ draft' = [draft EXCEPT ![g] = NoDraft]
  /\ UNCHANGED <<scopeVars, current, hub, context, open, home, made>>

\* Hub.MarkCaptured, called by the application.
Vouch(g) ==
  /\ Idle(g)
  /\ captured' = [captured EXCEPT ![current[hub[g]]] = TRUE]
  /\ UNCHANGED <<note, scopes, current, hub, context, open, home, draft, made>>

BuildEvent(g) == ReadNotes(g) \/ MarkCaptured(g)

\* The calls of the application.
HubCall(g) ==
  \/ WithScope(g)
  \/ EndWithScope(g)
  \/ \E k \in Kinds : Annotate(g, k)
  \/ Capture(g)
  \/ CaptureWithContext(g)

\* A goroutine that has no hub comes by one.
ObtainHub(g) ==
  /\ hub[g] = "none"
  /\ \/ GetHub(g)
     \/ \E from \in Goroutines \ {g} :
          ShareHub(g, from) \/ \E way \in Ways : CloneHub(g, from, way)

HubNext ==
  \E g \in Goroutines :
    ObtainHub(g) \/ HubCall(g) \/ Vouch(g) \/ BuildEvent(g) \/ Deliver(g)

HubSpec == HubInit /\ [][HubNext]_hubVars
=============================================================================
