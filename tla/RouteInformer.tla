------------------------------ MODULE RouteInformer ------------------------------
(******************************************************************************)
(* The informer that follows the routes, as both programs make it with        *)
(* cache.NewIndexerInformer: the routes at the API server, the reflector that *)
(* lists and watches them, the DeltaFIFO, and the indexer.  What the handlers *)
(* of route events do is up to the program: Added, Updated and Removed are    *)
(* what the informer does when it calls one.                                  *)
(*                                                                            *)
(* A mutant is not the code: it is what a property is checked against.        *)
(******************************************************************************)
EXTENDS Naturals, SequencesExt

CONSTANTS
  Routes,      \* the names of routes
  Objects,     \* what a route may be, as far as the handlers look at it
  None,
  MaxChanges,  \* bound: changes of routes at the API server
  MaxBreaks    \* bound: how often the watch breaks

VARIABLES
  api,             \* the routes at the API server, or None
  watching,        \* the informer has listed the routes and watches them
  deltas,          \* the DeltaFIFO: what each route's next handler calls will be
  known,           \* the indexer: each known route, or None
  changes, breaks  \* what MaxChanges and MaxBreaks bound

informerVars == <<api, watching, deltas, known, changes, breaks>>

\* A route that is there; one that was seen to go; and one that a list has shown
\* to be gone, a DeletedFinalStateUnknown.
Delta == [type : {"Set"}, object : Objects] \cup [type : {"Deleted", "Tombstone"}]
Set(o) == [type |-> "Set", object |-> o]
Deleted == [type |-> "Deleted"]
Tombstone == [type |-> "Tombstone"]

TypeOK ==
  /\ api \in [Routes -> Objects \cup {None}]
  /\ watching \in BOOLEAN
  /\ deltas \in [Routes -> Seq(Delta)]
  /\ known \in [Routes -> Objects \cup {None}]
  /\ changes \in 0..MaxChanges
  /\ breaks \in 0..MaxBreaks

\* Routes may exist before the program starts.
Init ==
  /\ api \in [Routes -> Objects \cup {None}]
  /\ watching = FALSE
  /\ deltas = [r \in Routes |-> <<>>]
  /\ known = [r \in Routes |-> None]
  /\ changes = 0
  /\ breaks = 0

-----------------------------------------------------------------------------
(* The API server, and the reflector that fills the DeltaFIFO.                *)

\* The FIFO merges two deletions in a row and keeps the better known one.
Push(ds, d) ==
  IF ds # <<>> /\ Last(ds).type # "Set" /\ d.type # "Set"
  THEN IF d.type = "Tombstone" THEN ds ELSE [ds EXCEPT ![Len(ds)] = d]
  ELSE Append(ds, d)

\* A route is created, changed or deleted.  The watch reports it unless it is
\* broken.
ChangeRoute(r, o) ==
  /\ changes < MaxChanges
  /\ changes' = changes + 1
  /\ api[r] # o
  /\ api' = [api EXCEPT ![r] = o]
  /\ \/ /\ watching
        /\ deltas' = [deltas EXCEPT ![r] = Push(@, IF o = None THEN Deleted ELSE Set(o))]
     \/ ~watching /\ UNCHANGED deltas
  /\ UNCHANGED <<watching, known, breaks>>

BreakWatch ==
  /\ watching
  /\ breaks < MaxBreaks
  /\ watching' = FALSE
  /\ breaks' = breaks + 1
  /\ UNCHANGED <<api, deltas, known, changes>>

\* Mutant: a list does not show which routes are gone.
NoTombstones(r) == IF api[r] # None THEN Append(deltas[r], Set(api[r])) ELSE deltas[r]

\* DeltaFIFO.Replace: a list sets every route there is, and leaves a tombstone for
\* every other one known or in the FIFO.
Replace(r) ==
  IF api[r] # None THEN Append(deltas[r], Set(api[r]))
  ELSE IF known[r] # None \/ deltas[r] # <<>> THEN Push(deltas[r], Tombstone)
  ELSE <<>>

\* The first list, and the list after a broken watch.
List ==
  /\ ~watching
  /\ watching' = TRUE
  /\ deltas' = [r \in Routes |-> Replace(r)]
  /\ UNCHANGED <<api, known, changes, breaks>>

ApiServer ==
  \/ \E r \in Routes, o \in Objects \cup {None} : ChangeRoute(r, o)
  \/ BreakWatch

-----------------------------------------------------------------------------
(* processDeltas: the informer brings the indexer up to date and calls OnAdd, *)
(* OnUpdate or OnDelete, one at a time.                                       *)

Pop(r) ==
  /\ deltas' = [deltas EXCEPT ![r] = Tail(@)]
  /\ UNCHANGED <<api, watching, changes, breaks>>

\* A route that the indexer does not know, one that it does, and one that goes.
Added(r, o) ==
  /\ deltas[r] # <<>> /\ Head(deltas[r]) = Set(o)
  /\ known[r] = None
  /\ known' = [known EXCEPT ![r] = o]
  /\ Pop(r)

Updated(r, o) ==
  /\ deltas[r] # <<>> /\ Head(deltas[r]) = Set(o)
  /\ known[r] # None
  /\ known' = [known EXCEPT ![r] = o]
  /\ Pop(r)

Removed(r, final) ==
  /\ deltas[r] # <<>> /\ Head(deltas[r]) = final
  /\ known' = [known EXCEPT ![r] = None]
  /\ Pop(r)

\* The first list was handed to the handlers.  (Whatever the watch has reported
\* since may just as well arrive later.)
HasSynced == watching /\ \A r \in Routes : deltas[r] = <<>>

-----------------------------------------------------------------------------

Next ==
  \/ ApiServer
  \/ List
  \/ \E r \in Routes :
       \/ \E o \in Objects : Added(r, o) \/ Updated(r, o)
       \/ Removed(r, Deleted) \/ Removed(r, Tombstone)

\* The bounds may be used up by others too.
Spec == Init /\ [][Next]_<<api, watching, deltas, known>>

=============================================================================
