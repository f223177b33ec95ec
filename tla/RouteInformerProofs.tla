--------------------------- MODULE RouteInformerProofs ---------------------------
(******************************************************************************)
(* Theorems about RouteInformer, for any routes and bounds: what the programs *)
(* that use it may rely on.  They instantiate this module as they do          *)
(* RouteInformer.                                                             *)
(******************************************************************************)
EXTENDS RouteInformer, SequenceTheorems, TLAPS

\* What the handlers of a route are still to be given: no two deletions in a row, and
\* none first unless the route is known.
DeltaSeq(ds, isKnown) ==
  /\ ds \in Seq(Delta)
  /\ \A n \in 1..(Len(ds) - 1) : ds[n].type = "Set" \/ ds[n + 1].type = "Set"
  /\ ds # <<>> /\ ~isKnown => ds[1].type = "Set"

\* The deltas of a route that is known as v end in what it is at the API server, o.
Tells(ds, v, o) ==
  IF ds = <<>> THEN v = o
  ELSE IF o = None THEN ds[Len(ds)].type # "Set" ELSE ds[Len(ds)] = Set(o)

IInv ==
  /\ api \in [Routes -> Objects \cup {None}]
  /\ watching \in BOOLEAN
  /\ deltas \in [Routes -> Seq(Delta)]
  /\ known \in [Routes -> Objects \cup {None}]
  /\ \A r \in Routes : DeltaSeq(deltas[r], known[r] # None)
  /\ watching => \A r \in Routes : Tells(deltas[r], known[r], api[r])

-----------------------------------------------------------------------------
(* The DeltaFIFO.                                                             *)

LEMMA DeltaTypes ==
  /\ Deleted \in Delta /\ Deleted.type # "Set"
  /\ Tombstone \in Delta /\ Tombstone.type # "Set"
  /\ \A o \in Objects : Set(o) \in Delta /\ Set(o).type = "Set" /\ Set(o).object = o
BY DEF Deleted, Tombstone, Set, Delta

\* A deletion is merged with one before it, and comes last.
LEMMA PushDeletion ==
  ASSUME NEW ds, NEW isKnown \in BOOLEAN, DeltaSeq(ds, isKnown), ds = <<>> => isKnown,
         NEW d \in {Deleted, Tombstone}
  PROVE  /\ DeltaSeq(Push(ds, d), isKnown)
         /\ Push(ds, d) # <<>>
         /\ Push(ds, d)[Len(Push(ds, d))].type # "Set"
<1>1. d \in Delta /\ d.type # "Set"
  BY DeltaTypes
<1> DEFINE D == Delta
<1>2. /\ ds \in Seq(D)
      /\ \A n \in 1..(Len(ds) - 1) : ds[n].type = "Set" \/ ds[n + 1].type = "Set"
      /\ ds # <<>> /\ ~isKnown => ds[1].type = "Set"
  BY DEF DeltaSeq
<1>3. Push(ds, d) \in {ds, [ds EXCEPT ![Len(ds)] = d], Append(ds, d)}
  BY DEF Push
<1> HIDE DEF D
<1>4. CASE ds # <<>> /\ ds[Len(ds)].type # "Set" /\ Push(ds, d) = ds
  BY <1>2, <1>4 DEF DeltaSeq, D
<1>5. CASE ds # <<>> /\ ds[Len(ds)].type # "Set" /\ Push(ds, d) = [ds EXCEPT ![Len(ds)] = d]
  <2> DEFINE new == [ds EXCEPT ![Len(ds)] = d]
  <2>1. /\ Len(ds) \in Nat /\ Len(ds) > 0
        /\ DOMAIN ds = 1..Len(ds) /\ d \in D
        /\ \A n \in 1..Len(ds) : ds[n] \in D
    BY <1>1, <1>2, <1>5 DEF D
  <2>2. new \in [1..Len(ds) -> D]
    BY <2>1
  <2>3. new \in Seq(D) /\ Len(new) = Len(ds)
    BY <2>1, <2>2
  <2>4. \A n \in 1..Len(ds) : new[n] = IF n = Len(ds) THEN d ELSE ds[n]
    BY <2>1
  <2> HIDE DEF new
  <2>5. \A n \in 1..(Len(ds) - 1) : new[n].type = "Set" \/ new[n + 1].type = "Set"
    <3> SUFFICES ASSUME NEW n \in 1..(Len(ds) - 1)
                 PROVE  new[n].type = "Set" \/ new[n + 1].type = "Set"
      OBVIOUS
    <3> Len(ds) \in Nat
      BY <2>1
    <3>1. n \in 1..Len(ds) /\ n + 1 \in 1..Len(ds) /\ n # Len(ds)
      OBVIOUS
    <3>2. new[n] = ds[n] /\ (n + 1 # Len(ds) => new[n + 1] = ds[n + 1])
      BY <2>4, <3>1
    <3>3. CASE n + 1 = Len(ds)
      BY <1>2, <1>5, <3>2, <3>3
    <3>4. CASE n + 1 # Len(ds)
      BY <1>2, <3>2, <3>4
    <3> QED
      BY <3>3, <3>4
  <2>6. ~isKnown => new[1].type = "Set"
    <3> SUFFICES ASSUME ~isKnown
                 PROVE  new[1].type = "Set"
      OBVIOUS
    <3>1. ds[1].type = "Set" /\ 1 # Len(ds)
      BY <1>2, <1>5
    <3>2. 1 \in 1..Len(ds)
      BY <2>1
    <3> QED
      BY <2>4, <3>1, <3>2
  <2>7. DeltaSeq(new, isKnown)
    BY <2>3, <2>5, <2>6 DEF DeltaSeq, D
  <2>8. new # <<>> /\ new[Len(new)].type # "Set"
    <3>1. Len(ds) \in 1..Len(ds) /\ Len(<<>>) = 0
      BY <2>1
    <3>2. new[Len(new)] = d
      BY <2>3, <2>4, <3>1
    <3> QED
      BY <1>1, <2>1, <2>3, <3>1, <3>2
  <2> QED
    BY <1>5, <2>7, <2>8 DEF new
<1>6. CASE (ds = <<>> \/ ds[Len(ds)].type = "Set") /\ Push(ds, d) = Append(ds, d)
  <2>1. Append(ds, d) \in Seq(D) /\ Len(Append(ds, d)) = Len(ds) + 1
    BY <1>1, <1>2 DEF D
  <2>2. Append(ds, d) # <<>> /\ Append(ds, d)[Len(Append(ds, d))].type # "Set"
    BY <1>1, <1>2, <2>1 DEF D
  <2>3. DeltaSeq(Append(ds, d), isKnown)
    BY <1>1, <1>2, <1>6, <2>1 DEF DeltaSeq, D
  <2> QED
    BY <1>6, <2>2, <2>3
<1> QED
  BY <1>1, <1>3, <1>4, <1>5, <1>6 DEF Push, Last

\* An object that is there comes last.
LEMMA AppendSet ==
  ASSUME NEW ds, NEW isKnown \in BOOLEAN, DeltaSeq(ds, isKnown), NEW o \in Objects
  PROVE  /\ DeltaSeq(Append(ds, Set(o)), isKnown)
         /\ Append(ds, Set(o)) # <<>>
         /\ Append(ds, Set(o))[Len(Append(ds, Set(o)))] = Set(o)
<1> DEFINE D == Delta
           d == Set(o)
<1>1. d \in D /\ d.type = "Set"
  BY DeltaTypes
<1>2. /\ ds \in Seq(D)
      /\ \A n \in 1..(Len(ds) - 1) : ds[n].type = "Set" \/ ds[n + 1].type = "Set"
      /\ ds # <<>> /\ ~isKnown => ds[1].type = "Set"
  BY DEF DeltaSeq
<1> HIDE DEF D, d
<1>3. Append(ds, d) \in Seq(D) /\ Len(Append(ds, d)) = Len(ds) + 1
  BY <1>1, <1>2
<1>4. /\ \A n \in 1..Len(ds) : Append(ds, d)[n] = ds[n]
      /\ Append(ds, d)[Len(ds) + 1] = d
  BY <1>1, <1>2
<1>5. \A n \in 1..Len(ds) :
        Append(ds, d)[n].type = "Set" \/ Append(ds, d)[n + 1].type = "Set"
  <2> SUFFICES ASSUME NEW n \in 1..Len(ds)
               PROVE  Append(ds, d)[n].type = "Set" \/ Append(ds, d)[n + 1].type = "Set"
    OBVIOUS
  <2>1. CASE n = Len(ds)
    BY <1>1, <1>4, <2>1
  <2>2. CASE n \in 1..(Len(ds) - 1)
    BY <1>2, <1>4, <2>2
  <2> QED
    BY <1>2, <2>1, <2>2
<1>6. ~isKnown => Append(ds, d)[1].type = "Set"
  BY <1>1, <1>2, <1>4
<1>7. Append(ds, d) # <<>> /\ Append(ds, d)[Len(Append(ds, d))] = d
  BY <1>1, <1>2, <1>3, <1>4
<1>8. DeltaSeq(Append(ds, d), isKnown)
  BY <1>3, <1>5, <1>6 DEF DeltaSeq, D
<1> QED
  BY <1>7, <1>8 DEF d

(* Arithmetic on its own: a sequence that is not empty has one element or
   more.                                                                   *)
LEMMA OneOrMore == \A n \in Nat : n > 0 => n = 1 \/ n > 1
OBVIOUS

\* The first delta is handled.
LEMMA PopDelta ==
  ASSUME NEW ds, NEW isKnown \in BOOLEAN, DeltaSeq(ds, isKnown), ds # <<>>
  PROVE  /\ Head(ds) = ds[1]
         /\ DeltaSeq(Tail(ds), Head(ds).type = "Set")
         /\ \/ Tail(ds) = <<>> /\ ds[Len(ds)] = Head(ds)
            \/ Tail(ds) # <<>> /\ Tail(ds)[Len(Tail(ds))] = ds[Len(ds)]
<1> DEFINE D == Delta
<1>1. /\ ds \in Seq(D)
      /\ \A n \in 1..(Len(ds) - 1) : ds[n].type = "Set" \/ ds[n + 1].type = "Set"
  BY DEF DeltaSeq
<1> HIDE DEF D
<1>2. /\ Tail(ds) \in Seq(D) /\ Len(Tail(ds)) = Len(ds) - 1
      /\ \A n \in 1..Len(Tail(ds)) : Tail(ds)[n] = ds[n + 1]
      /\ Head(ds) = ds[1]
      /\ Len(ds) \in Nat /\ Len(ds) > 0
  BY <1>1
<1>3. \A n \in 1..(Len(Tail(ds)) - 1) :
        Tail(ds)[n].type = "Set" \/ Tail(ds)[n + 1].type = "Set"
  BY <1>1, <1>2
<1>4. Tail(ds) # <<>> /\ Head(ds).type # "Set" => Tail(ds)[1].type = "Set"
  BY <1>1, <1>2
<1>5. DeltaSeq(Tail(ds), Head(ds).type = "Set")
  BY <1>2, <1>3, <1>4 DEF DeltaSeq, D
<1>6. Tail(ds) = <<>> <=> Len(Tail(ds)) = 0
  BY <1>2, EmptySeq
<1>7. CASE Len(ds) = 1
  BY <1>2, <1>5, <1>6, <1>7
<1>8. CASE Len(ds) > 1
  <2>1. Tail(ds) # <<>>
    BY <1>2, <1>6, <1>8
  <2>2. Tail(ds)[Len(Tail(ds))] = ds[Len(ds)]
    BY <1>2, <1>8
  <2> QED
    BY <1>2, <1>5, <2>1, <2>2
<1>9. Len(ds) = 1 \/ Len(ds) > 1
  BY <1>2, OneOrMore, ZenonT(30)
<1> QED
  BY <1>7, <1>8, <1>9

-----------------------------------------------------------------------------

LEMMA IInvInit == Init => IInv
<1> SUFFICES ASSUME Init PROVE IInv
  OBVIOUS
<1>1. DeltaSeq(<<>>, FALSE)
  BY EmptySeq DEF DeltaSeq
<1>2. <<>> \in Seq(Delta)
  BY <1>1 DEF DeltaSeq
<1> QED
  BY <1>1, <1>2 DEF Init, IInv

LEMMA ChangeKeeps ==
  ASSUME None \notin Objects, IInv, NEW r \in Routes, NEW o \in Objects \cup {None},
         ChangeRoute(r, o)
  PROVE  IInv'
<1> DEFINE ds == deltas[r]
<1>1. /\ deltas \in [Routes -> Seq(Delta)]
      /\ DeltaSeq(ds, known[r] # None)
  BY DEF IInv
<1>2. /\ api' = [api EXCEPT ![r] = o] /\ api[r] # o /\ UNCHANGED <<known, watching>>
      /\ api' \in [Routes -> Objects \cup {None}]
  BY DEF ChangeRoute, IInv
<1>3. CASE ~watching
  <2>1. deltas' = deltas
    BY <1>3 DEF ChangeRoute
  <2> QED
    BY <1>2, <1>3, <2>1 DEF IInv
<1>4. CASE watching
  <2> DEFINE d == IF o = None THEN Deleted ELSE Set(o)
  <2>1. deltas' = [deltas EXCEPT ![r] = Push(ds, d)]
    BY <1>1, <1>4 DEF ChangeRoute
  <2>2. DeltaSeq(Push(ds, d), known[r] # None) /\ Tells(Push(ds, d), known[r], o)
    <3>1. CASE o = None
      <4>1. ds = <<>> => known[r] # None
        BY <1>2, <1>4, <3>1 DEF IInv, Tells
      <4>2. /\ DeltaSeq(Push(ds, Deleted), known[r] # None)
            /\ Push(ds, Deleted) # <<>>
            /\ Push(ds, Deleted)[Len(Push(ds, Deleted))].type # "Set"
        BY <1>1, <4>1, PushDeletion
      <4> QED
        BY <3>1, <4>2 DEF Tells
    <3>2. CASE o # None
      <4>1. Push(ds, Set(o)) = Append(ds, Set(o))
        BY DEF Push, Set
      <4> HIDE DEF ds
      <4>2. /\ DeltaSeq(Append(ds, Set(o)), known[r] # None)
            /\ Append(ds, Set(o)) # <<>>
            /\ Append(ds, Set(o))[Len(Append(ds, Set(o)))] = Set(o)
        BY <1>1, <3>2, AppendSet
      <4> QED
        BY <3>2, <4>1, <4>2 DEF Tells
    <3> QED
      BY <3>1, <3>2
  <2> HIDE DEF ds, d
  <2>3. /\ deltas'[r] = Push(ds, d) /\ deltas'[r] \in Seq(Delta)
        /\ deltas' \in [Routes -> Seq(Delta)]
    BY <1>1, <2>1, <2>2 DEF DeltaSeq
  <2>4. DeltaSeq(deltas'[r], known'[r] # None) /\ Tells(deltas'[r], known'[r], api'[r])
    BY <1>2, <2>2, <2>3 DEF IInv
  <2>5. ASSUME NEW q \in Routes \ {r}
        PROVE  /\ DeltaSeq(deltas'[q], known'[q] # None)
               /\ Tells(deltas'[q], known'[q], api'[q])
    <3>1. deltas'[q] = deltas[q] /\ api'[q] = api[q] /\ known'[q] = known[q]
      BY <1>1, <1>2, <2>1 DEF IInv
    <3> QED
      BY <1>4, <3>1 DEF IInv
  <2> QED
    BY <1>2, <2>3, <2>4, <2>5 DEF IInv
<1> QED
  BY <1>3, <1>4 DEF IInv

LEMMA BreakKeeps ==
  ASSUME IInv, BreakWatch
  PROVE  IInv'
BY DEF IInv, BreakWatch

LEMMA ListKeeps ==
  ASSUME None \notin Objects, IInv, List
  PROVE  IInv'
<1>1. /\ watching' = TRUE /\ UNCHANGED <<api, known>>
      /\ deltas' = [r \in Routes |-> Replace(r)]
  BY DEF List
<1>2. ASSUME NEW r \in Routes
      PROVE  DeltaSeq(Replace(r), known[r] # None) /\ Tells(Replace(r), known[r], api[r])
  <2> DEFINE ds == deltas[r]
  <2>0. DeltaSeq(ds, known[r] # None)
    BY DEF IInv
  <2>1. CASE api[r] # None
    <3>1. api[r] \in Objects
      BY <2>1 DEF IInv
    <3> HIDE DEF ds
    <3>2. /\ DeltaSeq(Append(ds, Set(api[r])), known[r] # None)
          /\ Append(ds, Set(api[r])) # <<>>
          /\ Append(ds, Set(api[r]))[Len(Append(ds, Set(api[r])))] = Set(api[r])
      BY <2>0, <3>1, AppendSet
    <3>3. Replace(r) = Append(ds, Set(api[r]))
      BY <2>1 DEF Replace, ds
    <3> QED
      BY <2>1, <3>2, <3>3 DEF Tells
  <2>2. CASE api[r] = None /\ (known[r] # None \/ ds # <<>>)
    <3>1. Replace(r) = Push(ds, Tombstone)
      BY <2>2 DEF Replace
    <3> HIDE DEF ds
    <3>2. /\ DeltaSeq(Push(ds, Tombstone), known[r] # None)
          /\ Push(ds, Tombstone) # <<>>
          /\ Push(ds, Tombstone)[Len(Push(ds, Tombstone))].type # "Set"
      BY <2>0, <2>2, PushDeletion
    <3> QED
      BY <2>2, <3>1, <3>2 DEF Tells
  <2>3. CASE api[r] = None /\ known[r] = None /\ ds = <<>>
    <3>1. Replace(r) = <<>>
      BY <2>3 DEF Replace
    <3> QED
      BY <2>0, <2>3, <3>1 DEF Tells
  <2> QED
    BY <2>1, <2>2, <2>3
<1>3. \A r \in Routes : deltas'[r] = Replace(r) /\ Replace(r) \in Seq(Delta)
  BY <1>1, <1>2 DEF DeltaSeq
<1>4. deltas' \in [Routes -> Seq(Delta)]
  BY <1>1, <1>3
<1> QED
  BY <1>1, <1>2, <1>3, <1>4 DEF IInv

\* A handler is called, and the route is known as what the delta says.
LEMMA PopKeeps ==
  ASSUME None \notin Objects, IInv, NEW r \in Routes, NEW v \in Objects \cup {None},
         deltas[r] # <<>>, Pop(r), known' = [known EXCEPT ![r] = v],
         IF v = None THEN Head(deltas[r]).type # "Set" ELSE Head(deltas[r]) = Set(v)
  PROVE  IInv'
<1> DEFINE ds == deltas[r]
<1>1. /\ deltas \in [Routes -> Seq(Delta)]
      /\ DeltaSeq(ds, known[r] # None)
      /\ watching => Tells(ds, known[r], api[r])
  BY DEF IInv
<1>2. /\ deltas' = [deltas EXCEPT ![r] = Tail(ds)]
      /\ UNCHANGED <<api, watching>>
      /\ known' \in [Routes -> Objects \cup {None}] /\ known'[r] = v
  BY <1>1 DEF Pop, IInv
<1>3. Head(ds).type = "Set" <=> v # None
  BY DeltaTypes
<1> HIDE DEF ds
<1>4. ds # <<>>
  BY DEF ds
<1>5. /\ DeltaSeq(Tail(ds), v # None)
      /\ \/ Tail(ds) = <<>> /\ ds[Len(ds)] = Head(ds)
         \/ Tail(ds) # <<>> /\ Tail(ds)[Len(Tail(ds))] = ds[Len(ds)]
  BY <1>1, <1>3, <1>4, PopDelta
<1>6. watching => Tells(Tail(ds), v, api[r])
  <2> SUFFICES ASSUME watching PROVE Tells(Tail(ds), v, api[r])
    OBVIOUS
  <2>1. IF api[r] = None THEN ds[Len(ds)].type # "Set" ELSE ds[Len(ds)] = Set(api[r])
    BY <1>1, <1>4 DEF Tells
  <2>2. CASE Tail(ds) # <<>>
    BY <1>5, <2>1, <2>2 DEF Tells
  <2>3. CASE Tail(ds) = <<>>
    <3>1. ds[Len(ds)] = Head(ds)
      BY <1>5, <2>3
    <3>2. v = api[r]
      <4>1. api[r] \in Objects \cup {None}
        BY DEF IInv
      <4> QED
        BY <1>3, <2>1, <3>1, <4>1, DeltaTypes DEF ds
    <3> QED
      BY <2>3, <3>2 DEF Tells
  <2> QED
    BY <2>2, <2>3
<1>7. deltas'[r] = Tail(ds) /\ deltas' \in [Routes -> Seq(Delta)]
  BY <1>1, <1>2, <1>5 DEF DeltaSeq
<1>8. ASSUME NEW q \in Routes \ {r}
      PROVE  deltas'[q] = deltas[q] /\ known'[q] = known[q]
  BY <1>1, <1>2 DEF IInv
<1>9. \A q \in Routes : DeltaSeq(deltas'[q], known'[q] # None)
  BY <1>2, <1>5, <1>7, <1>8 DEF IInv
<1>10. watching => \A q \in Routes : Tells(deltas'[q], known'[q], api[q])
  BY <1>2, <1>6, <1>7, <1>8 DEF IInv
<1> QED
  BY <1>2, <1>7, <1>9, <1>10 DEF IInv

LEMMA IInvStep ==
  ASSUME None \notin Objects
  PROVE  IInv /\ [Next]_<<api, watching, deltas, known>> => IInv'
<1> SUFFICES ASSUME IInv, [Next]_<<api, watching, deltas, known>> PROVE IInv'
  OBVIOUS
<1>1. CASE UNCHANGED <<api, watching, deltas, known>>
  BY <1>1 DEF IInv
<1>2. CASE ApiServer
  BY <1>2, ChangeKeeps, BreakKeeps DEF ApiServer
<1>3. CASE List
  BY <1>3, ListKeeps
<1>4. ASSUME NEW r \in Routes, NEW o \in Objects, Added(r, o) \/ Updated(r, o)
      PROVE  IInv'
  BY <1>4, PopKeeps DEF Added, Updated
<1>5. ASSUME NEW r \in Routes, Removed(r, Deleted) \/ Removed(r, Tombstone)
      PROVE  IInv'
  <2>1. /\ deltas[r] # <<>> /\ Head(deltas[r]).type # "Set"
        /\ known' = [known EXCEPT ![r] = None] /\ Pop(r)
    BY <1>5, DeltaTypes DEF Removed
  <2> QED
    BY <2>1, PopKeeps
<1> QED
  BY <1>1, <1>2, <1>3, <1>4, <1>5 DEF Next

LEMMA Invariance == ASSUME None \notin Objects PROVE Spec => []IInv
BY IInvInit, IInvStep, PTL DEF Spec

-----------------------------------------------------------------------------

\* When the informer watches and its handlers have been given everything, it knows
\* the routes as they are at the API server, whatever a broken watch has missed.
KnownIsApi == HasSynced => known = api

THEOREM InformerKnowsApi == ASSUME None \notin Objects PROVE Spec => []KnownIsApi
<1>1. IInv => KnownIsApi
  BY DEF IInv, KnownIsApi, HasSynced, Tells
<1> QED
  BY <1>1, Invariance, PTL

\* OnDelete is called only for a route that the informer knows.
DeletedIsKnown ==
  \A r \in Routes : deltas[r] # <<>> /\ Head(deltas[r]).type # "Set" => known[r] # None

LEMMA HeadOfKnown == IInv => DeletedIsKnown
<1>1. ASSUME IInv, NEW r \in Routes, deltas[r] # <<>>, Head(deltas[r]).type # "Set"
      PROVE  known[r] # None
  <2>1. DeltaSeq(deltas[r], known[r] # None)
    BY <1>1 DEF IInv
  <2>2. Head(deltas[r]) = deltas[r][1]
    BY <1>1, <2>1, PopDelta
  <2> QED
    BY <1>1, <2>1, <2>2 DEF DeltaSeq
<1> QED
  BY <1>1 DEF DeletedIsKnown

\* So the old object that a handler is given is never missing, although deltas are
\* merged and a broken watch is made good by tombstones.
THEOREM DeletionsAreOfKnown ==
  ASSUME None \notin Objects PROVE Spec => []DeletedIsKnown
BY HeadOfKnown, Invariance, PTL

-----------------------------------------------------------------------------
(* A watch that never breaks.                                                 *)

\* Only a list that comes after a broken watch finds routes gone that are known.
NoTombstone ==
  /\ ~watching => \A r \in Routes : known[r] = None /\ deltas[r] = <<>>
  /\ \A r \in Routes : \A n \in 1..Len(deltas[r]) : deltas[r][n] # Tombstone

LEMMA PushNoTombstone ==
  ASSUME NEW ds \in Seq(Delta), NEW d \in Delta, d # Tombstone,
         \A n \in 1..Len(ds) : ds[n] # Tombstone
  PROVE  \A n \in 1..Len(Push(ds, d)) : Push(ds, d)[n] # Tombstone
<1> DEFINE D == Delta
<1>1. ds \in Seq(D) /\ d \in D
  OBVIOUS
<1>2. Push(ds, d) \in {ds, [ds EXCEPT ![Len(ds)] = d], Append(ds, d)}
      /\ (ds = <<>> => Push(ds, d) = Append(ds, d))
  BY DEF Push
<1> HIDE DEF D
<1>3. CASE Push(ds, d) = Append(ds, d)
  BY <1>1, <1>3
<1>4. CASE ds # <<>> /\ Push(ds, d) = [ds EXCEPT ![Len(ds)] = d]
  <2> DEFINE new == [ds EXCEPT ![Len(ds)] = d]
  <2>1. DOMAIN ds = 1..Len(ds) /\ Len(ds) \in Nat /\ Len(ds) > 0
    BY <1>1, <1>4
  <2>2. new \in [1..Len(ds) -> D]
    BY <1>1, <2>1
  <2>3. \A n \in 1..Len(ds) : new[n] \in {d, ds[n]}
    BY <2>1
  <2> HIDE DEF new
  <2>4. new \in Seq(D) /\ Len(new) = Len(ds)
    BY <2>1, <2>2
  <2>5. \A n \in 1..Len(new) : new[n] # Tombstone
    BY <2>3, <2>4
  <2> QED
    BY <1>4, <2>5 DEF new
<1> QED
  BY <1>2, <1>3, <1>4

LEMMA NoTombstoneInit == Init => NoTombstone
BY EmptySeq DEF Init, NoTombstone

LEMMA NoTombstoneStep ==
  ASSUME None \notin Objects, IInv, NoTombstone, watching => watching',
         [Next]_<<api, watching, deltas, known>>
  PROVE  NoTombstone'
<1>1. CASE UNCHANGED <<api, watching, deltas, known>>
  BY <1>1 DEF NoTombstone
<1>2. ~BreakWatch
  BY DEF BreakWatch
<1>3. ASSUME NEW r \in Routes, NEW o \in Objects \cup {None}, ChangeRoute(r, o)
      PROVE  NoTombstone'
  <2>1. CASE watching
    <3> DEFINE d == IF o = None THEN Deleted ELSE Set(o)
    <3>1. d \in Delta /\ d # Tombstone
      <4>1. Deleted # Tombstone /\ \A p \in Objects : Set(p) # Tombstone
        BY DEF Deleted, Set, Tombstone
      <4> QED
        BY <4>1, DeltaTypes
    <3>2. deltas' = [deltas EXCEPT ![r] = Push(deltas[r], d)] /\ watching'
      BY <1>3, <2>1 DEF ChangeRoute
    <3> HIDE DEF d
    <3>3. \A n \in 1..Len(Push(deltas[r], d)) : Push(deltas[r], d)[n] # Tombstone
      BY <3>1, PushNoTombstone DEF IInv, NoTombstone
    <3> QED
      BY <3>2, <3>3 DEF IInv, NoTombstone
  <2>2. CASE ~watching
    BY <1>3, <2>2 DEF ChangeRoute, NoTombstone
  <2> QED
    BY <2>1, <2>2
<1>4. CASE List
  <2>1. watching' /\ deltas' = [r \in Routes |-> Replace(r)]
    BY <1>4 DEF List
  <2>2. ASSUME NEW r \in Routes, NEW n \in 1..Len(Replace(r))
        PROVE  Replace(r)[n] # Tombstone
    <3>1. known[r] = None /\ deltas[r] = <<>>
      BY <1>4 DEF List, NoTombstone
    <3>2. Replace(r) = IF api[r] # None THEN Append(<<>>, Set(api[r])) ELSE <<>>
      BY <3>1 DEF Replace
    <3>3. CASE api[r] = None
      <4>1. Len(Replace(r)) = 0
        BY <3>2, <3>3
      <4> QED
        BY <4>1
    <3>4. CASE api[r] # None
      <4>1. Replace(r)[n] = Set(api[r])
        BY <3>2, <3>4
      <4> QED
        BY <4>1 DEF Set, Tombstone
    <3> QED
      BY <3>3, <3>4
  <2> QED
    BY <2>1, <2>2 DEF NoTombstone
<1>5. ASSUME NEW r \in Routes, deltas[r] # <<>>, Pop(r)
      PROVE  NoTombstone'
  <2> DEFINE D == Delta
             ds == deltas[r]
  <2>1. ds \in Seq(D) /\ ds # <<>> /\ watching /\ watching'
    BY <1>5 DEF IInv, NoTombstone, Pop
  <2>2. deltas' = [deltas EXCEPT ![r] = Tail(ds)] /\ deltas'[r] = Tail(ds)
    BY <1>5 DEF IInv, Pop
  <2>3. \A n \in 1..Len(ds) : ds[n] # Tombstone
    BY DEF NoTombstone
  <2> HIDE DEF D, ds
  <2>4. \A n \in 1..Len(Tail(ds)) : n + 1 \in 1..Len(ds) /\ Tail(ds)[n] = ds[n + 1]
    BY <2>1
  <2>5. \A n \in 1..Len(Tail(ds)) : Tail(ds)[n] # Tombstone
    BY <2>3, <2>4
  <2>6. \A q \in Routes \ {r} : deltas'[q] = deltas[q]
    BY <2>2 DEF IInv
  <2> QED
    BY <2>1, <2>2, <2>5, <2>6 DEF NoTombstone
<1> QED
  BY <1>1, <1>2, <1>3, <1>4, <1>5 DEF Next, ApiServer, Added, Updated, Removed

\* While the watch never breaks no handler is given a tombstone.
HeadIsNoTombstone ==
  \A r \in Routes : deltas[r] # <<>> => Head(deltas[r]) # Tombstone

LEMMA NoTombstoneFirst == IInv /\ NoTombstone => HeadIsNoTombstone
<1> SUFFICES ASSUME IInv, NoTombstone, NEW r \in Routes, deltas[r] # <<>>
             PROVE  Head(deltas[r]) # Tombstone
  BY DEF HeadIsNoTombstone
<1>1. DeltaSeq(deltas[r], known[r] # None)
  BY DEF IInv
<1>2. Head(deltas[r]) = deltas[r][1] /\ 1 \in 1..Len(deltas[r])
  <2> DEFINE D == Delta
  <2>1. deltas[r] \in Seq(D)
    BY DEF IInv
  <2> HIDE DEF D
  <2> QED
    BY <2>1
<1> QED
  BY <1>2 DEF NoTombstone

THEOREM UnbrokenGivesNoTombstone ==
  ASSUME None \notin Objects
  PROVE  Spec /\ [][watching => watching']_<<api, watching, deltas, known>>
           => []HeadIsNoTombstone
<1>1. IInv /\ NoTombstone /\ [Next]_<<api, watching, deltas, known>>
        /\ [watching => watching']_<<api, watching, deltas, known>> => NoTombstone'
  BY NoTombstoneStep
<1> QED
  BY <1>1, NoTombstoneInit, NoTombstoneFirst, Invariance, PTL DEF Spec

=============================================================================
