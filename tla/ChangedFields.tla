------------------------------ MODULE ChangedFields ------------------------------
(******************************************************************************)
(* util/util.go: GetChangedStatusFields compares the Status of two objects of *)
(* one type and reports where they differ.                                    *)
(*                                                                            *)
(* A Go value is a record of its kind and its parts: a struct has them by     *)
(* field name, a slice by index, a map by key, and "leaf" is every other      *)
(* kind, which DeepEqual compares as a whole.  A nil slice or map has no      *)
(* parts, as an empty one has: Len and Index tell them not apart.  The path   *)
(* of a field is the sequence of names, indices and keys that lead to it; how *)
(* it is written as a string is left out.                                     *)
(*                                                                            *)
(* Mutants are not the code: they are what properties are checked against.    *)
(******************************************************************************)
EXTENDS FiniteSets, SequencesExt

CONSTANTS
  Objects,     \* the pairs of an old and a new object of the same type
  Unexported   \* the names of fields that are not exported

VARIABLES objects, result

vars == <<objects, result>>

NotYet == [panics |-> FALSE, fields |-> {}, returned |-> FALSE]

Init ==
  /\ objects \in Objects
  /\ result = NotYet

-----------------------------------------------------------------------------

Leaf(v) == [kind |-> "leaf", val |-> v]
Struct(f) == [kind |-> "struct", parts |-> f]
Slice(s) == [kind |-> "slice", parts |-> s]
Map(f) == [kind |-> "map", parts |-> f]

\* The zero reflect.Value, which MapIndex returns for a key that is not there.
Invalid == [kind |-> "invalid"]

MapIndex(m, k) == IF k \in DOMAIN m.parts THEN m.parts[k] ELSE Invalid

\* What a comparison comes to: the ChangedFields it appends, or a panic.
Report(fields) == [panics |-> FALSE, fields |-> fields]
Panic == [panics |-> TRUE, fields |-> {}]

\* Several comparisons, one after the other.
Join(reports) ==
  IF Panic \in reports THEN Panic ELSE Report(UNION {r.fields : r \in reports})

\* Interface() panics on an invalid Value and on one that was reached through an
\* unexported field.
Interfaced(v, hidden, report) ==
  IF hidden \/ v = Invalid THEN Panic ELSE report

\* Mutant: the values are swapped.
Swapped(path, old, new, hidden) ==
  Interfaced(new, hidden,
             Report({[Field |-> path, OldVal |-> new, NewVal |-> old]}))

\* Append one ChangedField.
Changed(path, old, new, hidden) ==
  Interfaced(new, hidden,
             Report({[Field |-> path, OldVal |-> old, NewVal |-> new]}))

\* compareFields.  hidden says whether the Values were reached through an unexported
\* field.  Slices and maps of different lengths differ as a whole.
RECURSIVE CompareFields(_, _, _, _)
CompareFields(path, old, new, hidden) ==
  LET Part(p, v) == CompareFields(Append(path, p), old.parts[p], v,
                                  hidden \/ (old.kind = "struct" /\ p \in Unexported))
      parts == DOMAIN old.parts
  IN CASE old.kind # new.kind -> Changed(path, old, new, hidden)
       [] old.kind = "leaf" /\ new.kind = "leaf" ->
            Interfaced(new, hidden,
                       IF old # new THEN Changed(path, old, new, hidden) ELSE Report({}))
       [] old.kind = "struct" /\ new.kind = "struct" ->
            Join({Part(f, new.parts[f]) : f \in parts})
       [] OTHER ->
            IF Cardinality(parts) # Cardinality(DOMAIN new.parts)
            THEN Changed(path, old, new, hidden)
            ELSE Join({Part(p, MapIndex(new, p)) : p \in parts})

\* Only the field of the name Status counts.
GetChangedStatusFields ==
  /\ result = NotYet
  /\ LET report == Join({CompareFields(<<>>, objects.old.parts[f],
                                       objects.new.parts[f], FALSE)
                           : f \in {"Status"} \cap DOMAIN objects.old.parts})
     IN result' = [panics |-> report.panics, fields |-> report.fields,
                   returned |-> TRUE]
  /\ UNCHANGED objects

Spec == Init /\ [][GetChangedStatusFields]_vars

-----------------------------------------------------------------------------
(* What a report promises, in terms of paths alone.                           *)

\* Where one gets from v by the names, indices and keys of path.
RECURSIVE At(_, _)
At(v, path) ==
  CASE path = <<>> -> v
    [] path # <<>> /\ v.kind \in {"leaf", "invalid"} -> Invalid
    [] OTHER -> IF Head(path) \in DOMAIN v.parts
                THEN At(v.parts[Head(path)], Tail(path))
                ELSE Invalid

RECURSIVE Paths(_)
Paths(v) ==
  {<<>>} \cup
    IF v.kind = "leaf"
    THEN {}
    ELSE UNION {{<<p>> \o q : q \in Paths(v.parts[p])} : p \in DOMAIN v.parts}

\* A map lost a key and got another, or a struct has a field that is not exported.
Unreadable(old, new) ==
  \E p \in Paths(old) :
    LET v == At(old, p)
        w == At(new, p)
    IN \/ /\ v.kind = "map" /\ w.kind = "map"
          /\ DOMAIN v.parts # DOMAIN w.parts
          /\ Cardinality(DOMAIN v.parts) = Cardinality(DOMAIN w.parts)
       \/ v.kind = "struct" /\ DOMAIN v.parts \cap Unexported # {}

\* "returns a slice of ChangedField structs representing the fields that have been
\* modified": each of them holds the two values of its field, which differ, and what
\* differs between the two objects is among them, or within one, or around one.  It
\* panics only on what it cannot read.
ReportsChanges ==
  LET old == objects.old.parts["Status"]
      new == objects.new.parts["Status"]
  IN result.returned =>
       IF result.panics
       THEN Unreadable(old, new)
       ELSE /\ \A c \in result.fields :
                 /\ c.OldVal = At(old, c.Field) /\ c.NewVal = At(new, c.Field)
                 /\ c.OldVal # c.NewVal
            /\ \A p \in Paths(old) \cup Paths(new) :
                 At(old, p) # At(new, p) =>
                   \E c \in result.fields :
                     IsPrefix(c.Field, p) \/ IsPrefix(p, c.Field)

=============================================================================
