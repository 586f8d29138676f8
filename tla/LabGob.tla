------------------------------- MODULE LabGob --------------------------------
(***************************************************************************)
(* The encoder of the Raft lab, labgob/labgob.go, which warns before it    *)
(* hands over to encoding/gob.  Goroutines encode and decode at the same   *)
(* time; what they share, the types already checked and the number of      *)
(* warnings, is behind the lock mu.                                        *)
(*                                                                         *)
(* gob is external and modelled by what it does: it sends no zero field    *)
(* and no lower-case field of a struct, and what was not sent stays as it  *)
(* is in the variable that is decoded into.                                *)
(***************************************************************************)
EXTENDS Integers, Sequences, FiniteSets

CONSTANT Work   \* bound: what the goroutines may do, functions from each to <<type, value,
                \* into>>, to encode a value of a type and to decode it into a variable that
                \* holds `into'
VARIABLES
  jobs,                 \* the one of Work
  checked, errorCount,  \* of the package
  todo,                 \* the types each goroutine has still to check, innermost first
  at                    \* "encode", "decode", "done"
vars == <<jobs, checked, errorCount, todo, at>>

Type(j)  == j[1]
Value(j) == j[2]
Into(j)  == j[3]

(* Types: a scalar, a struct with its fields, a slice or a map to an        *)
(* element type (the keys are scalars).                                     *)
Scalar    == [kind |-> "scalar"]
Struct(f) == [kind |-> "struct", fields |-> f]
Slice(t)  == [kind |-> "slice", elem |-> t]
Map(t)    == [kind |-> "map", elem |-> t]
Field(upper, t) == [upper |-> upper, type |-> t]

RECURSIVE Zero(_), Merge(_, _, _), NonDefault(_, _, _)
Zero(t) ==
  CASE t.kind = "scalar" -> 0
    [] t.kind = "struct" -> [i \in DOMAIN t.fields |-> Zero(t.fields[i].type)]
    [] OTHER -> << >>

(* gob: the field `old' of type t after `sent' was decoded into it.  The    *)
(* elements of a slice are always sent, but the structs among them are      *)
(* decoded into the elements that are there; a map keeps its other keys.    *)
Merge(t, old, sent) ==
  CASE t.kind = "scalar" -> IF sent = 0 THEN old ELSE sent
    [] t.kind = "struct" ->
         [i \in DOMAIN t.fields |-> IF t.fields[i].upper THEN Merge(t.fields[i].type, old[i], sent[i]) ELSE old[i]]
    [] t.kind = "slice" ->
         IF sent = << >> THEN old
         ELSE [i \in DOMAIN sent |->
                 IF t.elem = Scalar THEN sent[i]
                 ELSE Merge(t.elem, IF Len(sent) <= Len(old) THEN old[i] ELSE Zero(t.elem), sent[i])]
    [] t.kind = "map" ->
         [k \in DOMAIN old \cup DOMAIN sent |-> IF k \in DOMAIN sent THEN Merge(t.elem, Zero(t.elem), sent[k]) ELSE old[k]]

(* A value that is no struct is sent even when it is zero.                  *)
Decoded(j) ==
  CASE Type(j).kind = "scalar" -> Value(j)
    [] Type(j).kind = "slice" /\ Value(j) = << >> -> << >>
    [] OTHER -> Merge(Type(j), Into(j), Value(j))

-----------------------------------------------------------------------------
Init ==
  /\ jobs \in Work /\ checked = {} /\ errorCount = 0
  /\ todo = [g \in DOMAIN jobs |-> <<Type(jobs[g])>>] /\ at = [g \in DOMAIN jobs |-> "encode"]

(* What checkType calls itself for. *)
Parts(t) ==
  CASE t.kind = "struct" -> [i \in DOMAIN t.fields |-> t.fields[i].type]
    [] t.kind \in {"slice", "map"} -> <<t.elem>>
    [] OTHER -> << >>
LowerCase(t) == IF t.kind # "struct" THEN 0 ELSE Cardinality({i \in DOMAIN t.fields : ~t.fields[i].upper})

(* A type is entered as checked before it has been complained about; the    *)
(* goroutine that entered it goes on with [complain].                       *)
Complain(t) == [kind |-> "complain", of |-> t]

checkType(g) ==
  /\ todo[g] # << >> /\ Head(todo[g]).kind # "complain"
  /\ LET t == Head(todo[g])
     IN  /\ checked' = checked \cup {t}
         /\ todo' = [todo EXCEPT ![g] = (IF t \in checked THEN << >> ELSE <<Complain(t)>>) \o Tail(@)]
  /\ UNCHANGED <<jobs, errorCount, at>>

Warn(g) ==
  /\ todo[g] # << >> /\ Head(todo[g]).kind = "complain"
  /\ LET t == Head(todo[g]).of
     IN  /\ errorCount' = errorCount + LowerCase(t)
         /\ todo' = [todo EXCEPT ![g] = Parts(t) \o Tail(@)]
  /\ UNCHANGED <<jobs, checked, at>>

(* Encode: checkValue, and gob sends.  Decode checks the type again. *)
Encode(g) ==
  /\ at[g] = "encode" /\ todo[g] = << >>
  /\ at' = [at EXCEPT ![g] = "decode"] /\ todo' = [todo EXCEPT ![g] = <<Type(jobs[g])>>]
  /\ UNCHANGED <<jobs, checked, errorCount>>

(* Mutant of TooDeep: one level less is looked at. *)
TooDeepBy1(depth) == depth > 2

TooDeep(depth) == depth > 3

(* checkDefault1: how many scalars it complains about; slices and maps are  *)
(* not looked into.  The pointer that Decode gets is the first level.       *)
Sum(s) == LET f[i \in 0 .. Len(s)] == IF i = 0 THEN 0 ELSE f[i - 1] + s[i] IN f[Len(s)]
NonDefault(t, v, depth) ==
  IF TooDeep(depth) THEN 0
  ELSE CASE t.kind = "struct" -> Sum([i \in DOMAIN t.fields |-> NonDefault(t.fields[i].type, v[i], depth + 1)])
         [] t.kind = "scalar" -> IF v = 0 THEN 0 ELSE 1
         [] OTHER -> 0

checkDefault(t, v) == errorCount' = errorCount + NonDefault(t, v, 2)

Decode(g) ==
  /\ at[g] = "decode" /\ todo[g] = << >>
  /\ checkDefault(Type(jobs[g]), Into(jobs[g]))
  /\ at' = [at EXCEPT ![g] = "done"]
  /\ UNCHANGED <<jobs, checked, todo>>

Next == \E g \in DOMAIN jobs : checkType(g) \/ Warn(g) \/ Encode(g) \/ Decode(g)

-----------------------------------------------------------------------------
(* labgob.go: when every goroutine is done and nothing was complained       *)
(* about, every variable holds what was sent: but for fields below the      *)
(* third level, and slices and maps, that were not empty when they were     *)
(* decoded into.  While one is not done, it may owe the warning about a     *)
(* type that another has taken for checked.                                 *)
Unseen(j) ==
  \/ Type(j).kind \in {"slice", "map"} /\ Into(j) # << >>
  \/ /\ Type(j).kind = "struct"
     /\ \E i \in DOMAIN Type(j).fields :
          LET t == Type(j).fields[i].type IN t.kind # "scalar" /\ Into(j)[i] # Zero(t)

SilentIsRight ==
  (\A g \in DOMAIN jobs : at[g] = "done") /\ errorCount = 0 =>
    \A g \in DOMAIN jobs :
      Unseen(jobs[g]) \/ Decoded(jobs[g]) = Value(jobs[g])
=============================================================================
