---------------------------- MODULE EntityHistory ----------------------------
(***************************************************************************)
(* What the section "Versioning of entities" of README.md promises, with   *)
(* no tables in sight: an entity is the stack of the values it has had.    *)
(* An event puts a value on top of the stack of one entity; undoing the    *)
(* most recent event that is not yet undone takes exactly that value off   *)
(* again, and an entity whose stack is empty does not exist.               *)
(***************************************************************************)
EXTENDS Sequences, Integers

CONSTANTS Entity, Value

VARIABLES
  hist,       \* hist[e]: the values of e, oldest first
  touched     \* the entities of the surviving events, oldest first

vars == <<hist, touched>>

TypeOK ==
  /\ hist \in [Entity -> Seq(Value)]
  /\ touched \in Seq(Entity)

Init ==
  /\ hist = [e \in Entity |-> <<>>]
  /\ touched = <<>>

\* Any value may be put on top; it is named by where it ends up, so that
\* a set of values need not be enumerable.
Push(e) ==
  /\ Len(hist'[e]) = Len(hist[e]) + 1
  /\ LET v == hist'[e][Len(hist[e]) + 1] IN
       /\ v \in Value
       /\ hist' = [hist EXCEPT ![e] = Append(@, v)]
  /\ touched' = Append(touched, e)

Pop ==
  /\ touched # <<>>
  /\ LET e == touched[Len(touched)] IN
       /\ hist[e] # <<>>
       /\ hist' = [hist EXCEPT ![e] = SubSeq(@, 1, Len(@) - 1)]
  /\ touched' = SubSeq(touched, 1, Len(touched) - 1)

Next ==
  \/ \E e \in Entity : Push(e)
  \/ Pop

Spec == Init /\ [][Next]_vars

=============================================================================
