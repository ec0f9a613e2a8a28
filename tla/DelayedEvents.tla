---------------------------- MODULE DelayedEvents ---------------------------
(***************************************************************************)
(* What a leg whose SDP bodies are rewritten by somebody else promises to  *)
(* the call controller.  Events are created in order; each waits until it  *)
(* is done; when it is done it is passed on, unless a newer event was      *)
(* passed on before.  The end of the leg overtakes everything.             *)
(***************************************************************************)
EXTENDS Naturals

VARIABLES
    created,    \* how many events have been created
    done,       \* those that do not wait any more
    last,       \* no event up to this one is passed on any more
    ended       \* the leg has ended

vars == <<created, done, last, ended>>

Init == created = 0 /\ done = {} /\ last = 0 /\ ended = FALSE

Create ==
    /\ created' = created + 1
    /\ \/ UNCHANGED <<done, last>>
       \/ /\ ~ended
          /\ done' = done \cup {created + 1}
          /\ last' \in {last, created + 1}
    /\ UNCHANGED ended

\* An event is done: passed on if nothing newer was, or dropped.
Done(e) ==
    /\ e \in (1..created) \ done
    /\ done' = done \cup {e}
    /\ \/ UNCHANGED <<last, ended>>
       \/ last < e /\ ~ended /\ last' = e /\ UNCHANGED ended
       \/ last' = created /\ ended' = TRUE
    /\ UNCHANGED created

\* An event that waits for nothing, maybe the end.
Overtake ==
    /\ ~ended
    /\ last' = created
    /\ ended' \in BOOLEAN
    /\ UNCHANGED <<created, done>>

Next == Create \/ (\E e \in 1..created : Done(e)) \/ Overtake

Spec == Init /\ [][Next]_vars
=============================================================================
