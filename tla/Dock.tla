-------------------------------- MODULE Dock --------------------------------
(***************************************************************************)
(* The wait queue of ircd::ctx::dock, the condition variable under every   *)
(* synchronisation object of the context library.  A dock is the sequence  *)
(* q of the contexts asleep in it.  A context stays in q until its own     *)
(* slice takes it out; a notification only leaves a note with it, and      *)
(* notes coalesce: ctx::note() does nothing for a context that has one.    *)
(* The notes are kept by the users of this module, in a set of contexts.   *)
(***************************************************************************)
EXTENDS Naturals, Sequences

Waiting(q) == {q[i] : i \in 1..Len(q)}

\* The contexts which dock::notify_one() leaves a note with: the front one.
NotifyOne(q) == IF q = <<>> THEN {} ELSE {Head(q)}

\* dock::notify() is notify_one(), and the front moves to the back.
Rotate(q) == IF q = <<>> THEN q ELSE Append(Tail(q), Head(q))

\* list::remove(): q without its member c.
Remove(q, c) ==
    LET i == CHOOSE k \in 1..Len(q) : q[k] = c
    IN  [k \in 1..(Len(q) - 1) |-> IF k < i THEN q[k] ELSE q[k + 1]]
=============================================================================
