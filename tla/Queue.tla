------------------------------- MODULE Queue -------------------------------
(***************************************************************************)
(* What timeq promises: a priority queue with independent consumers, each  *)
(* operation of which takes effect at once.                                *)
(*                                                                         *)
(* content is what each consumer has still to get.  A Read is the one      *)
(* operation that the application sees in the making, through its          *)
(* callback; view is what the Read in progress has still to come to.       *)
(***************************************************************************)
EXTENDS Integers

CONSTANTS Forks,   \* the names forks may have
          Main     \* the consumer that is the queue itself

VARIABLES op,       \* the call in progress: name, consumer and range
          forks,    \* the forks there are
          content,  \* what each consumer has still to get
          view      \* what the running Read may still serve

qvars == <<op, forks, content, view>>

Live == forks \cup {Main}

NoOp == [name |-> "idle", who |-> Main, lo |-> 0, hi |-> 0]

Init ==
    /\ op = NoOp /\ forks = {} /\ view = {}
    /\ content = [c \in Forks \cup {Main} |-> {}]

\* New items reach every consumer.  A running Read may still come to some.
Add(items) ==
    /\ \A c \in Live : items \cap content[c] = {}
    /\ content' = [c \in DOMAIN content |->
                      IF c \in Live THEN content[c] \cup items ELSE content[c]]
    /\ UNCHANGED forks

Push(items) == op = NoOp /\ op' = [NoOp EXCEPT !.name = "push"] /\ Add(items) /\ UNCHANGED view

TxPush(items) ==
    /\ op.name = "read" /\ UNCHANGED op /\ Add(items)
    /\ view' \in {view \cup some : some \in SUBSET items}

Read(c) ==
    /\ op = NoOp /\ op' = [NoOp EXCEPT !.name = "read", !.who = c]
    /\ view' = content[c] /\ UNCHANGED <<forks, content>>

\* The items that come first by priority.
First(items) ==
    /\ items \subseteq view
    /\ \A x \in items, y \in view \ items : x.key <= y.key

\* The callback consumes the items it got; the Read goes on or is over.
Take(items) ==
    /\ op.name = "read" /\ First(items)
    /\ content' = [content EXCEPT ![op.who] = @ \ items]
    /\ view' \in {view \ items, {}}
    /\ UNCHANGED <<op, forks>>

\* The callback looks at items and leaves them.  A Read that peeks passes over
\* other items on its way.
Look(items) ==
    /\ op.name = "read" /\ First(items)
    /\ view' \in SUBSET (view \ items)
    /\ UNCHANGED <<op, forks, content>>

Delete(c) ==
    /\ op = NoOp /\ op'.name = "delete" /\ op'.who = c
    /\ content' = [content EXCEPT ![c] = {x \in @ : x.key < op'.lo \/ x.key > op'.hi}]
    /\ UNCHANGED <<forks, view>>

Clear ==
    /\ op = NoOp /\ op' = [NoOp EXCEPT !.name = "clear"]
    /\ content' = [c \in DOMAIN content |-> {}]
    /\ UNCHANGED <<forks, view>>

\* The call returns.
End == op # NoOp /\ op' = NoOp /\ view' = {} /\ UNCHANGED <<forks, content>>

Fork(src, dst) ==
    /\ op = NoOp /\ dst \notin forks
    /\ forks' = forks \cup {dst}
    /\ content' = [content EXCEPT ![dst] = content[src]]
    /\ UNCHANGED <<op, view>>

RemoveFork(f) ==
    /\ op = NoOp
    /\ forks' = forks \ {f}
    /\ content' = [content EXCEPT ![f] = {}]
    /\ UNCHANGED <<op, view>>

Next ==
    \/ \E items \in SUBSET content'[Main] : Push(items) \/ TxPush(items)
    \/ \E c \in Live : Read(c) \/ Delete(c)
    \/ \E items \in SUBSET view : Take(items) \/ Look(items)
    \/ Clear \/ End
    \/ \E src \in Live, dst \in Forks : Fork(src, dst)
    \/ \E f \in forks : RemoveFork(f)

Spec == Init /\ [][Next]_qvars
=============================================================================
