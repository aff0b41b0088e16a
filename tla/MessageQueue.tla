---------------------------- MODULE MessageQueue ----------------------------
(***************************************************************************)
(* The queue of a relay connection (Queue of the bundle): a list of nodes, *)
(* linked to the next one.  A heap holds all nodes that were ever made; a  *)
(* node is its place in the heap, Null is no node.                         *)
(***************************************************************************)
EXTENDS Integers, Sequences

Null == 0
EmptyQueue == [heap |-> << >>, first |-> Null, last |-> Null]

QueueNode(value) == [value |-> value, next |-> Null, prev |-> Null]

Enqueue(q, value) ==
  LET new == Len(q.heap) + 1
      heap == Append(q.heap, QueueNode(value))
  IN  IF q.last = Null
      THEN [heap |-> heap, first |-> new, last |-> new]
      ELSE [heap |-> [heap EXCEPT ![new].prev = q.last, ![q.last].next = new],
            first |-> q.first, last |-> new]

(* What is taken, Null from an empty queue, and the queue without it.      *)
Dequeue(q) ==
  IF q.first = Null THEN [value |-> Null, queue |-> q]
  ELSE [value |-> q.heap[q.first].value,
        queue |-> IF q.first = q.last THEN [q EXCEPT !.first = Null, !.last = Null]
                  ELSE [q EXCEPT !.first = q.heap[q.first].next]]

-----------------------------------------------------------------------------
(* Messages leave in the order they came in, none twice and none lost,     *)
(* whatever the turns of adding and taking, and taking from an empty queue *)
(* does no harm (bundle:2436-2480).  An operation adds its number, or      *)
(* takes.                                                                  *)
QueueIsFifo(operations) ==
  LET step[n \in 0..Len(operations)] ==
        IF n = 0 THEN [queue |-> EmptyQueue, taken |-> << >>, model |-> << >>, left |-> << >>]
        ELSE LET s == step[n - 1] IN
             IF operations[n] = "add"
             THEN [s EXCEPT !.queue = Enqueue(@, n), !.model = Append(@, n)]
             ELSE LET d == Dequeue(s.queue) IN
                  [queue |-> d.queue, taken |-> Append(s.taken, d.value),
                   model |-> IF s.model = << >> THEN << >> ELSE Tail(s.model),
                   left |-> Append(s.left, IF s.model = << >> THEN Null ELSE Head(s.model))]
      end == step[Len(operations)]
  IN  end.taken = end.left
=============================================================================
