----------------------------- MODULE QueueState -----------------------------
(***************************************************************************)
(* The in-memory queue of one station, streamer/queue_state.rs: a pure     *)
(* data structure that Station.tla and QueueCursor.tla are built on.       *)
(*                                                                         *)
(* A queue is a record                                                     *)
(*   items   the queue rows in playing order (queue item identities; the   *)
(*           same song may sit in several rows, so identities never repeat)*)
(*   cur     the current item, or None; it may be absent from items, when  *)
(*           its row was deleted while it was playing                      *)
(*   used    the consumed identities                                       *)
(* An anchor is the set of identities that will be consumed once the       *)
(* branch it was taken for becomes current.                                *)
(***************************************************************************)
EXTENDS Naturals, Sequences

CONSTANTS
  Items,  \* queue item identities
  None    \* no item

Rows(s) == {s[i] : i \in DOMAIN s}

Queues ==
  [items : Seq(Items), cur : Items \cup {None}, used : SUBSET Items]

(* The first item of s outside skip, or None. *)
FirstOutside(s, skip) ==
  LET fresh == {i \in DOMAIN s : s[i] \notin skip}
  IN  IF fresh = {} THEN None
      ELSE s[CHOOSE i \in fresh : \A j \in fresh : i <= j]

(* Adopts the rows of a reload.  The current item stays current when it is *)
(* still a row, and also, if retain is set, when it is not; otherwise the  *)
(* first row that was not consumed before the reload takes its place.      *)
(* Only then are the identities of vanished rows forgotten.                *)
Replaced(q, rows, retain) ==
  LET kept == IF q.cur \in Rows(rows) \/ retain THEN q.cur ELSE None
  IN  [items |-> rows,
       cur   |-> IF kept # None THEN kept ELSE FirstOutside(rows, q.used),
       used  |-> q.used \cap Rows(rows)]

PeekNext(q) == FirstOutside(q.items, q.used \cup {q.cur})

(* The first item behind item that is neither consumed nor current; the    *)
(* search starts at the head when item is not a row any more.              *)
SuccessorAfter(q, item) ==
  LET at == {i \in DOMAIN q.items : q.items[i] = item}
      start == IF at = {} THEN 1 ELSE 1 + CHOOSE i \in at : \A j \in at : i <= j
  IN  FirstOutside(SubSeq(q.items, start, Len(q.items)), q.used \cup {q.cur})

AnchorBeforeCurrent(q) == q.used  \* mutant: the current item is not consumed

AnchorAfterCurrent(q) == (q.used \cup {q.cur}) \ {None}

Committed(q, item, anchor) == [q EXCEPT !.cur = item, !.used = anchor]

Finished(q) ==
  IF q.cur = None THEN q
  ELSE [q EXCEPT !.cur = None, !.used = @ \cup {q.cur}]
=============================================================================
