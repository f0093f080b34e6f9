-------------------------------- MODULE SList --------------------------------
(* The singly-linked list of server/src/queue.h, as far as the connection
   manager uses it: the nodes from slh_first on, in the order of sle_next. *)
EXTENDS Sequences

SLIST_INIT == << >>
SLIST_EMPTY(list) == list = << >>
SLIST_FIRST(list) == Head(list)
SLIST_INSERT_HEAD(list, elm) == <<elm>> \o list
SLIST_REMOVE_HEAD(list) == Tail(list)

=============================================================================
