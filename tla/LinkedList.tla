----------------------------- MODULE LinkedList ------------------------------
(***************************************************************************)
(* The doubly linked lists of inc/queue.h, at the level of their pointers.  *)
(* free_frame_list and env_free_list are such lists.                        *)
(*                                                                          *)
(* A place that holds a pointer to an element is HEAD (head->lh_first) or   *)
(* an element e (e->prev_next_info.le_next), so                             *)
(*     next[HEAD] = lh_first     next[e] = e's le_next                      *)
(*     prev[e]    = e's le_prev: the place that points at e                 *)
(* LIST_REMOVE and the insertions find that place through le_prev and never *)
(* look at the head: one stale le_prev corrupts another list silently.      *)
(*                                                                          *)
(* list and stolen are history variables: the sequences a caller believes   *)
(* to be on the list, and on the list that page_check() has put aside by    *)
(* copying the head (fl = free_frame_list; LIST_INIT(&free_frame_list)).    *)
(* The pointers are never read from them; Represents says that they agree.  *)
(***************************************************************************)
EXTENDS Integers, Sequences, FiniteSets, Functions

CONSTANTS Elems, HEAD, NULL

ASSUME ElemsAssumption == HEAD \notin Elems /\ NULL \notin Elems \cup {HEAD}

VARIABLES
    next, prev,
    fl,       \* the saved lh_first
    away,     \* a list is put aside
    list, stolen

vars == <<next, prev, fl, away, list, stolen>>

Places == {HEAD} \cup Elems

On(s) == Range(s)
Unlinked == Elems \ (On(list) \cup On(stolen))

Init ==
    /\ next = [p \in Places |-> NULL]
    /\ prev = [e \in Elems |-> NULL]
    /\ fl = NULL /\ away = FALSE
    /\ list = <<>> /\ stolen = <<>>

\* if (next[e] != NULL) next[e]->le_prev = p
SetPrevOf(pv, e, p) == IF e # NULL THEN [pv EXCEPT ![e] = p] ELSE pv

\* Faulty variant: the old first element still points at the head.
LIST_INSERT_HEAD_StalePrev(e) ==
    /\ next' = [next EXCEPT ![e] = next[HEAD], ![HEAD] = e]
    /\ prev' = [prev EXCEPT ![e] = HEAD]

LIST_INSERT_HEAD(e) ==
    /\ next' = [next EXCEPT ![e] = next[HEAD], ![HEAD] = e]
    /\ prev' = [SetPrevOf(prev, next[HEAD], e) EXCEPT ![e] = HEAD]

LIST_INSERT_AFTER(l, e) ==
    /\ next' = [next EXCEPT ![e] = next[l], ![l] = e]
    /\ prev' = [SetPrevOf(prev, next[l], e) EXCEPT ![e] = l]

LIST_INSERT_BEFORE(l, e) ==
    /\ next' = [next EXCEPT ![e] = l, ![prev[l]] = e]
    /\ prev' = [prev EXCEPT ![e] = prev[l], ![l] = e]

\* The links of e itself are left as they were.
LIST_REMOVE(e) ==
    /\ next' = [next EXCEPT ![prev[e]] = next[e]]
    /\ prev' = SetPrevOf(prev, next[e], prev[e])

InsertHead(e) ==
    /\ e \in Unlinked
    /\ LIST_INSERT_HEAD(e)
    /\ list' = <<e>> \o list
    /\ UNCHANGED <<fl, away, stolen>>

InsertAfter(i, e) ==
    /\ e \in Unlinked
    /\ LIST_INSERT_AFTER(list[i], e)
    /\ list' = SubSeq(list, 1, i) \o <<e>> \o SubSeq(list, i + 1, Len(list))
    /\ UNCHANGED <<fl, away, stolen>>

InsertBefore(i, e) ==
    /\ e \in Unlinked
    /\ LIST_INSERT_BEFORE(list[i], e)
    /\ list' = SubSeq(list, 1, i - 1) \o <<e>> \o SubSeq(list, i, Len(list))
    /\ UNCHANGED <<fl, away, stolen>>

Remove(i) ==
    /\ LIST_REMOVE(list[i])
    /\ list' = SubSeq(list, 1, i - 1) \o SubSeq(list, i + 1, Len(list))
    /\ UNCHANGED <<fl, away, stolen>>

\* Faulty variant: LIST_INIT comes first, and an empty list is saved.
Steal_InitFirst ==
    /\ ~away
    /\ fl' = NULL
    /\ next' = [next EXCEPT ![HEAD] = NULL]
    /\ away' = TRUE
    /\ stolen' = list
    /\ list' = <<>>
    /\ UNCHANGED prev

\* fl = free_frame_list; LIST_INIT(&free_frame_list)
Steal ==
    /\ ~away
    /\ fl' = next[HEAD]
    /\ next' = [next EXCEPT ![HEAD] = NULL]
    /\ away' = TRUE
    /\ stolen' = list
    /\ list' = <<>>
    /\ UNCHANGED prev

\* free_frame_list = fl, when the interim list is empty again.
GiveBack ==
    /\ away
    /\ list = <<>>
    /\ next' = [next EXCEPT ![HEAD] = fl]
    /\ away' = FALSE
    /\ fl' = NULL
    /\ list' = stolen
    /\ stolen' = <<>>
    /\ UNCHANGED prev

Next ==
    \/ \E e \in Elems : InsertHead(e)
    \/ \E i \in DOMAIN list, e \in Elems : InsertAfter(i, e)
    \/ \E i \in DOMAIN list, e \in Elems : InsertBefore(i, e)
    \/ \E i \in DOMAIN list : Remove(i)
    \/ Steal
    \/ GiveBack

Spec == Init /\ [][Next]_vars

-----------------------------------------------------------------------------
\* first points at the first element of s, each element at the next, and each
\* le_prev at the place before; the last le_next is NULL.
Linked(s, first) ==
    /\ first = IF s = <<>> THEN NULL ELSE s[1]
    /\ \A i \in DOMAIN s :
        /\ next[s[i]] = IF i = Len(s) THEN NULL ELSE s[i + 1]
        /\ prev[s[i]] = IF i = 1 THEN HEAD ELSE s[i - 1]

\* The pointers spell out exactly the sequence that the callers believe in,
\* so that LIST_FIRST, LIST_FOREACH and LIST_REMOVE see each element once.
Represents ==
    /\ Linked(list, next[HEAD])
    /\ IsInjective(list)

\* A list put aside stays intact however the interim list is used, although
\* the le_prev of its first element still points at the shared head; after
\* GiveBack it is the live list again.
StolenIntact ==
    /\ Linked(stolen, fl)
    /\ IsInjective(stolen)
    /\ On(list) \cap On(stolen) = {}

=============================================================================
