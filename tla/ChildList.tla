------------------------------- MODULE ChildList -------------------------------
(***************************************************************************)
(* src/src/unix/childlist.c: the list of the children that processx has    *)
(* started and not seen exiting, and the list of nodes that the SIGCHLD    *)
(* handler unlinked and that wait for somebody who may call free().        *)
(*                                                                         *)
(* A handle has at most one node, so a node is named after its handle.     *)
(***************************************************************************)
EXTENDS UnixKernel, Sequences, SequencesExt

VARIABLES
    child_list,        \* head first
    child_free_list,   \* head first
    nfree              \* history: how often free() was called on each node

listVars == <<child_list, child_free_list, nfree>>

ListTypeOK ==
    /\ child_list \in Seq(Handle)
    /\ child_free_list \in Seq(Handle)
    /\ nfree \in [Handle -> Nat]

ListInit ==
    /\ child_list = <<>>
    /\ child_free_list = <<>>
    /\ nfree = [h \in Handle |-> 0]

Listed(h)     == \E i \in 1..Len(child_list) : child_list[i] = h
FreeListed(h) == \E i \in 1..Len(child_free_list) : child_free_list[i] = h

\* processx__child_add: link a new node in front of the list.
child_add(h) ==
    /\ child_list' = <<h>> \o child_list
    /\ UNCHANGED <<child_free_list, nfree>>

\* What the SIGCHLD handler does with the node at position i: unlink it and
\* put it in front of the free list (processx__freelist_add).
unlink(i) ==
    /\ child_free_list' = <<child_list[i]>> \o child_free_list
    /\ child_list' = RemoveAt(child_list, i)
    /\ nfree' = nfree

\* Mutant: the free list is not reset.
Bug_freelist_free ==
    /\ nfree' = [h \in Handle |-> IF FreeListed(h) THEN nfree[h] + 1 ELSE nfree[h]]
    /\ UNCHANGED <<child_free_list, child_list>>

\* processx__freelist_free: free() every node on the free list.
freelist_free ==
    /\ nfree' = [h \in Handle |-> IF FreeListed(h) THEN nfree[h] + 1 ELSE nfree[h]]
    /\ child_free_list' = <<>>
    /\ child_list' = child_list

\* ptr->next of node h.  Both lists are threaded through the same field, so a
\* node that was moved to the free list leads into the free list.
NoNode == "no node"
ASSUME NoNodeAssumption == NoNode \notin Handle
After(s, h) == LET i == CHOOSE k \in 1..Len(s) : s[k] = h
               IN  IF i = Len(s) THEN NoNode ELSE s[i + 1]
next(h) == IF Listed(h) THEN After(child_list, h) ELSE After(child_free_list, h)
First(s) == IF s = <<>> THEN NoNode ELSE s[1]

=============================================================================
