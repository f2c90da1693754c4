---------------------------- MODULE LockFreeStack ----------------------------
(***************************************************************************)
(* thread/detail/lock_free_stack.hpp, one step per access to shared        *)
(* memory.  A failed compare_exchange_weak stores the head it saw in the   *)
(* expected value, and may also fail for no reason.  Nodes are intrusive   *)
(* and come back once they have been extracted and consumed, so the head   *)
(* may be the same pointer with another list behind it (ABA).              *)
(***************************************************************************)
EXTENDS Naturals, Sequences, SequencesExt

CONSTANTS Nodes, Threads

Null == CHOOSE p : p \notin Nodes  \* nullptr

VARIABLES
    head,  \* head_
    next,  \* next[n]: n->intrusive_next
    node,  \* node[th]: the argument of push(), or Null
    old,   \* old[th]: old_head of extract(), afterwards the list th walks
    pc,
    stack, \* history: the nodes pushed and not yet extracted, newest first
    taken  \* history: what is left of the list that th has extracted

vars == <<head, next, node, old, pc, stack, taken>>

Init ==
    /\ head = Null
    /\ next = [n \in Nodes |-> Null]
    /\ node = [th \in Threads |-> Null]
    /\ old = [th \in Threads |-> Null]
    /\ pc = [th \in Threads |-> "idle"]
    /\ stack = <<>>
    /\ taken = [th \in Threads |-> <<>>]

\* The caller pushes a node that is in no list.
Free(n) ==
    /\ n \notin ToSet(stack)
    /\ \A th \in Threads : n # node[th] /\ n \notin ToSet(taken[th])

-----------------------------------------------------------------------------

\* push(): new_node->intrusive_next = head.load()
PushLoad(th, n) ==
    /\ pc[th] = "idle"
    /\ Free(n)
    /\ node' = [node EXCEPT ![th] = n]
    /\ next' = [next EXCEPT ![n] = head]
    /\ pc' = [pc EXCEPT ![th] = "push"]
    /\ UNCHANGED <<head, old, stack, taken>>

PushCas(th) ==
    /\ pc[th] = "push"
    /\ head = next[node[th]]
    /\ head' = node[th]
    /\ node' = [node EXCEPT ![th] = Null]
    /\ pc' = [pc EXCEPT ![th] = "idle"]
    /\ stack' = <<node[th]>> \o stack
    /\ UNCHANGED <<next, old, taken>>

\* Without the guard this is also the spurious failure of the weak exchange.
PushCasFails(th) ==
    /\ pc[th] = "push"
    /\ next' = [next EXCEPT ![node[th]] = head]
    /\ UNCHANGED <<head, node, old, pc, stack, taken>>

\* extract(): old_head = head.load(), which returns at once from an empty stack
ExtractLoad(th) ==
    /\ pc[th] = "idle"
    /\ head # Null
    /\ old' = [old EXCEPT ![th] = head]
    /\ pc' = [pc EXCEPT ![th] = "extract"]
    /\ UNCHANGED <<head, next, node, stack, taken>>

ExtractCas(th) ==
    /\ pc[th] = "extract"
    /\ head = old[th]
    /\ head' = Null
    /\ pc' = [pc EXCEPT ![th] = "walk"]
    /\ stack' = <<>>
    /\ taken' = [taken EXCEPT ![th] = stack]
    /\ UNCHANGED <<next, node, old>>

ExtractCasFails(th) ==
    /\ pc[th] = "extract"
    /\ old' = [old EXCEPT ![th] = head]
    /\ pc' = [pc EXCEPT ![th] = IF head = Null THEN "idle" ELSE "extract"]
    /\ UNCHANGED <<head, next, node, stack, taken>>

\* The caller takes the nodes of the extracted list one after another, following
\* the links and not the history.
Walk(th) ==
    /\ pc[th] = "walk"
    /\ old' = [old EXCEPT ![th] = next[@]]
    /\ pc' = [pc EXCEPT ![th] = IF next[old[th]] = Null THEN "idle" ELSE "walk"]
    /\ taken' = [taken EXCEPT ![th] = Tail(@)]
    /\ UNCHANGED <<head, next, node, stack>>

Step(th) ==
    \/ \E n \in Nodes : PushLoad(th, n)
    \/ PushCas(th)
    \/ PushCasFails(th)
    \/ ExtractLoad(th)
    \/ ExtractCas(th)
    \/ ExtractCasFails(th)
    \/ Walk(th)

Next == \E th \in Threads : Step(th)

Spec == Init /\ [][Next]_vars

-----------------------------------------------------------------------------
\* Properties

\* Types; a thread has a node only while it pushes.
TypeOK ==
    /\ head \in Nodes \cup {Null}
    /\ next \in [Nodes -> Nodes \cup {Null}]
    /\ node \in [Threads -> Nodes \cup {Null}]
    /\ old \in [Threads -> Nodes \cup {Null}]
    /\ pc \in [Threads -> {"idle", "push", "extract", "walk"}]
    /\ stack \in Seq(Nodes)
    /\ taken \in [Threads -> Seq(Nodes)]
    /\ \A th \in Threads : pc[th] = "push" <=> node[th] # Null

\* The links nx from p on are exactly the nodes of s.
IsChain(nx, p, s) ==
    /\ p = IF s = <<>> THEN Null ELSE s[1]
    /\ \A i \in 1 .. Len(s) : nx[s[i]] = IF i = Len(s) THEN Null ELSE s[i + 1]

\* Behind head_ and behind what extract() returned (lock_free_stack.hpp:17-33)
\* are the nodes that were pushed, in order, and no others: also when a node
\* was extracted and pushed again between a load and its exchange.
Links ==
    /\ IsChain(next, head, stack)
    /\ \A th \in Threads :
           /\ pc[th] = "walk" <=> taken[th] # <<>>
           /\ pc[th] = "walk" => IsChain(next, old[th], taken[th])
           /\ pc[th] = "extract" => old[th] # Null

Apart(s, t) == \A i \in 1 .. Len(s), j \in 1 .. Len(t) : s[i] # t[j]
Outside(n, s) == \A i \in 1 .. Len(s) : s[i] # n

\* A node is in one place at a time, and only the thread that pushes it writes
\* its link (lock_free_stack.hpp:18, 21): an extracted list belongs to the
\* thread that extracted it.
Exclusive ==
    /\ \A i, j \in 1 .. Len(stack) : stack[i] = stack[j] => i = j
    /\ \A th \in Threads :
           /\ \A i, j \in 1 .. Len(taken[th]) : taken[th][i] = taken[th][j] => i = j
           /\ Apart(stack, taken[th])
           /\ node[th] # Null => Outside(node[th], stack)
           /\ \A u \in Threads :
                  /\ th # u => Apart(taken[th], taken[u])
                  /\ th # u /\ node[th] # Null => node[th] # node[u]
                  /\ node[th] # Null => Outside(node[th], taken[u])

IInv == TypeOK /\ Links /\ Exclusive

\* The loops of push() and extract() implement one atomic push and one atomic
\* take-all: the histories, which Links ties to the memory, behave as StackSpec.
Abstract == INSTANCE StackSpec

Refinement == Abstract!Spec

=============================================================================
