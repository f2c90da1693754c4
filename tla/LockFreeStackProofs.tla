------------------------- MODULE LockFreeStackProofs -------------------------
(***************************************************************************)
(* The lock-free stack, for any nodes and threads: its links are always    *)
(* the lists the history describes, a node is in one list at a time, and   *)
(* the histories behave as an atomic stack.                                *)
(***************************************************************************)
EXTENDS LockFreeStack, TLAPS

\* nullptr is no node.
LEMMA NullIsNoNode == Null \notin Nodes
  BY NoSetContainsEverything DEF Null

\* What Apart, Outside and membership of a list say of each other.
LEMMA NotInList ==
    ASSUME NEW s \in Seq(Nodes), NEW n
    PROVE  n \notin ToSet(s) <=> Outside(n, s)
  BY DEF ToSet, Outside

\* A list stays linked when only the link of a node outside it changes.
LEMMA ChainKept ==
    ASSUME NEW nx \in [Nodes -> Nodes \cup {Null}], NEW s \in Seq(Nodes), NEW p,
           NEW n \in Nodes, NEW q, IsChain(nx, p, s), Outside(n, s)
    PROVE  IsChain([nx EXCEPT ![n] = q], p, s)
  BY DEF IsChain, Outside

\* A new stack is empty.
LEMMA InitIInv == Init => IInv
  BY NullIsNoNode DEF Init, IInv, TypeOK, Links, Exclusive, IsChain, Apart, Outside

\* The first step of push(): the node is in no list, so its link may change.
LEMMA PushLoadIInv ==
    ASSUME IInv, NEW th \in Threads, NEW n \in Nodes, PushLoad(th, n)
    PROVE  IInv'
<1> USE DEF IInv
<1>1. n # Null
  BY NullIsNoNode
<1>2. Outside(n, stack) /\ \A u \in Threads : Outside(n, taken[u]) /\ n # node[u]
  BY NotInList DEF PushLoad, Free, TypeOK
<1>3. TypeOK'
  BY <1>1 DEF PushLoad, TypeOK
<1>4. Links'
  <2>1. IsChain(next', head', stack')
    BY <1>2, ChainKept DEF PushLoad, TypeOK, Links
  <2>2. ASSUME NEW u \in Threads
        PROVE  /\ pc'[u] = "walk" <=> taken'[u] # <<>>
               /\ pc'[u] = "walk" => IsChain(next', old'[u], taken'[u])
               /\ pc'[u] = "extract" => old'[u] # Null
    <3>1. pc[u] = "walk" => IsChain(next', old'[u], taken'[u])
      BY <1>2, ChainKept DEF PushLoad, TypeOK, Links
    <3> QED
      BY <3>1 DEF PushLoad, TypeOK, Links
  <2> QED
    BY <2>1, <2>2 DEF Links
<1>5. Exclusive'
  <2>1. stack' = stack /\ taken' = taken
    BY DEF PushLoad
  <2>2. \A u \in Threads : node'[u] = IF u = th THEN n ELSE node[u]
    BY DEF PushLoad, TypeOK
  <2> QED
    BY <1>1, <1>2, <2>1, <2>2 DEF Exclusive
<1> QED
  BY <1>3, <1>4, <1>5

\* A failed exchange rewrites the link of a node that is still in no list.
LEMMA PushCasFailsIInv ==
    ASSUME IInv, NEW th \in Threads, PushCasFails(th)
    PROVE  IInv'
<1> USE DEF IInv
<1>1. node[th] \in Nodes /\ node[th] # Null
  BY DEF PushCasFails, TypeOK
<1>2. Outside(node[th], stack) /\ \A u \in Threads : Outside(node[th], taken[u])
  BY <1>1 DEF Exclusive
<1>3. TypeOK'
  BY <1>1 DEF PushCasFails, TypeOK
<1>4. Links'
  <2>1. IsChain(next', head', stack')
    BY <1>1, <1>2, ChainKept DEF PushCasFails, TypeOK, Links
  <2>2. ASSUME NEW u \in Threads
        PROVE  pc'[u] = "walk" => IsChain(next', old'[u], taken'[u])
    BY <1>1, <1>2, ChainKept DEF PushCasFails, TypeOK, Links
  <2> QED
    BY <2>1, <2>2 DEF PushCasFails, Links
<1>5. Exclusive'
  BY DEF PushCasFails, Exclusive, Apart, Outside
<1> QED
  BY <1>3, <1>4, <1>5

\* The exchange of push() puts the node in front of the list its link names:
\* equality of the head is enough, whatever happened since it was loaded.
LEMMA PushCasIInv ==
    ASSUME IInv, NEW th \in Threads, PushCas(th)
    PROVE  IInv'
<1> USE DEF IInv
<1>1. node[th] \in Nodes /\ node[th] # Null
  BY DEF PushCas, TypeOK
<1>2. /\ stack \in Seq(Nodes)
      /\ stack' \in Seq(Nodes)
      /\ Len(stack') = Len(stack) + 1
      /\ stack'[1] = node[th]
      /\ \A i \in 1 .. Len(stack) : stack'[i + 1] = stack[i]
      /\ \A i \in 2 .. Len(stack') : i - 1 \in 1 .. Len(stack) /\ stack'[i] = stack[i - 1]
  BY <1>1 DEF PushCas, TypeOK
<1>3. TypeOK'
  BY <1>1, <1>2 DEF PushCas, TypeOK
<1>4. Links'
  <2>1. IsChain(next', head', stack')
    <3>1. stack' # <<>>
      BY <1>2
    <3>2. ASSUME NEW i \in 1 .. Len(stack')
          PROVE  next'[stack'[i]] = IF i = Len(stack') THEN Null ELSE stack'[i + 1]
      <4>1. CASE i = 1
        <5>1. next'[stack'[1]] = head
          BY <1>2 DEF PushCas
        <5>2. CASE stack = <<>>
          BY <4>1, <5>1, <5>2, <1>2 DEF Links, IsChain
        <5>3. CASE stack # <<>>
          BY <4>1, <5>1, <5>3, <1>2 DEF Links, IsChain
        <5> QED
          BY <5>2, <5>3
      <4>2. CASE i # 1
        <5>1. i \in 2 .. Len(stack') /\ i - 1 \in 1 .. Len(stack)
          BY <4>2, <1>2
        <5>2. next[stack[i - 1]] = IF i - 1 = Len(stack) THEN Null ELSE stack[(i - 1) + 1]
          BY <5>1 DEF Links, IsChain
        <5>3. CASE i = Len(stack')
          BY <5>1, <5>2, <5>3, <1>2 DEF PushCas
        <5>4. CASE i # Len(stack')
          BY <5>1, <5>2, <5>4, <1>2 DEF PushCas
        <5> QED
          BY <5>3, <5>4
      <4> QED
        BY <4>1, <4>2
    <3> QED
      BY <3>1, <3>2, <1>2 DEF IsChain, PushCas
  <2>2. ASSUME NEW u \in Threads
        PROVE  /\ pc'[u] = "walk" <=> taken'[u] # <<>>
               /\ pc'[u] = "walk" => IsChain(next', old'[u], taken'[u])
               /\ pc'[u] = "extract" => old'[u] # Null
    BY DEF PushCas, TypeOK, Links, IsChain
  <2> QED
    BY <2>1, <2>2 DEF Links
<1>5. Exclusive'
  <2>1. \A i, j \in 1 .. Len(stack') : stack'[i] = stack'[j] => i = j
    <3> SUFFICES ASSUME NEW i \in 1 .. Len(stack'), NEW j \in 1 .. Len(stack'),
                        stack'[i] = stack'[j]
                 PROVE  i = j
      OBVIOUS
    <3>1. i = 1 \/ i \in 2 .. Len(stack')
      BY <1>2
    <3>2. j = 1 \/ j \in 2 .. Len(stack')
      BY <1>2
    <3>3. \A k \in 1 .. Len(stack) : stack[k] # node[th]
      BY <1>1 DEF Exclusive, Outside
    <3>4. CASE i \in 2 .. Len(stack') /\ j \in 2 .. Len(stack')
      BY <3>4, <1>2 DEF Exclusive
    <3> QED
      BY <3>1, <3>2, <3>3, <3>4, <1>2
  <2>2. ASSUME NEW u \in Threads
        PROVE  /\ Apart(stack', taken'[u])
               /\ node'[u] # Null => Outside(node'[u], stack')
    <3>1. ASSUME NEW i \in 1 .. Len(stack'), NEW j \in 1 .. Len(taken[u])
          PROVE  stack'[i] # taken[u][j]
      <4>1. i = 1 \/ i \in 2 .. Len(stack')
        BY <1>2
      <4>2. node[th] # taken[u][j]
        BY <1>1 DEF Exclusive, Outside
      <4>3. \A k \in 1 .. Len(stack) : stack[k] # taken[u][j]
        BY DEF Exclusive, Apart
      <4> QED
        BY <4>1, <4>2, <4>3, <1>2
    <3>2. ASSUME NEW i \in 1 .. Len(stack'), node'[u] # Null
          PROVE  stack'[i] # node'[u]
      <4>1. i = 1 \/ i \in 2 .. Len(stack')
        BY <1>2
      <4>2. u # th /\ node'[u] = node[u]
        BY <3>2 DEF PushCas, TypeOK
      <4> QED
        BY <4>1, <4>2, <3>2, <1>1, <1>2 DEF Exclusive, Outside
    <3> QED
      BY <3>1, <3>2 DEF PushCas, Apart, Outside
  <2>3. ASSUME NEW u \in Threads, NEW v \in Threads
        PROVE  /\ u # v /\ node'[u] # Null => node'[u] # node'[v]
               /\ node'[u] # Null => Outside(node'[u], taken'[v])
    BY <1>1 DEF PushCas, TypeOK, Exclusive
  <2> QED
    BY <2>1, <2>2, <2>3 DEF Exclusive, PushCas
<1> QED
  BY <1>3, <1>4, <1>5

\* Loading the head, and failing to exchange it, changes no list.
LEMMA ExtractTriesIInv ==
    ASSUME IInv, NEW th \in Threads, ExtractLoad(th) \/ ExtractCasFails(th)
    PROVE  IInv'
<1> USE DEF IInv
<1>1. UNCHANGED <<head, next, node, stack, taken>>
  BY DEF ExtractLoad, ExtractCasFails
<1>2. /\ old' = [old EXCEPT ![th] = head]
      /\ pc' = [pc EXCEPT ![th] = IF head = Null THEN "idle" ELSE "extract"]
      /\ pc[th] \in {"idle", "extract"}
  BY DEF ExtractLoad, ExtractCasFails
<1>3. TypeOK'
  BY <1>1, <1>2 DEF TypeOK
<1>4. Links'
  BY <1>1, <1>2 DEF TypeOK, Links, IsChain
<1>5. Exclusive'
  BY <1>1 DEF Exclusive, Apart, Outside
<1> QED
  BY <1>3, <1>4, <1>5

\* The exchange of extract() moves the whole list to the caller.
LEMMA ExtractCasIInv ==
    ASSUME IInv, NEW th \in Threads, ExtractCas(th)
    PROVE  IInv'
<1> USE DEF IInv
<1>1. taken[th] = <<>> /\ stack # <<>>
  BY DEF ExtractCas, Links, IsChain
<1>2. TypeOK'
  BY DEF ExtractCas, TypeOK
<1>3. Links'
  <2>1. IsChain(next', head', stack')
    BY DEF ExtractCas, IsChain
  <2>2. ASSUME NEW u \in Threads
        PROVE  /\ pc'[u] = "walk" <=> taken'[u] # <<>>
               /\ pc'[u] = "walk" => IsChain(next', old'[u], taken'[u])
               /\ pc'[u] = "extract" => old'[u] # Null
    <3>1. CASE u = th
      BY <3>1, <1>1 DEF ExtractCas, TypeOK, Links, IsChain
    <3>2. CASE u # th
      BY <3>2 DEF ExtractCas, TypeOK, Links, IsChain
    <3> QED
      BY <3>1, <3>2
  <2> QED
    BY <2>1, <2>2 DEF Links
<1>4. Exclusive'
  <2>1. /\ stack' = <<>>
        /\ node' = node
        /\ \A u \in Threads : taken'[u] = IF u = th THEN stack ELSE taken[u]
    BY DEF ExtractCas, TypeOK
  <2> QED
    BY <2>1 DEF Exclusive, Apart, Outside
<1> QED
  BY <1>2, <1>3, <1>4

\* The owner of an extracted list follows its links to the next node.
LEMMA WalkIInv ==
    ASSUME IInv, NEW th \in Threads, Walk(th)
    PROVE  IInv'
<1> USE DEF IInv
<1> DEFINE s == taken[th]
<1>1. s \in Seq(Nodes) /\ s # <<>>
  BY DEF Walk, TypeOK, Links
<1>2. IsChain(next, old[th], s)
  BY DEF Walk, Links
<1>3. taken'[th] = Tail(s) /\ \A u \in Threads : u # th => taken'[u] = taken[u]
  BY DEF Walk, TypeOK
<1> HIDE DEF s
<1>4. /\ Tail(s) \in Seq(Nodes)
      /\ Len(s) \in Nat /\ Len(s) >= 1
      /\ Len(Tail(s)) = Len(s) - 1
      /\ \A i \in 1 .. Len(Tail(s)) : i + 1 \in 1 .. Len(s) /\ Tail(s)[i] = s[i + 1]
      /\ Tail(s) = <<>> <=> Len(s) = 1
  <2>1. Len(s) \in Nat /\ Len(s) >= 1
    BY <1>1
  <2>2. Tail(s) \in Seq(Nodes) /\ Len(Tail(s)) = Len(s) - 1
    BY <1>1
  <2>3. \A i \in 1 .. Len(Tail(s)) : i + 1 \in 1 .. Len(s) /\ Tail(s)[i] = s[i + 1]
    BY <1>1, <2>2
  <2>4. Tail(s) = <<>> <=> Len(Tail(s)) = 0
    BY <2>2
  <2> QED
    BY <2>1, <2>2, <2>3, <2>4
<1>5. old[th] = s[1] /\ old[th] \in Nodes
  <2>1. 1 \in 1 .. Len(s)
    BY <1>4
  <2> QED
    BY <2>1, <1>1, <1>2 DEF IsChain
<1>6. TypeOK'
  BY <1>3, <1>4, <1>5 DEF Walk, TypeOK
<1>7. Links'
  <2>1. IsChain(next', head', stack')
    BY DEF Walk, Links
  <2>2. ASSUME NEW u \in Threads, u # th
        PROVE  /\ pc'[u] = "walk" <=> taken'[u] # <<>>
               /\ pc'[u] = "walk" => IsChain(next', old'[u], taken'[u])
               /\ pc'[u] = "extract" => old'[u] # Null
    BY <2>2 DEF Walk, TypeOK, Links
  <2>3. next[old[th]] = IF Len(s) = 1 THEN Null ELSE s[1 + 1]
    <3>1. 1 \in 1 .. Len(s)
      BY <1>4
    <3> QED
      BY <3>1, <1>2, <1>5 DEF IsChain
  <2>4. CASE Len(s) = 1
    <3>1. pc'[th] = "idle" /\ taken'[th] = <<>>
      BY <2>3, <2>4, <1>3, <1>4 DEF Walk, TypeOK
    <3> QED
      BY <3>1, <2>1, <2>2 DEF Links
  <2>5. CASE Len(s) # 1
    <3>1. 2 \in 1 .. Len(s) /\ s[2] \in Nodes
      BY <2>5, <1>1, <1>4
    <3>2. 1 \in 1 .. Len(Tail(s)) /\ Tail(s)[1] = s[2]
      BY <2>5, <1>4
    <3>3. pc'[th] = "walk" /\ taken'[th] # <<>> /\ old'[th] = Tail(s)[1]
      BY <2>3, <2>5, <3>1, <3>2, <1>3, <1>4, NullIsNoNode DEF Walk, TypeOK
    <3>4. ASSUME NEW i \in 1 .. Len(Tail(s))
          PROVE  next[Tail(s)[i]] = IF i = Len(Tail(s)) THEN Null ELSE Tail(s)[i + 1]
      <4>1. next[s[i + 1]] = IF i + 1 = Len(s) THEN Null ELSE s[(i + 1) + 1]
        BY <1>2, <1>4 DEF IsChain
      <4>2. Tail(s)[i] = s[i + 1] /\ (i = Len(Tail(s)) <=> i + 1 = Len(s))
        BY <1>4
      <4>3. ASSUME i # Len(Tail(s))
            PROVE  Tail(s)[i + 1] = s[(i + 1) + 1]
        <5>0. Len(Tail(s)) \in Nat
          BY <1>4
        <5>1. i + 1 \in 1 .. Len(Tail(s))
          BY <4>3, <5>0
        <5> QED
          BY <5>1, <1>4
      <4> QED
        BY <4>1, <4>2, <4>3
    <3>5. next' = next
      BY DEF Walk
    <3>6. IsChain(next', old'[th], taken'[th])
      BY <3>3, <3>4, <3>5, <1>3, <1>4 DEF IsChain
    <3> QED
      BY <3>3, <3>6, <2>1, <2>2 DEF Links
  <2> QED
    BY <2>4, <2>5
<1>8. Exclusive'
  <2>1. stack' = stack /\ node' = node
    BY DEF Walk
  <2>2. ASSUME NEW t
        PROVE  /\ Apart(t, s) => Apart(t, Tail(s))
               /\ Apart(s, t) => Apart(Tail(s), t)
               /\ Outside(t, s) => Outside(t, Tail(s))
    BY <1>4 DEF Apart, Outside
  <2>3. /\ \A i, j \in 1 .. Len(s) : s[i] = s[j] => i = j
        /\ Apart(stack, s)
        /\ \A u \in Threads : u # th => Apart(s, taken[u]) /\ Apart(taken[u], s)
        /\ \A u \in Threads : node[u] # Null => Outside(node[u], s)
    BY DEF Exclusive, s
  <2>4. \A i, j \in 1 .. Len(Tail(s)) : Tail(s)[i] = Tail(s)[j] => i = j
    BY <1>4, <2>3
  <2>5. ASSUME NEW u \in Threads
        PROVE  /\ \A i, j \in 1 .. Len(taken'[u]) : taken'[u][i] = taken'[u][j] => i = j
               /\ Apart(stack', taken'[u])
               /\ node'[u] # Null => Outside(node'[u], stack')
    <3>1. CASE u = th
      BY <3>1, <2>1, <2>2, <2>3, <2>4, <1>3 DEF Exclusive
    <3>2. CASE u # th
      BY <3>2, <2>1, <1>3 DEF Exclusive
    <3> QED
      BY <3>1, <3>2
  <2>6. ASSUME NEW u \in Threads, NEW v \in Threads
        PROVE  /\ u # v => Apart(taken'[u], taken'[v])
               /\ u # v /\ node'[u] # Null => node'[u] # node'[v]
               /\ node'[u] # Null => Outside(node'[u], taken'[v])
    <3>1. CASE u = th /\ v # th
      <4>1. Apart(s, taken[v])
        BY <3>1, <2>3
      <4>2. Apart(Tail(s), taken[v])
        BY <4>1, <2>2
      <4> QED
        BY <3>1, <4>2, <2>1, <1>3 DEF Exclusive
    <3>2. CASE v = th
      BY <3>2, <2>1, <2>2, <2>3, <1>3 DEF Exclusive
    <3>3. CASE u # th /\ v # th
      BY <3>3, <2>1, <1>3 DEF Exclusive
    <3> QED
      BY <3>1, <3>2, <3>3
  <2>7. \A i, j \in 1 .. Len(stack') : stack'[i] = stack'[j] => i = j
    BY <2>1 DEF Exclusive
  <2> QED
    BY <2>5, <2>6, <2>7 DEF Exclusive
<1> QED
  BY <1>6, <1>7, <1>8

\* Every step keeps the invariant.
LEMMA NextIInv == IInv /\ [Next]_vars => IInv'
<1> SUFFICES ASSUME IInv, [Next]_vars PROVE IInv'
  OBVIOUS
<1>1. ASSUME NEW th \in Threads, Step(th) PROVE IInv'
  BY <1>1, PushLoadIInv, PushCasIInv, PushCasFailsIInv, ExtractTriesIInv,
     ExtractCasIInv, WalkIInv DEF Step
<1>2. CASE UNCHANGED vars
  BY <1>2 DEF vars, IInv, TypeOK, Links, Exclusive, IsChain, Apart, Outside
<1> QED
  BY <1>1, <1>2 DEF Next

\* The memory of the stack is always the lists of the history, and no node is
\* in two of them (lock_free_stack.hpp:17-33).
THEOREM StackInvariance == Spec => []IInv
<1> QED
  BY InitIInv, NextIInv, PTL DEF Spec

\* A step of the code is one atomic push, take-all or consumption, or does not
\* change the stack.
LEMMA StepSimulates ==
    ASSUME IInv, [Next]_vars
    PROVE  [Abstract!Next]_(Abstract!vars)
<1> USE DEF IInv
<1>1. ASSUME NEW th \in Threads, PushCas(th)
      PROVE  Abstract!Next
  <2>1. node[th] \in Nodes /\ node[th] # Null
    BY <1>1 DEF PushCas, TypeOK
  <2>2. node[th] \notin ToSet(stack) /\ \A u \in Threads : node[th] \notin ToSet(taken[u])
    BY <2>1, NotInList DEF Exclusive, TypeOK
  <2>3. Abstract!Push(node[th])
    BY <1>1, <2>2 DEF PushCas, Abstract!Push, Abstract!ToSet, ToSet
  <2> QED
    BY <2>1, <2>3 DEF Abstract!Next
<1>2. ASSUME NEW th \in Threads, ExtractCas(th)
      PROVE  Abstract!Next
  BY <1>2 DEF ExtractCas, Links, Abstract!ExtractAll, Abstract!Next
<1>3. ASSUME NEW th \in Threads, Walk(th)
      PROVE  Abstract!Next
  BY <1>3 DEF Walk, Links, Abstract!Consume, Abstract!Next
<1>4. ASSUME NEW th \in Threads,
             \/ \E n \in Nodes : PushLoad(th, n)
             \/ PushCasFails(th) \/ ExtractLoad(th) \/ ExtractCasFails(th)
      PROVE  UNCHANGED Abstract!vars
  BY <1>4 DEF PushLoad, PushCasFails, ExtractLoad, ExtractCasFails, Abstract!vars
<1>5. ASSUME UNCHANGED vars
      PROVE  UNCHANGED Abstract!vars
  BY <1>5 DEF vars, Abstract!vars
<1> QED
  BY <1>1, <1>2, <1>3, <1>4, <1>5 DEF Next, Step

\* push() and extract() (lock_free_stack.hpp:17-33) implement an atomic push and
\* an atomic take-all.
THEOREM StackRefines == Spec => Refinement
<1>1. Init => Abstract!Init
  BY DEF Init, Abstract!Init
<1> QED
  BY <1>1, StepSimulates, StackInvariance, PTL DEF Spec, Refinement, Abstract!Spec

=============================================================================
