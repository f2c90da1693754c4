---------------------------- MODULE ChannelProofs ----------------------------
(***************************************************************************)
(* Proofs about Channel, for any number of channels, operations and        *)
(* selects: every operation is in one place at a time and completes at     *)
(* most once, a select commits to one case, a kcas claims both selects or  *)
(* none, and the queues keep their order.                                  *)
(***************************************************************************)
EXTENDS Channel, TLAPS

Dirs == {"send", "recv"}

-----------------------------------------------------------------------------
\* Sequences: what a queue is after push_back, pop_front, push_front and erase.

\* push_back
LEMMA AppendFacts ==
    ASSUME NEW S, NEW s \in Seq(S), NEW e \in S
    PROVE  /\ Append(s, e) \in Seq(S)
           /\ ToSet(Append(s, e)) = ToSet(s) \cup {e}
           /\ IsInjective(s) /\ e \notin ToSet(s) => IsInjective(Append(s, e))
<1> DEFINE t == Append(s, e)
<1>1. /\ t \in Seq(S) /\ Len(s) \in Nat /\ Len(t) = Len(s) + 1 /\ t[Len(s) + 1] = e
      /\ \A i \in 1 .. Len(s) : t[i] = s[i]
      /\ DOMAIN t = 1 .. Len(s) + 1 /\ DOMAIN s = 1 .. Len(s)
  OBVIOUS
<1> HIDE DEF t
<1>2. ToSet(t) = ToSet(s) \cup {e}
  BY <1>1 DEF ToSet
<1>3. IsInjective(s) /\ e \notin ToSet(s) => IsInjective(t)
  <2> SUFFICES ASSUME IsInjective(s), e \notin ToSet(s),
                      NEW i \in 1 .. Len(s) + 1, NEW j \in 1 .. Len(s) + 1, t[i] = t[j]
               PROVE  i = j
    BY <1>1 DEF IsInjective
  <2>1. \A k \in 1 .. Len(s) : s[k] # e
    BY <1>1 DEF ToSet
  <2> QED
    BY <1>1, <2>1 DEF IsInjective
<1> QED
  BY <1>1, <1>2, <1>3 DEF t

\* pop_front
LEMMA TailFacts ==
    ASSUME NEW S, NEW s \in Seq(S), s # <<>>
    PROVE  /\ Head(s) \in ToSet(s) /\ Head(s) \in S /\ Tail(s) \in Seq(S)
           /\ ToSet(s) = ToSet(Tail(s)) \cup {Head(s)}
           /\ IsInjective(s) => IsInjective(Tail(s)) /\ Head(s) \notin ToSet(Tail(s))
<1> DEFINE t == Tail(s)
<1>1. /\ t \in Seq(S) /\ Len(s) \in Nat /\ Len(s) > 0 /\ Len(t) = Len(s) - 1 /\ Head(s) = s[1]
      /\ \A i \in 1 .. Len(s) - 1 : t[i] = s[i + 1]
      /\ DOMAIN t = 1 .. Len(s) - 1 /\ DOMAIN s = 1 .. Len(s) /\ s[1] \in S
  OBVIOUS
<1> HIDE DEF t
<1>2. \A i \in 1 .. Len(s) : i = 1 \/ (i - 1 \in 1 .. Len(s) - 1 /\ s[i] = t[i - 1])
  BY <1>1
<1>3. ToSet(s) = ToSet(t) \cup {s[1]}
  <2>1. ASSUME NEW x \in ToSet(s) PROVE x \in ToSet(t) \cup {s[1]}
    <3>1. PICK i \in 1 .. Len(s) : x = s[i]
      BY <1>1 DEF ToSet
    <3> QED
      BY <1>1, <1>2, <3>1 DEF ToSet
  <2>2. \A x \in ToSet(t) : x \in ToSet(s)
    BY <1>1 DEF ToSet
  <2>3. s[1] \in ToSet(s)
    BY <1>1 DEF ToSet
  <2> QED
    BY <2>1, <2>2, <2>3
<1>4. IsInjective(s) => IsInjective(t)
  <2> SUFFICES ASSUME IsInjective(s), NEW i \in 1 .. Len(s) - 1, NEW j \in 1 .. Len(s) - 1,
                      t[i] = t[j]
               PROVE  i = j
    BY <1>1 DEF IsInjective
  <2>1. i + 1 \in DOMAIN s /\ j + 1 \in DOMAIN s /\ s[i + 1] = s[j + 1]
    BY <1>1
  <2>2. i + 1 = j + 1
    BY <2>1 DEF IsInjective
  <2> QED
    BY <2>2
<1>5. IsInjective(s) => s[1] \notin ToSet(t)
  <2> SUFFICES ASSUME IsInjective(s), NEW i \in 1 .. Len(s) - 1, t[i] = s[1]
               PROVE  FALSE
    BY <1>1 DEF ToSet
  <2>1. 1 \in DOMAIN s /\ i + 1 \in DOMAIN s /\ s[i + 1] = s[1] /\ i + 1 # 1
    BY <1>1
  <2> QED
    BY <2>1 DEF IsInjective
<1> QED
  BY <1>1, <1>3, <1>4, <1>5 DEF t

\* push_front
LEMMA ConsFacts ==
    ASSUME NEW S, NEW s \in Seq(S), NEW e \in S
    PROVE  /\ <<e>> \o s \in Seq(S)
           /\ ToSet(<<e>> \o s) = ToSet(s) \cup {e}
           /\ IsInjective(s) /\ e \notin ToSet(s) => IsInjective(<<e>> \o s)
<1> DEFINE t == <<e>> \o s
<1>1. /\ t \in Seq(S) /\ Len(s) \in Nat /\ Len(t) = Len(s) + 1 /\ t[1] = e
      /\ \A i \in 1 .. Len(s) : t[i + 1] = s[i]
      /\ DOMAIN t = 1 .. Len(s) + 1 /\ DOMAIN s = 1 .. Len(s)
  OBVIOUS
<1> HIDE DEF t
<1>2. \A i \in 1 .. Len(s) + 1 : i = 1 \/ (i - 1 \in 1 .. Len(s) /\ t[i] = s[i - 1])
  BY <1>1
<1>3. ToSet(t) = ToSet(s) \cup {e}
  BY <1>1, <1>2 DEF ToSet
<1>4. IsInjective(s) /\ e \notin ToSet(s) => IsInjective(t)
  <2> SUFFICES ASSUME IsInjective(s), e \notin ToSet(s),
                      NEW i \in 1 .. Len(s) + 1, NEW j \in 1 .. Len(s) + 1, t[i] = t[j]
               PROVE  i = j
    BY <1>1 DEF IsInjective
  <2>1. \A k \in 1 .. Len(s) : s[k] # e
    BY <1>1 DEF ToSet
  <2>2. \A k, l \in 1 .. Len(s) : s[k] = s[l] => k = l
    BY <1>1 DEF IsInjective
  <2>3. CASE i = 1
    BY <1>1, <1>2, <2>1, <2>3
  <2>4. CASE j = 1
    BY <1>1, <1>2, <2>1, <2>4
  <2>5. CASE i # 1 /\ j # 1
    <3>1. i - 1 \in 1 .. Len(s) /\ j - 1 \in 1 .. Len(s) /\ s[i - 1] = s[j - 1]
      BY <1>2, <2>5
    <3> QED
      BY <2>2, <3>1
  <2> QED
    BY <2>3, <2>4, <2>5
<1> QED
  BY <1>1, <1>3, <1>4 DEF t

\* pop_front after push_front
LEMMA TailOfCons ==
    ASSUME NEW S, NEW s \in Seq(S), NEW e \in S
    PROVE  <<e>> \o s # <<>> /\ Tail(<<e>> \o s) = s
  OBVIOUS

\* Concatenation, element by element.
LEMMA ConcatFacts ==
    ASSUME NEW S, NEW u \in Seq(S), NEW v \in Seq(S)
    PROVE  /\ u \o v \in Seq(S) /\ Len(u \o v) = Len(u) + Len(v)
           /\ \A i \in 1 .. Len(u) + Len(v) :
                  (u \o v)[i] = IF i <= Len(u) THEN u[i] ELSE v[i - Len(u)]
  OBVIOUS

\* erase: the elements in front keep their positions, those behind move up.
LEMMA ErasePositions ==
    ASSUME NEW S, NEW s \in Seq(S), NEW e \in ToSet(s)
    PROVE  \E k \in 1 .. Len(s) :
               /\ s[k] = e /\ Erase(s, e) \in Seq(S) /\ Len(Erase(s, e)) = Len(s) - 1
               /\ \A i \in 1 .. Len(s) - 1 :
                      Erase(s, e)[i] = IF i < k THEN s[i] ELSE s[i + 1]
<1> DEFINE k == CHOOSE i \in DOMAIN s : s[i] = e
           u == SubSeq(s, 1, k - 1)
           v == SubSeq(s, k + 1, Len(s))
<1>1. k \in 1 .. Len(s) /\ s[k] = e /\ Len(s) \in Nat
  BY DEF ToSet
<1> HIDE DEF k
<1>2. /\ u \in Seq(S) /\ Len(u) = k - 1 /\ \A i \in 1 .. k - 1 : u[i] = s[i]
      /\ v \in Seq(S) /\ Len(v) = Len(s) - k /\ \A i \in 1 .. Len(s) - k : v[i] = s[i + k]
  BY <1>1
<1>3. Erase(s, e) = u \o v
  BY DEF Erase, RemoveAt, k
<1> HIDE DEF u, v
<1>4. /\ u \o v \in Seq(S) /\ Len(u \o v) = Len(u) + Len(v)
      /\ \A i \in 1 .. Len(u) + Len(v) :
             (u \o v)[i] = IF i <= Len(u) THEN u[i] ELSE v[i - Len(u)]
  BY <1>2, ConcatFacts
<1>5. Len(u) + Len(v) = Len(s) - 1
  BY <1>1, <1>2
<1>6. \A i \in 1 .. Len(s) - 1 : (u \o v)[i] = IF i < k THEN s[i] ELSE s[i + 1]
  <2> TAKE i \in 1 .. Len(s) - 1
  <2>1. CASE i < k
    BY <1>1, <1>2, <1>4, <1>5, <2>1
  <2>2. CASE ~(i < k)
    <3>1. i - Len(u) \in 1 .. Len(s) - k /\ ~(i <= Len(u)) /\ (i - Len(u)) + k = i + 1
      BY <1>1, <1>2, <2>2
    <3>2. (u \o v)[i] = v[i - Len(u)]
      BY <1>4, <1>5, <3>1
    <3> QED
      BY <1>2, <2>2, <3>1, <3>2
  <2> QED
    BY <2>1, <2>2
<1> QED
  BY <1>1, <1>3, <1>4, <1>5, <1>6

\* erase
LEMMA EraseFacts ==
    ASSUME NEW S, NEW s \in Seq(S), NEW e \in ToSet(s), IsInjective(s)
    PROVE  /\ Erase(s, e) \in Seq(S) /\ IsInjective(Erase(s, e))
           /\ ToSet(Erase(s, e)) = ToSet(s) \ {e}
<1> DEFINE t == Erase(s, e)
<1>1. PICK k \in 1 .. Len(s) :
          /\ s[k] = e /\ t \in Seq(S) /\ Len(t) = Len(s) - 1
          /\ \A i \in 1 .. Len(s) - 1 : t[i] = IF i < k THEN s[i] ELSE s[i + 1]
  BY ErasePositions
<1> HIDE DEF t
<1>2. /\ DOMAIN s = 1 .. Len(s) /\ Len(s) \in Nat
      /\ DOMAIN t = 1 .. Len(s) - 1
  BY <1>1
<1>3. IsInjective(t)
  <2> SUFFICES ASSUME NEW i \in 1 .. Len(s) - 1, NEW j \in 1 .. Len(s) - 1, t[i] = t[j]
               PROVE  i = j
    BY <1>2 DEF IsInjective
  <2>1. \A l, m \in 1 .. Len(s) : s[l] = s[m] => l = m
    BY <1>2 DEF IsInjective
  <2>2. i \in 1 .. Len(s) /\ i + 1 \in 1 .. Len(s) /\ j \in 1 .. Len(s) /\ j + 1 \in 1 .. Len(s)
    BY <1>2
  <2>3. /\ t[i] = IF i < k THEN s[i] ELSE s[i + 1]
        /\ t[j] = IF j < k THEN s[j] ELSE s[j + 1]
    BY <1>1
  <2>4. CASE i < k /\ j < k
    BY <2>1, <2>2, <2>3, <2>4
  <2>5. CASE ~(i < k) /\ ~(j < k)
    <3>1. i + 1 = j + 1
      BY <2>1, <2>2, <2>3, <2>5
    <3> QED
      BY <3>1
  <2>6. CASE i < k /\ ~(j < k)
    <3>1. i = j + 1
      BY <2>1, <2>2, <2>3, <2>6
    <3> QED
      BY <2>6, <3>1
  <2>7. CASE ~(i < k) /\ j < k
    <3>1. i + 1 = j
      BY <2>1, <2>2, <2>3, <2>7
    <3> QED
      BY <2>7, <3>1
  <2> QED
    BY <2>4, <2>5, <2>6, <2>7
<1>4. \A i \in 1 .. Len(s) : i # k =>
          \E j \in 1 .. Len(s) - 1 : t[j] = s[i]
  <2> TAKE i \in 1 .. Len(s)
  <2>1. CASE i < k
    BY <1>1, <1>2, <2>1
  <2>2. CASE i > k
    <3>1. i - 1 \in 1 .. Len(s) - 1 /\ t[i - 1] = s[i]
      BY <1>1, <1>2, <2>2
    <3> QED
      BY <3>1
  <2> QED
    BY <1>2, <2>1, <2>2
<1>5. \A j \in 1 .. Len(s) - 1 : t[j] \in ToSet(s) /\ t[j] # e
  <2> TAKE j \in 1 .. Len(s) - 1
  <2>1. PICK l \in 1 .. Len(s) : l # k /\ t[j] = s[l]
    <3>1. j \in 1 .. Len(s) /\ j + 1 \in 1 .. Len(s) /\ (j < k => j # k) /\ (~(j < k) => j + 1 # k)
      BY <1>2
    <3> QED
      BY <1>1, <3>1
  <2> QED
    BY <1>1, <1>2, <2>1 DEF ToSet, IsInjective
<1>6. ToSet(t) = ToSet(s) \ {e}
  <2>1. \A x \in ToSet(t) : x \in ToSet(s) \ {e}
    BY <1>2, <1>5 DEF ToSet
  <2>2. ASSUME NEW x \in ToSet(s), x # e PROVE x \in ToSet(t)
    <3>1. PICK i \in 1 .. Len(s) : x = s[i]
      BY <1>2 DEF ToSet
    <3>2. PICK j \in 1 .. Len(s) - 1 : t[j] = s[i]
      BY <1>1, <1>4, <2>2, <3>1
    <3> QED
      BY <1>2, <3>1, <3>2 DEF ToSet
  <2> QED
    BY <2>1, <2>2
<1> QED
  BY <1>1, <1>3, <1>6 DEF t

\* One of the queues changes, the others do not.
LEMMA QueueUpdate ==
    ASSUME NEW C, NEW D, NEW S, NEW f \in [C -> [D -> S]], NEW c0 \in C, NEW d0 \in D,
           NEW u \in S, NEW g, g = [f EXCEPT ![c0][d0] = u]
    PROVE  /\ g \in [C -> [D -> S]] /\ g[c0][d0] = u
           /\ \A c \in C, d \in D : c # c0 \/ d # d0 => g[c][d] = f[c][d]
<1>1. f[c0] \in [D -> S] /\ g = [f EXCEPT ![c0] = [f[c0] EXCEPT ![d0] = u]]
  OBVIOUS
<1>2. [f[c0] EXCEPT ![d0] = u] \in [D -> S]
  BY <1>1
<1>3. g \in [C -> [D -> S]] /\ g[c0] = [f[c0] EXCEPT ![d0] = u]
  BY <1>1, <1>2
<1>4. \A c \in C : c # c0 => g[c] = f[c]
  BY <1>1
<1>5. g[c0][d0] = u /\ \A d \in D : d # d0 => g[c0][d] = f[c0][d]
  BY <1>1, <1>3
<1> QED
  BY <1>3, <1>4, <1>5

-----------------------------------------------------------------------------
\* The programs of the agents.

\* Every operation is a plain one or a case of one select.
LEMMA SelectOfCase ==
    ASSUME NEW s \in Selects, NEW n \in ToSet(Cases[s])
    PROVE  n \in Nodes /\ SelectOf(n) = s
<1>1. n \in Nodes
  BY ChannelAssumption DEF ToSet
<1>2. \A t \in Selects : n \in ToSet(Cases[t]) => t = s
  BY ChannelAssumption
<1>3. SelectOf(n) \in Selects /\ n \in ToSet(Cases[SelectOf(n)])
  BY DEF SelectOf
<1> QED
  BY <1>1, <1>2, <1>3

\* select_done points to a select of the node, or nowhere.
LEMMA SelectOfNode ==
    ASSUME NEW n \in Nodes
    PROVE  \/ SelectOf(n) = None
           \/ SelectOf(n) \in Selects /\ n \in ToSet(Cases[SelectOf(n)])
  BY DEF SelectOf

\* Every operation has a channel and a direction.
LEMMA NodeTypes == \A n \in Nodes : Chan[n] \in Channels /\ Dir[n] \in Dirs
  BY ChannelAssumption DEF Dirs

\* None is neither a select, nor an operation, nor an agent.
LEMMA NoneFacts ==
    /\ None \notin Selects /\ None \notin Nodes /\ None \notin Agents
    /\ \A s \in Selects : s # None /\ s \notin Nodes
  BY ChannelAssumption DEF Agents, Plain

\* An agent has its own operations, each once.
LEMMA Programs ==
    ASSUME NEW a \in Agents
    PROVE  /\ Program(a) \in Seq(Nodes) /\ Len(Program(a)) \in Nat
           /\ \A i \in 1 .. Len(Program(a)) : Program(a)[i] \in Nodes
           /\ \A b \in Agents : \A i \in 1 .. Len(Program(a)), j \in 1 .. Len(Program(b)) :
                  Program(a)[i] = Program(b)[j] => a = b /\ i = j
<1>1. \A b \in Agents : Program(b) \in Seq(Nodes) /\ IsInjective(Program(b))
  <2> TAKE b \in Agents
  <2>1. CASE b \in Selects
    BY <2>1, ChannelAssumption DEF Program
  <2>2. CASE b \notin Selects
    <3>1. Program(b) = <<b>> /\ b \in Nodes
      BY <2>2 DEF Program, Agents, Plain
    <3> QED
      BY <3>1 DEF IsInjective
  <2> QED
    BY <2>1, <2>2
<1>2. \A b \in Agents : \A i \in 1 .. Len(Program(b)) :
          IF b \in Selects THEN SelectOf(Program(b)[i]) = b
          ELSE Program(b)[i] = b /\ SelectOf(b) = None
  <2> TAKE b \in Agents
  <2> TAKE i \in 1 .. Len(Program(b))
  <2>1. CASE b \in Selects
    <3>1. Program(b) = Cases[b] /\ Program(b)[i] \in ToSet(Cases[b])
      BY <1>1, <2>1 DEF Program, ToSet
    <3> QED
      BY <2>1, <3>1, SelectOfCase
  <2>2. CASE b \notin Selects
    BY <2>2 DEF Program, Agents, Plain
  <2> QED
    BY <2>1, <2>2
<1>3. ASSUME NEW b \in Agents, NEW i \in 1 .. Len(Program(a)), NEW j \in 1 .. Len(Program(b)),
             Program(a)[i] = Program(b)[j]
      PROVE  a = b
  BY <1>2, <1>3, NoneFacts
<1>4. ASSUME NEW i \in 1 .. Len(Program(a)), NEW j \in 1 .. Len(Program(a)),
             Program(a)[i] = Program(a)[j]
      PROVE  i = j
  BY <1>1, <1>4 DEF IsInjective
<1> QED
  BY <1>1, <1>3, <1>4

\* The current operation of an agent is nobody else's, and is not past.
LEMMA OpFacts ==
    ASSUME TypeOK, \A b \in Agents : InOperation(b), NEW a \in Agents, ~Emitted(a)
    PROVE  /\ Op(a) \in Nodes /\ at[a] \in 1 .. Len(Program(a))
           /\ ~Past(Op(a))
           /\ \A b \in Agents : ~Emitted(b) /\ Op(b) = Op(a) => b = a
           /\ Chan[Op(a)] \in Channels /\ Dir[Op(a)] \in Dirs
<1>1. \A b \in Agents : /\ at[b] \in Nat \ {0} /\ Len(Program(b)) \in Nat
                        /\ at[b] <= Len(Program(b)) + 1
  BY Programs DEF TypeOK, InOperation
<1>2. \A b \in Agents : ~Emitted(b) => at[b] \in 1 .. Len(Program(b))
  BY <1>1 DEF Emitted
<1>3. Op(a) \in Nodes
  BY <1>2, Programs DEF Op
<1>4. ~Past(Op(a))
  <2> SUFFICES ASSUME NEW b \in Agents, NEW i \in 1 .. at[b] - 1, Program(b)[i] = Op(a)
               PROVE  FALSE
    BY DEF Past
  <2>1. i \in 1 .. Len(Program(b)) /\ i # at[b]
    BY <1>1
  <2> QED
    BY <1>2, <2>1, Programs DEF Op
<1>5. \A b \in Agents : ~Emitted(b) /\ Op(b) = Op(a) => b = a
  BY <1>2, Programs DEF Op
<1> QED
  BY <1>2, <1>3, <1>4, <1>5, ChannelAssumption DEF Dirs

\* The agent goes on: its operation is past, and nothing else becomes so.
LEMMA PastNext ==
    ASSUME TypeOK, \A b \in Agents : InOperation(b), NEW a \in Agents, ~Emitted(a),
           at' = [at EXCEPT ![a] = @ + 1]
    PROVE  \A n : Past(n)' <=> Past(n) \/ n = Op(a)
<1> TAKE n
<1>1. \A b \in Agents : at[b] \in Nat \ {0}
  BY DEF TypeOK
<1>2. /\ at'[a] = at[a] + 1 /\ \A b \in Agents \ {a} : at'[b] = at[b]
  BY DEF TypeOK
<1>3. \A b \in Agents : \A i \in 1 .. at[b] - 1 : i \in 1 .. at'[b] - 1
  BY <1>1, <1>2
<1>4. at[a] \in 1 .. at'[a] - 1
  BY <1>1, <1>2
<1>5. \A b \in Agents : \A i \in 1 .. at'[b] - 1 : i \in 1 .. at[b] - 1 \/ (b = a /\ i = at[a])
  BY <1>1, <1>2
<1>6. Past(n) => Past(n)'
  BY <1>3 DEF Past
<1>7. n = Op(a) => Past(n)'
  BY <1>4 DEF Past, Op
<1>8. Past(n)' => Past(n) \/ n = Op(a)
  BY <1>5 DEF Past, Op
<1> QED
  BY <1>6, <1>7, <1>8

\* A select whose cases were all emitted has them all in the past.
LEMMA EmittedPast ==
    ASSUME TypeOK, \A b \in Agents : InOperation(b), NEW a \in Agents, Emitted(a),
           NEW n \in ToSet(Program(a))
    PROVE  Past(n)
<1>1. PICK i \in 1 .. Len(Program(a)) : n = Program(a)[i]
  BY Programs DEF ToSet
<1>2. i \in 1 .. at[a] - 1
  BY Programs DEF Emitted, TypeOK
<1> QED
  BY <1>1, <1>2 DEF Past

-----------------------------------------------------------------------------
\* What a step leaves alone.

NodeOK(n) == OnePlace(n) /\ HeldNodesLive(n) /\ CompletesOnce(n)

\* Only agent a moves.
Moves(a) ==
    \A b \in Agents \ {a} : pc'[b] = pc[b] /\ at'[b] = at[b] /\ peer'[b] = peer[b]

\* A node nobody touches.
LEMMA NodeSame ==
    ASSUME NEW n \in Nodes, NodeOK(n), Past(n)' <=> Past(n), Closing(n)' <=> Closing(n),
           n \in queuedIn' <=> n \in queuedIn, n \in reqCancel' <=> n \in reqCancel,
           n \in told' <=> n \in told, result'[n] = result[n], calls'[n] = calls[n],
           \A b \in Agents : Holds(b, n)' <=> Holds(b, n),
           Returning(n) => Returning(n)'
    PROVE  NodeOK(n)'
<1>1. Held(n)' <=> Held(n)
  BY DEF Held
<1>2. OnePlace(n)'
  BY <1>1 DEF NodeOK, OnePlace
<1>3. HeldNodesLive(n)' /\ CompletesOnce(n)'
  BY <1>1 DEF NodeOK, HeldNodesLive, CompletesOnce
<1> QED
  BY <1>2, <1>3 DEF NodeOK

\* The agents that do not move.
LEMMA OthersKeep ==
    ASSUME NEW a \in Agents, Moves(a), NEW b \in Agents \ {a}
    PROVE  /\ Op(b)' = Op(b) /\ (Emitted(b)' <=> Emitted(b))
           /\ \A n : Holds(b, n)' <=> Holds(b, n)
           /\ \A s : Claimant(b, s)' <=> Claimant(b, s)
<1>1. pc'[b] = pc[b] /\ at'[b] = at[b] /\ peer'[b] = peer[b]
  BY DEF Moves
<1>2. Op(b)' = Op(b) /\ (Emitted(b)' <=> Emitted(b))
  BY <1>1 DEF Op, Emitted
<1>3. \A d : NodeOf(b, d)' = NodeOf(b, d)
  BY <1>1, <1>2 DEF NodeOf
<1> QED
  BY <1>1, <1>2, <1>3 DEF Holds, Claimant

\* What an agent relies on stays when another one moves.
LEMMA OthersInOperation ==
    ASSUME NEW a \in Agents, Moves(a), NEW b \in Agents \ {a}, InOperation(b),
           \A c \in Channels : lock'[c] = b <=> lock[c] = b,
           \A n \in Nodes : Past(n) => Past(n)',
           closed' = closed,
           pc[b] = "failed" => peer[b] \notin reqCancel'
    PROVE  InOperation(b)'
<1>1. pc'[b] = pc[b] /\ at'[b] = at[b] /\ peer'[b] = peer[b]
  BY DEF Moves
<1>2. Op(b)' = Op(b) /\ (Emitted(b)' <=> Emitted(b))
  BY OthersKeep
<1> QED
  BY <1>1, <1>2 DEF InOperation

\* An agent that goes on to its next operation.
LEMMA NextOpFacts ==
    ASSUME TypeOK, \A b \in Agents : InOperation(b), NEW a \in Agents, ~Emitted(a), NextOp(a)
    PROVE  /\ Moves(a) /\ pc'[a] = "begin" /\ peer'[a] = None
           /\ pc' \in [Agents -> {"begin", "loop", "failed", "call_recv", "call_send"}]
           /\ at' \in [Agents -> Nat \ {0}] /\ peer' \in [Agents -> Nodes \cup {None}]
           /\ \A n : Past(n)' <=> Past(n) \/ n = Op(a)
           /\ \A n : ~Holds(a, n)'
           /\ \A s : ~Claimant(a, s)'
           /\ at'[a] <= Len(Program(a)) + 1
<1>1. Moves(a) /\ pc'[a] = "begin" /\ peer'[a] = None /\ at'[a] = at[a] + 1
  BY DEF NextOp, Moves, TypeOK
<1>2. /\ pc' \in [Agents -> {"begin", "loop", "failed", "call_recv", "call_send"}]
      /\ at' \in [Agents -> Nat \ {0}] /\ peer' \in [Agents -> Nodes \cup {None}]
  BY DEF NextOp, TypeOK
<1>3. \A n : Past(n)' <=> Past(n) \/ n = Op(a)
  BY PastNext DEF NextOp
<1>4. at'[a] <= Len(Program(a)) + 1
  BY <1>1, Programs DEF Emitted, TypeOK
<1> QED
  BY <1>1, <1>2, <1>3, <1>4 DEF Holds, Claimant

\* The mutex of the channel is given back, by an agent that holds it or while
\* nobody does.
LEMMA UnlockFacts ==
    ASSUME TypeOK, \A b \in Agents : InOperation(b), NEW a \in Agents, ~Emitted(a),
           lock[Chan[Op(a)]] \in {None, a}, Unlock(a)
    PROVE  /\ lock' \in [Channels -> Agents \cup {None}]
           /\ \A c \in Channels : lock'[c] # a
           /\ \A b \in Agents \ {a}, c \in Channels : lock'[c] = b <=> lock[c] = b
<1>1. Chan[Op(a)] \in Channels
  BY OpFacts
<1>2. \A c \in Channels : lock[c] = a => c = Chan[Op(a)]
  BY DEF InOperation
<1> QED
  BY <1>1, <1>2, NoneFacts DEF Unlock, TypeOK

\* What the agents rely on when agent a has left its operation.
LEMMA LeaveInOperation ==
    ASSUME TypeOK, \A b \in Agents : InOperation(b), NEW a \in Agents, ~Emitted(a), NextOp(a),
           \A c \in Channels : lock'[c] # a,
           \A b \in Agents \ {a}, c \in Channels : lock'[c] = b <=> lock[c] = b,
           closed' = closed, reqCancel' \subseteq reqCancel \cup {Op(a)}
    PROVE  \A b \in Agents : InOperation(b)'
<1>1. InOperation(a)'
  BY NextOpFacts DEF InOperation
<1>2. ASSUME NEW b \in Agents \ {a} PROVE InOperation(b)'
  <2>1. pc[b] = "failed" => peer[b] # Op(a)
    BY OpFacts DEF InOperation
  <2>2. pc[b] = "failed" => peer[b] \notin reqCancel'
    BY <2>1 DEF InOperation
  <2> QED
    BY <2>2, OthersInOperation, NextOpFacts
<1> QED
  BY <1>1, <1>2

-----------------------------------------------------------------------------
\* The callbacks.

CallbackTypes ==
    /\ done \subseteq Selects
    /\ slot \in [Selects -> Seq({"value", "error", "null"})]
    /\ winner \in [Selects -> Nodes \cup Selects \cup {None}]
    /\ result \in [Nodes -> Results] /\ calls \in [Nodes -> Nat]

\* No callback is called and nobody claims a select.
LEMMA ClaimsSame ==
    ASSUME \A s \in Selects : OneClaim(s), UNCHANGED callbacks,
           \A a \in Agents, s \in Selects : Claimant(a, s)' <=> Claimant(a, s)
    PROVE  \A s \in Selects : OneClaim(s)'
  BY DEF OneClaim, callbacks

\* The fields of the node that is called, and of all others.
LEMMA CallFields ==
    ASSUME CallbackTypes, NEW n \in Nodes, NEW r \in {"value", "error", "null"}, Call(n, r)
    PROVE  /\ CallbackTypes'
           /\ result'[n] = r /\ calls'[n] = calls[n] + 1
           /\ \A m \in Nodes \ {n} : result'[m] = result[m] /\ calls'[m] = calls[m]
<1>1. result' \in [Nodes -> Results] /\ calls' \in [Nodes -> Nat]
  BY DEF CallbackTypes, Call, Results
<1>2. SelectOf(n) # None => SelectOf(n) \in Selects
  BY SelectOfNode
<1>3. done' \subseteq Selects
  BY <1>2 DEF CallbackTypes, Call
<1>4. slot' \in [Selects -> Seq({"value", "error", "null"})]
  BY <1>2 DEF CallbackTypes, Call
<1>5. winner' \in [Selects -> Nodes \cup Selects \cup {None}]
  BY <1>2 DEF CallbackTypes, Call
<1>6. /\ result'[n] = r /\ calls'[n] = calls[n] + 1
      /\ \A m \in Nodes \ {n} : result'[m] = result[m] /\ calls'[m] = calls[m]
  BY DEF CallbackTypes, Call
<1> QED
  BY <1>1, <1>3, <1>4, <1>5, <1>6 DEF CallbackTypes

\* A node that completes for the first time.
LEMMA CompletesNow ==
    ASSUME CallbackTypes, NEW n \in Nodes, NEW r \in {"value", "error", "null"}, Call(n, r),
           result[n] = "none", CompletesOnce(n)
    PROVE  CompletesOnce(n)'
  BY CallFields DEF CompletesOnce

\* A case that fails: it fills the slot only of a select nobody has claimed.
LEMMA CallFails ==
    ASSUME CallbackTypes, NEW n \in Nodes, NEW r \in {"error", "null"}, Call(n, r),
           result[n] = "none", \A s \in Selects : OneClaim(s),
           \A a \in Agents, s \in Selects : Claimant(a, s)' <=> Claimant(a, s)
    PROVE  \A s \in Selects : OneClaim(s)'
<1> TAKE s \in Selects
<1>1. winner' = winner /\ \A m \in Nodes : result'[m] = "value" => result[m] = "value"
  BY CallFields DEF Call
<1>2. \A m \in ToSet(Cases[s]) : result'[m] = "value" => winner'[s] = m
  BY <1>1, SelectOfCase DEF OneClaim
<1>3. CASE done' = done /\ slot' = slot
  BY <1>1, <1>2, <1>3 DEF OneClaim
<1>4. CASE ~(done' = done /\ slot' = slot)
  <2> DEFINE t == SelectOf(n)
  <2>1. /\ t \in Selects /\ t \notin done /\ done' = done \cup {t}
        /\ slot' = [slot EXCEPT ![t] = Append(@, r)]
    BY <1>4, SelectOfNode DEF Call, GivesUp
  <2> HIDE DEF t
  <2>2. slot[t] = <<>> /\ \A a \in Agents : ~Claimant(a, t)
    BY <2>1 DEF OneClaim
  <2>3. slot'[t] = <<r>> /\ \A u \in Selects \ {t} : slot'[u] = slot[u]
    BY <2>1, <2>2 DEF CallbackTypes
  <2>4. slot'[t] # <<>> /\ Len(slot'[t]) = 1
    BY <2>3
  <2>5. CASE s = t
    BY <1>2, <2>1, <2>2, <2>4, <2>5 DEF OneClaim
  <2>6. CASE s # t
    BY <1>1, <1>2, <2>1, <2>3, <2>6 DEF OneClaim
  <2> QED
    BY <2>5, <2>6
<1> QED
  BY <1>3, <1>4

\* A case that gets a value fills the slot of the select that was claimed for it.
LEMMA CallSucceeds ==
    ASSUME CallbackTypes, NEW n \in Nodes, Call(n, "value"), result[n] = "none",
           \A s \in Selects : OneClaim(s),
           \A s \in Selects \ {SelectOf(n)}, a \in Agents : Claimant(a, s)' <=> Claimant(a, s),
           SelectOf(n) # None =>
               /\ \E a \in Agents : Claimant(a, SelectOf(n))
               /\ \A a \in Agents : ~Claimant(a, SelectOf(n))'
    PROVE  \A s \in Selects : OneClaim(s)'
<1> TAKE s \in Selects
<1>1. done' = done /\ result' = [result EXCEPT ![n] = "value"]
  BY DEF Call
<1>2. CASE s # SelectOf(n)
  <2>1. n \notin ToSet(Cases[s])
    BY <1>2, SelectOfCase
  <2>2. \A m \in ToSet(Cases[s]) : result'[m] = result[m]
    BY <2>1, CallFields, SelectOfCase
  <2>3. slot'[s] = slot[s] /\ winner'[s] = winner[s]
    BY <1>2, SelectOfNode DEF Call, CallbackTypes
  <2> QED
    BY <1>1, <1>2, <2>2, <2>3 DEF OneClaim
<1>3. CASE s = SelectOf(n)
  <2>1. s # None
    BY NoneFacts
  <2>2. slot[s] = <<>> /\ s \in done /\ winner[s] = None
    BY <1>3, <2>1 DEF OneClaim
  <2>3. slot' = [slot EXCEPT ![s] = Append(@, "value")] /\ winner' = [winner EXCEPT ![s] = n]
    BY <1>3, <2>1 DEF Call
  <2>4. slot'[s] = <<"value">> /\ winner'[s] = n
    BY <2>2, <2>3 DEF CallbackTypes
  <2>5. slot'[s] # <<>> /\ Len(slot'[s]) = 1
    BY <2>4
  <2>6. ASSUME NEW m \in ToSet(Cases[s]), result'[m] = "value" PROVE m = n
    <3>1. m \in Nodes /\ m # None
      BY SelectOfCase, NoneFacts
    <3>2. m # n => result[m] = "value" /\ winner[s] = m
      BY <2>6, <3>1, CallFields DEF OneClaim
    <3> QED
      BY <2>2, <3>1, <3>2
  <2> QED
    BY <1>1, <1>3, <2>1, <2>2, <2>4, <2>5, <2>6 DEF OneClaim
<1> QED
  BY <1>2, <1>3

-----------------------------------------------------------------------------
\* The steps of an agent.

\* An operation that its agent has not returned from is nowhere else.
LEMMA OpIsFree ==
    ASSUME Inv, NEW a \in Agents, ~Emitted(a)
    PROVE  /\ ~Closing(Op(a)) /\ Op(a) \notin queuedIn \cup reqCancel \cup told
           /\ \A b \in Agents \ {a} : ~Holds(b, Op(a))
           /\ pc[a] # "call_send" => result[Op(a)] = "none"
<1>1. /\ Op(a) \in Nodes /\ ~Past(Op(a))
      /\ \A b \in Agents : ~Emitted(b) /\ Op(b) = Op(a) => b = a
  BY OpFacts DEF Inv
<1>2. ~Closing(Op(a)) /\ Op(a) \notin queuedIn \cup reqCancel
  BY <1>1 DEF Inv, OnePlace
<1>3. told \subseteq reqCancel
  BY DEF Inv, QueueClean
<1>4. ASSUME NEW b \in Agents \ {a}, pc[b] # "begin" PROVE Op(b) # Op(a)
  BY <1>1, <1>4 DEF Inv, InOperation
<1>5. ASSUME NEW b \in Agents \ {a}, pc[b] \in {"failed", "call_recv", "call_send"}
      PROVE  peer[b] # Op(a)
  BY <1>1, <1>5 DEF Inv, InOperation
<1>6. \A b \in Agents \ {a} : ~Holds(b, Op(a))
  BY <1>4, <1>5 DEF Holds, NodeOf
<1>7. pc[a] # "call_send" => ~Returning(Op(a))
  BY <1>4 DEF Returning
<1> QED
  BY <1>1, <1>2, <1>3, <1>6, <1>7 DEF Inv, HeldNodesLive

\* The nodes an agent does not hold when it leaves an operation.
LEMMA LeaveOtherNodes ==
    ASSUME Inv, NEW a \in Agents, ~Emitted(a), NextOp(a), NEW m \in Nodes \ {Op(a)},
           ~Holds(a, m), Closing(m)' <=> Closing(m),
           m \in queuedIn' <=> m \in queuedIn, m \in reqCancel' <=> m \in reqCancel,
           m \in told' <=> m \in told, result'[m] = result[m], calls'[m] = calls[m]
    PROVE  NodeOK(m)'
<1>1. Moves(a) /\ (Past(m)' <=> Past(m)) /\ ~Holds(a, m)'
  BY NextOpFacts DEF Inv
<1>2. \A b \in Agents : Holds(b, m)' <=> Holds(b, m)
  BY <1>1, OthersKeep
<1>3. Returning(m) => Returning(m)'
  <2>1. \A b \in Agents \ {a} : pc'[b] = pc[b] /\ Op(b)' = Op(b)
    BY <1>1, OthersKeep DEF Moves
  <2> QED
    BY <2>1 DEF Returning
<1>4. NodeOK(m)
  BY DEF Inv, NodeOK
<1> QED
  BY <1>1, <1>2, <1>3, <1>4, NodeSame

\* The agent itself: nobody waits for it to call a select.
LEMMA LeaveClaims ==
    ASSUME Inv, NEW a \in Agents, ~Emitted(a), NextOp(a), pc[a] \notin {"call_recv", "call_send"}
    PROVE  \A b \in Agents, s \in Selects : Claimant(b, s)' <=> Claimant(b, s)
<1>1. Moves(a) /\ \A s : ~Claimant(a, s)'
  BY NextOpFacts DEF Inv
<1>2. \A s : ~Claimant(a, s)
  BY DEF Claimant
<1> QED
  BY <1>1, <1>2, OthersKeep

\* The operation fails at once.
LEMMA LeaveFailed ==
    ASSUME Inv, NEW a \in Agents, ~Emitted(a), pc[a] \in {"begin", "loop"},
           NEW r \in {"error", "null"}, Call(Op(a), r), NextOp(a),
           lock[Chan[Op(a)]] \in {None, a}, Unlock(a), UNCHANGED <<queues, timer, told>>
    PROVE  Inv'
<1>0. PICK n \in Nodes : n = Op(a)
  BY OpFacts DEF Inv
<1> USE <1>0
<1>1. n \in Nodes /\ ~Past(n)
  BY OpFacts DEF Inv
<1>2. /\ ~Closing(n) /\ n \notin queuedIn \cup reqCancel \cup told /\ result[n] = "none"
      /\ \A b \in Agents \ {a} : ~Holds(b, n)
  BY OpIsFree
<1>3. CallbackTypes
  BY DEF Inv, TypeOK, CallbackTypes
<1>4. /\ UNCHANGED <<q, closed, queuedIn, reqCancel, closing, timer, told>>
      /\ \A m \in Nodes : Closing(m)' <=> Closing(m)
  BY DEF queues, Closing
<1>5. TypeOK'
  <2>1. CallbackTypes'
    BY <1>1, <1>3, CallFields
  <2>2. /\ pc' \in [Agents -> {"begin", "loop", "failed", "call_recv", "call_send"}]
        /\ at' \in [Agents -> Nat \ {0}] /\ peer' \in [Agents -> Nodes \cup {None}]
    BY NextOpFacts DEF Inv
  <2>3. lock' \in [Channels -> Agents \cup {None}]
    BY UnlockFacts DEF Inv
  <2> QED
    BY <1>4, <2>1, <2>2, <2>3 DEF Inv, TypeOK, CallbackTypes
<1>6. QueueClean'
  BY <1>4 DEF Inv, QueueClean, Queued
<1>7. \A b \in Agents : InOperation(b)'
  BY <1>4, LeaveInOperation, UnlockFacts DEF Inv
<1>8. ASSUME NEW m \in Nodes \ {n} PROVE NodeOK(m)'
  <2>1. ~Holds(a, m)
    BY DEF Holds
  <2>2. result'[m] = result[m] /\ calls'[m] = calls[m]
    BY <1>1, <1>3, CallFields
  <2> QED
    BY <1>4, <2>1, <2>2, LeaveOtherNodes
<1>9. NodeOK(n)'
  <2>1. Past(n)' /\ Moves(a) /\ \A m : ~Holds(a, m)'
    BY NextOpFacts DEF Inv
  <2>2. \A b \in Agents : ~Holds(b, n)'
    BY <1>2, <2>1, OthersKeep
  <2>3. ~Held(n)' /\ ~Closing(n)' /\ n \notin queuedIn' \cup reqCancel'
    BY <1>1, <1>2, <1>4, <2>2 DEF Held
  <2>4. OnePlace(n)' /\ HeldNodesLive(n)'
    BY <2>1, <2>2, <2>3 DEF OnePlace, HeldNodesLive
  <2>5. CompletesOnce(n)'
    BY <1>1, <1>2, <1>3, CompletesNow DEF Inv
  <2> QED
    BY <2>4, <2>5 DEF NodeOK
<1>10. \A s \in Selects : OneClaim(s)'
  <2>1. pc[a] \notin {"call_recv", "call_send"}
    OBVIOUS
  <2> QED
    BY <1>1, <1>2, <1>3, <2>1, CallFails, LeaveClaims DEF Inv
<1> QED
  BY <1>5, <1>6, <1>7, <1>8, <1>9, <1>10 DEF Inv, NodeOK

\* push_back and push_front of a node, on its channel.
PushesBack(n) == q' = [q EXCEPT ![Chan[n]][Dir[n]] = Append(@, n)]
PushesFront(n) == q' = [q EXCEPT ![Chan[n]][Dir[n]] = <<n>> \o @]

\* The operation waits.
LEMMA LeaveQueued ==
    ASSUME Inv, NEW a \in Agents, ~Emitted(a), pc[a] \in {"begin", "loop"}, NextOp(a),
           lock[Chan[Op(a)]] \in {None, a}, Unlock(a),
           ~(Dir[Op(a)] = "recv" /\ Chan[Op(a)] \in closed),
           PushesBack(Op(a)), queuedIn' = queuedIn \cup {Op(a)},
           UNCHANGED <<closed, reqCancel, closing, callbacks, timer, told>>
    PROVE  Inv'
<1>0. PICK n \in Nodes : n = Op(a)
  BY OpFacts DEF Inv
<1> USE <1>0
<1> DEFINE c0 == Chan[n]
           d0 == Dir[n]
<1>1. n \in Nodes /\ ~Past(n) /\ c0 \in Channels /\ d0 \in Dirs
  BY OpFacts DEF Inv
<1>2. /\ ~Closing(n) /\ n \notin queuedIn \cup reqCancel \cup told /\ result[n] = "none"
      /\ \A b \in Agents \ {a} : ~Holds(b, n)
  BY OpIsFree
<1>3. UNCHANGED <<done, slot, winner, result, calls>> /\ \A m \in Nodes : Closing(m)' <=> Closing(m)
  BY DEF callbacks, Closing
<1>4. /\ q \in [Channels -> [Dirs -> Seq(Nodes)]]
      /\ \A c \in Channels, d \in Dirs : q[c][d] \in Seq(Nodes)
  BY DEF Inv, TypeOK, Dirs
<1>5. /\ q' \in [Channels -> [Dirs -> Seq(Nodes)]]
      /\ q'[c0][d0] = Append(q[c0][d0], n)
      /\ \A c \in Channels, d \in Dirs : c # c0 \/ d # d0 => q'[c][d] = q[c][d]
  <2>1. c0 \in Channels /\ d0 \in Dirs
    BY <1>1
  <2>2. Append(q[c0][d0], n) \in Seq(Nodes)
    BY <1>1, <1>4, <2>1
  <2>3. q' = [q EXCEPT ![c0][d0] = Append(q[c0][d0], n)]
    BY <1>4, <2>1 DEF PushesBack
  <2> QED
    BY <1>4, <2>1, <2>2, <2>3, QueueUpdate
<1>6. n \notin ToSet(q[c0][d0])
  BY <1>1, <1>2 DEF Inv, QueueClean, Queued
<1>7. ToSet(q'[c0][d0]) = ToSet(q[c0][d0]) \cup {n} /\ IsInjective(q'[c0][d0])
  <2>1. q[c0][d0] \in Seq(Nodes)
    BY <1>1, <1>4
  <2>2. IsInjective(q[c0][d0])
    BY <1>1 DEF Inv, QueueClean, Dirs
  <2>3. ToSet(Append(q[c0][d0], n)) = ToSet(q[c0][d0]) \cup {n}
    BY <2>1, AppendFacts
  <2>4. IsInjective(Append(q[c0][d0], n))
    BY <1>6, <2>1, <2>2, AppendFacts
  <2> QED
    BY <1>5, <2>3, <2>4
<1> HIDE DEF c0, d0
<1>8. TypeOK'
  <2>1. /\ pc' \in [Agents -> {"begin", "loop", "failed", "call_recv", "call_send"}]
        /\ at' \in [Agents -> Nat \ {0}] /\ peer' \in [Agents -> Nodes \cup {None}]
    BY NextOpFacts DEF Inv
  <2>2. lock' \in [Channels -> Agents \cup {None}]
    BY UnlockFacts DEF Inv
  <2>3. queuedIn' \subseteq Nodes
    BY DEF Inv, TypeOK
  <2> QED
    BY <1>3, <1>5, <2>1, <2>2, <2>3 DEF Inv, TypeOK, Dirs
<1>9. QueueClean'
  <2>1. ASSUME NEW c \in Channels, NEW d \in Dirs
        PROVE  IsInjective(q'[c][d]) /\ \A m \in ToSet(q'[c][d]) : Chan[m] = c /\ Dir[m] = d
    <3>1. IsInjective(q[c][d]) /\ \A m \in ToSet(q[c][d]) : Chan[m] = c /\ Dir[m] = d
      BY DEF Inv, QueueClean, Dirs
    <3>2. Chan[n] = c0 /\ Dir[n] = d0
      BY DEF c0, d0
    <3>3. CASE c = c0 /\ d = d0
      BY <1>7, <3>1, <3>2, <3>3
    <3>4. CASE c # c0 \/ d # d0
      BY <1>5, <3>1, <3>4
    <3> QED
      BY <3>3, <3>4
  <2>2. \A m \in Nodes : Queued(m)' <=> Queued(m) \/ m = n
    <3> TAKE m \in Nodes
    <3>1. CASE Chan[m] = c0 /\ Dir[m] = d0
      BY <1>7, <3>1 DEF Queued
    <3>2. CASE ~(Chan[m] = c0 /\ Dir[m] = d0)
      BY <1>5, <3>2, NodeTypes DEF Queued, c0, d0
    <3> QED
      BY <3>1, <3>2
  <2>3. \A c \in closed : q'[c]["recv"] = q[c]["recv"]
    BY <1>5 DEF c0, d0, Dirs, Inv, TypeOK
  <2> QED
    BY <1>1, <1>2, <2>1, <2>2, <2>3 DEF Inv, QueueClean, Dirs
<1>10. \A b \in Agents : InOperation(b)'
  BY LeaveInOperation, UnlockFacts DEF Inv
<1>11. ASSUME NEW m \in Nodes \ {n} PROVE NodeOK(m)'
  <2>1. ~Holds(a, m)
    BY DEF Holds
  <2> QED
    BY <1>3, <2>1, LeaveOtherNodes
<1>12. NodeOK(n)'
  <2>1. Past(n)' /\ Moves(a) /\ \A m : ~Holds(a, m)'
    BY NextOpFacts DEF Inv
  <2>2. \A b \in Agents : ~Holds(b, n)'
    BY <1>2, <2>1, OthersKeep
  <2>3. ~Held(n)' /\ ~Closing(n)' /\ n \notin reqCancel' /\ result'[n] = "none"
    BY <1>1, <1>2, <1>3, <2>2 DEF Held
  <2>4. OnePlace(n)' /\ HeldNodesLive(n)'
    BY <2>1, <2>2, <2>3 DEF OnePlace, HeldNodesLive
  <2>5. CompletesOnce(n)'
    BY <1>1, <1>3 DEF Inv, CompletesOnce
  <2> QED
    BY <2>4, <2>5 DEF NodeOK
<1>13. \A s \in Selects : OneClaim(s)'
  <2>1. pc[a] \notin {"call_recv", "call_send"}
    OBVIOUS
  <2> QED
    BY <2>1, ClaimsSame, LeaveClaims DEF Inv
<1> QED
  BY <1>8, <1>9, <1>10, <1>11, <1>12, <1>13 DEF Inv, NodeOK

\* A step that leaves the program counters of all agents alone, or moves one of
\* them within its operation.
LEMMA StayFacts ==
    ASSUME NEW a \in Agents, at' = at
    PROVE  /\ \A n : Past(n)' <=> Past(n)
           /\ Op(a)' = Op(a) /\ (Emitted(a)' <=> Emitted(a))
  BY DEF Past, Op, Emitted

\* The nodes that agent a neither holds nor takes while it stays in an operation.
LEMMA StayOtherNodes ==
    ASSUME Inv, NEW a \in Agents, Moves(a), at' = at, pc[a] # "call_send", NEW m \in Nodes,
           Holds(a, m)' <=> Holds(a, m), Closing(m)' <=> Closing(m),
           m \in queuedIn' <=> m \in queuedIn, m \in reqCancel' <=> m \in reqCancel,
           m \in told' <=> m \in told, result'[m] = result[m], calls'[m] = calls[m]
    PROVE  NodeOK(m)'
<1>1. \A b \in Agents : Holds(b, m)' <=> Holds(b, m)
  BY OthersKeep
<1>2. Returning(m) => Returning(m)'
  <2>1. \A b \in Agents \ {a} : pc'[b] = pc[b] /\ Op(b)' = Op(b)
    BY OthersKeep DEF Moves
  <2> QED
    BY <2>1 DEF Returning
<1>3. NodeOK(m)
  BY DEF Inv, NodeOK
<1> QED
  BY <1>1, <1>2, <1>3, StayFacts, NodeSame

\* Turned away with an error or with null.
LEMMA TurnAwayInv == ASSUME Inv, NEW a \in Agents, TurnAway(a) PROVE Inv'
<1>1. /\ ~Emitted(a) /\ pc[a] = "begin" /\ lock[Chan[Op(a)]] = None /\ NextOp(a)
      /\ UNCHANGED <<queues, timer, told>> /\ lock' = lock
      /\ Call(Op(a), IF Dir[Op(a)] = "send" /\ Chan[Op(a)] \in closed THEN "error" ELSE "null")
  BY DEF TurnAway, Begins
<1>2. Unlock(a)
  BY <1>1 DEF Unlock, Inv, TypeOK
<1> QED
  BY <1>1, <1>2, LeaveFailed

\* enqueue_impl, from in front of the loop or from within it.
LEMMA EnqueueInv ==
    ASSUME Inv, NEW a \in Agents, ~Emitted(a), pc[a] \in {"begin", "loop"}, Enqueue(Op(a)),
           NextOp(a), lock[Chan[Op(a)]] \in {None, a}, Unlock(a), UNCHANGED <<timer, told>>
    PROVE  Inv'
<1>1. CASE Dir[Op(a)] = "recv" /\ Chan[Op(a)] \in closed
  BY <1>1, LeaveFailed DEF Enqueue
<1>2. CASE ~(Dir[Op(a)] = "recv" /\ Chan[Op(a)] \in closed)
  <2>1. /\ PushesBack(Op(a)) /\ queuedIn' = queuedIn \cup {Op(a)}
        /\ UNCHANGED <<closed, reqCancel, closing, callbacks, timer, told>>
    BY <1>2 DEF Enqueue, PushesBack
  <2> QED
    BY <1>2, <2>1, LeaveQueued
<1> QED
  BY <1>1, <1>2

\* Nobody waits on the other side.
LEMMA WaitInv == ASSUME Inv, NEW a \in Agents, Wait(a) PROVE Inv'
<1>1. /\ ~Emitted(a) /\ pc[a] = "begin" /\ lock[Chan[Op(a)]] = None /\ NextOp(a)
      /\ Enqueue(Op(a)) /\ UNCHANGED <<timer, told>> /\ lock' = lock
  BY DEF Wait, Begins
<1>2. Unlock(a)
  BY <1>1 DEF Unlock, Inv, TypeOK
<1> QED
  BY <1>1, <1>2, EnqueueInv

\* Everybody on the other side was popped in vain.
LEMMA LoopEmptyInv == ASSUME Inv, NEW a \in Agents, LoopEmpty(a) PROVE Inv'
<1>1. /\ pc[a] = "loop" /\ NextOp(a) /\ Enqueue(Op(a)) /\ Unlock(a) /\ UNCHANGED <<timer, told>>
  BY DEF LoopEmpty
<1>2. ~Emitted(a)
  BY <1>1 DEF Inv, InOperation
<1>3. lock[Chan[Op(a)]] = a
  BY <1>1, <1>2, OpFacts DEF Inv, InOperation
<1> QED
  BY <1>1, <1>2, <1>3, EnqueueInv

\* Into the loop, with the mutex.
LEMMA EnterLoopInv == ASSUME Inv, NEW a \in Agents, EnterLoop(a) PROVE Inv'
<1>0. ~Emitted(a) /\ pc[a] = "begin" /\ lock[Chan[Op(a)]] = None
  BY DEF EnterLoop, Begins
<1>1. PICK n \in Nodes : n = Op(a)
  BY <1>0, OpFacts DEF Inv
<1>2. Chan[n] \in Channels /\ Dir[n] \in Dirs /\ ~Past(n)
  BY <1>0, <1>1, OpFacts DEF Inv
<1>3. /\ UNCHANGED <<q, closed, queuedIn, reqCancel, closing, timer, told, at, peer>>
      /\ UNCHANGED <<done, slot, winner, result, calls>> /\ UNCHANGED callbacks
      /\ lock' = [lock EXCEPT ![Chan[n]] = a] /\ pc' = [pc EXCEPT ![a] = "loop"]
      /\ ~TurnedAway(n)
  BY <1>1 DEF EnterLoop, Begins, queues, callbacks
<1>4. TypeOK'
  BY <1>3 DEF Inv, TypeOK
<1>5. Moves(a) /\ pc'[a] = "loop"
  BY <1>3 DEF Moves, Inv, TypeOK
<1>6. QueueClean' /\ \A m \in Nodes : Closing(m)' <=> Closing(m)
  BY <1>3 DEF Inv, QueueClean, Queued, Closing
<1>7. Op(a)' = n /\ ~Emitted(a)' /\ \A m : Past(m)' <=> Past(m)
  BY <1>0, <1>1, <1>3, StayFacts
<1>8. InOperation(a)'
  <2>1. \A c \in Channels : lock[c] # a
    BY <1>0 DEF Inv, InOperation
  <2>2. \A c \in Channels : lock'[c] = a <=> c = Chan[n]
    BY <1>2, <1>3, <2>1 DEF Inv, TypeOK
  <2>3. Dir[n] = "send" => Chan[n] \notin closed'
    BY <1>3 DEF TurnedAway
  <2>4. at'[a] <= Len(Program(a)) + 1
    BY <1>3 DEF Inv, InOperation
  <2> QED
    BY <1>5, <1>7, <2>2, <2>3, <2>4 DEF InOperation
<1>9. ASSUME NEW b \in Agents \ {a} PROVE InOperation(b)'
  <2>1. \A c \in Channels : lock'[c] = b <=> lock[c] = b
    BY <1>0, <1>1, <1>2, <1>3, NoneFacts DEF Inv, TypeOK
  <2> QED
    BY <1>3, <1>5, <1>7, <2>1, OthersInOperation DEF Inv, InOperation
<1>10. ASSUME NEW m \in Nodes \ {n} PROVE NodeOK(m)'
  <2>1. ~Holds(a, m) /\ ~Holds(a, m)'
    BY <1>0, <1>5, <1>7 DEF Holds
  <2> QED
    BY <1>0, <1>3, <1>5, <1>6, <2>1, StayOtherNodes
<1>11. NodeOK(n)'
  <2>1. /\ ~Closing(n) /\ n \notin queuedIn \cup reqCancel \cup told /\ result[n] = "none"
        /\ \A b \in Agents \ {a} : ~Holds(b, n)
    BY <1>0, <1>1, OpIsFree
  <2>2. \A b \in Agents \ {a} : ~Holds(b, n)'
    BY <1>5, <2>1, OthersKeep
  <2>3. OnePlace(n)' /\ HeldNodesLive(n)'
    BY <1>3, <1>6, <2>1, <2>2 DEF OnePlace, HeldNodesLive
  <2>4. CompletesOnce(n)'
    BY <1>3 DEF Inv, CompletesOnce
  <2> QED
    BY <2>3, <2>4 DEF NodeOK
<1>12. \A s \in Selects : OneClaim(s)'
  <2>1. \A s : ~Claimant(a, s) /\ ~Claimant(a, s)'
    BY <1>0, <1>5 DEF Claimant
  <2>2. \A b \in Agents, s \in Selects : Claimant(b, s)' <=> Claimant(b, s)
    BY <1>5, <2>1, OthersKeep
  <2> QED
    BY <1>3, <2>2, ClaimsSame DEF Inv
<1> QED
  BY <1>4, <1>6, <1>8, <1>9, <1>10, <1>11, <1>12 DEF Inv, NodeOK

\* What the loop is in the middle of.
LEMMA LoopFacts ==
    ASSUME Inv, NEW a \in Agents, pc[a] \in {"loop", "failed"}
    PROVE  /\ ~Emitted(a) /\ Op(a) \in Nodes /\ ~Past(Op(a))
           /\ Chan[Op(a)] \in Channels /\ Dir[Op(a)] \in Dirs
           /\ lock[Chan[Op(a)]] = a
<1>1. ~Emitted(a)
  BY DEF Inv, InOperation
<1>2. /\ Op(a) \in Nodes /\ ~Past(Op(a)) /\ Chan[Op(a)] \in Channels /\ Dir[Op(a)] \in Dirs
  BY <1>1, OpFacts DEF Inv
<1> QED
  BY <1>1, <1>2 DEF Inv, InOperation

\* The node that is popped was waiting on the other side and nobody had it.
LEMMA PoppedFacts ==
    ASSUME Inv, NEW a \in Agents, pc[a] = "loop", Opposite(Op(a)) # <<>>,
           NEW m, m = Head(Opposite(Op(a)))
    PROVE  /\ m \in Nodes /\ m \in queuedIn /\ Past(m) /\ m # Op(a)
           /\ Chan[m] = Chan[Op(a)] /\ Dir[m] = Other(Dir[Op(a)])
           /\ m \notin reqCancel /\ result[m] = "none" /\ ~Closing(m)
           /\ \A b \in Agents : ~Holds(b, m)
<1>1. Op(a) \in Nodes /\ ~Past(Op(a)) /\ Chan[Op(a)] \in Channels /\ Dir[Op(a)] \in Dirs
  BY LoopFacts
<1>2. Other(Dir[Op(a)]) \in Dirs
  BY DEF Other, Dirs
<1>3. Opposite(Op(a)) \in Seq(Nodes)
  BY <1>1, <1>2 DEF Opposite, Inv, TypeOK, Dirs
<1>4. m \in Nodes /\ m \in ToSet(Opposite(Op(a)))
  BY <1>3, TailFacts
<1>5. Chan[m] = Chan[Op(a)] /\ Dir[m] = Other(Dir[Op(a)])
  BY <1>1, <1>2, <1>4 DEF Opposite, Inv, QueueClean, Dirs
<1>6. m \in queuedIn
  BY <1>4, <1>5 DEF Opposite, Inv, QueueClean, Queued
<1>7. queuedIn \cap reqCancel = {}
  BY DEF Inv, QueueClean
<1>8. /\ Past(m) /\ result[m] = "none" /\ ~Closing(m) /\ ~Held(m)
  BY <1>4, <1>6 DEF Inv, OnePlace, HeldNodesLive
<1> QED
  BY <1>1, <1>4, <1>5, <1>6, <1>7, <1>8 DEF Held

\* The queues after pop_front.
LEMMA PopQueues ==
    ASSUME Inv, NEW a \in Agents, Pop(a), NEW m, m = Head(Opposite(Op(a)))
    PROVE  /\ QueueClean' /\ q' \in [Channels -> [Dirs -> Seq(Nodes)]]
           /\ \A k \in Nodes : Closing(k)' <=> Closing(k)
           /\ UNCHANGED <<closed, reqCancel, closing, timer, told, at>>
<1>0. pc[a] = "loop" /\ Opposite(Op(a)) # <<>>
  BY DEF Pop
<1> DEFINE c0 == Chan[m]
           d0 == Dir[m]
<1>1. /\ m \in Nodes /\ m \in queuedIn /\ c0 = Chan[Op(a)] /\ d0 = Other(Dir[Op(a)])
      /\ c0 \in Channels /\ d0 \in Dirs
  BY <1>0, PoppedFacts, NodeTypes
<1>2. /\ q' = [q EXCEPT ![c0][d0] = Tail(@)] /\ queuedIn' = queuedIn \ {m}
      /\ UNCHANGED <<closed, reqCancel, closing, timer, told, at>>
  BY <1>1 DEF Pop
<1>3. q \in [Channels -> [Dirs -> Seq(Nodes)]] /\ q[c0][d0] = Opposite(Op(a))
  BY <1>1 DEF Inv, TypeOK, Dirs, Opposite
<1>4. q[c0][d0] \in Seq(Nodes) /\ IsInjective(q[c0][d0])
  BY <1>1, <1>3 DEF Inv, QueueClean, Dirs
<1>5. /\ Tail(q[c0][d0]) \in Seq(Nodes) /\ IsInjective(Tail(q[c0][d0]))
      /\ ToSet(q[c0][d0]) = ToSet(Tail(q[c0][d0])) \cup {m} /\ m \notin ToSet(Tail(q[c0][d0]))
  BY <1>0, <1>3, <1>4, TailFacts
<1>6. /\ q' \in [Channels -> [Dirs -> Seq(Nodes)]] /\ q'[c0][d0] = Tail(q[c0][d0])
      /\ \A c \in Channels, d \in Dirs : c # c0 \/ d # d0 => q'[c][d] = q[c][d]
  BY <1>1, <1>2, <1>3, <1>5
<1> HIDE DEF c0, d0
<1>7. ASSUME NEW c \in Channels, NEW d \in Dirs
      PROVE  IsInjective(q'[c][d]) /\ \A k \in ToSet(q'[c][d]) : Chan[k] = c /\ Dir[k] = d
  BY <1>5, <1>6 DEF Inv, QueueClean, Dirs
<1>8. \A k \in Nodes : Queued(k)' <=> Queued(k) /\ k # m
  <2> TAKE k \in Nodes
  <2>1. CASE Chan[k] = c0 /\ Dir[k] = d0
    BY <1>5, <1>6, <2>1 DEF Queued
  <2>2. CASE ~(Chan[k] = c0 /\ Dir[k] = d0)
    BY <1>6, <2>2, NodeTypes DEF Queued, c0, d0
  <2> QED
    BY <2>1, <2>2
<1>9. \A c \in closed : q'[c]["recv"] = <<>>
  <2> TAKE c \in closed
  <2>1. c \in Channels /\ q[c]["recv"] = <<>>
    BY DEF Inv, TypeOK, QueueClean
  <2>2. c # c0 \/ "recv" # d0
    BY <1>0, <1>3, <2>1
  <2> QED
    BY <1>6, <2>1, <2>2 DEF Dirs
<1>10. QueueClean'
  <2>1. queuedIn' = {k \in Nodes : Queued(k)'}
    BY <1>2, <1>8 DEF Inv, QueueClean
  <2> QED
    BY <1>2, <1>7, <1>9, <2>1 DEF Inv, QueueClean, Dirs
<1> QED
  BY <1>2, <1>6, <1>10 DEF Closing

\* pop_front, and the kcas of try_fulfill_impl.
LEMMA PopInv == ASSUME Inv, NEW a \in Agents, Pop(a) PROVE Inv'
<1>0. pc[a] = "loop" /\ Opposite(Op(a)) # <<>>
  BY DEF Pop
<1>1. PICK n \in Nodes : n = Op(a)
  BY <1>0, LoopFacts
<1>2. PICK m \in Nodes : m = Head(Opposite(n))
  BY <1>0, <1>1, PoppedFacts
<1>3. /\ ~Emitted(a) /\ ~Past(n) /\ Chan[n] \in Channels /\ Dir[n] \in Dirs /\ lock[Chan[n]] = a
  BY <1>0, <1>1, LoopFacts
<1>4. /\ m \in queuedIn /\ Past(m) /\ m # n /\ Chan[m] = Chan[n] /\ Dir[m] = Other(Dir[n])
      /\ m \notin reqCancel /\ result[m] = "none" /\ ~Closing(m) /\ \A b \in Agents : ~Holds(b, m)
  BY <1>0, <1>1, <1>2, PoppedFacts
<1>5. /\ QueueClean' /\ q' \in [Channels -> [Dirs -> Seq(Nodes)]]
      /\ \A k \in Nodes : Closing(k)' <=> Closing(k)
      /\ UNCHANGED <<closed, reqCancel, closing, timer, told, at>>
  BY <1>1, <1>2, PopQueues
<1>6. /\ queuedIn' = queuedIn \ {m} /\ peer' = [peer EXCEPT ![a] = m]
      /\ UNCHANGED <<slot, winner, result, calls>>
      /\ IF CanClaim(n, m)
         THEN /\ done' = done \cup Claims(n, m) /\ pc' = [pc EXCEPT ![a] = "call_recv"]
              /\ Unlock(a)
         ELSE done' = done /\ lock' = lock /\ pc' = [pc EXCEPT ![a] = "failed"]
  BY <1>1, <1>2 DEF Pop
<1>7. Claims(n, m) \subseteq Selects
  BY SelectOfNode DEF Claims
<1>8. /\ lock' \in [Channels -> Agents \cup {None}]
      /\ \A c \in Channels : lock'[c] = a <=> ~CanClaim(n, m) /\ c = Chan[n]
      /\ \A b \in Agents \ {a}, c \in Channels : lock'[c] = b <=> lock[c] = b
  <2>1. \A c \in Channels : lock[c] = a <=> c = Chan[n]
    BY <1>0, <1>1 DEF Inv, InOperation
  <2>2. CASE CanClaim(n, m)
    BY <1>1, <1>3, <1>6, <2>2, UnlockFacts DEF Inv
  <2>3. CASE ~CanClaim(n, m)
    BY <1>6, <2>1, <2>3 DEF Inv, TypeOK
  <2> QED
    BY <2>2, <2>3
<1>9. /\ Moves(a) /\ pc'[a] = (IF CanClaim(n, m) THEN "call_recv" ELSE "failed") /\ peer'[a] = m
      /\ pc' \in [Agents -> {"begin", "loop", "failed", "call_recv", "call_send"}]
      /\ peer' \in [Agents -> Nodes \cup {None}]
  <2>1. pc' = [pc EXCEPT ![a] = IF CanClaim(n, m) THEN "call_recv" ELSE "failed"] /\ at' = at
    BY <1>5, <1>6
  <2> QED
    BY <1>6, <2>1 DEF Moves, Inv, TypeOK
<1>10. TypeOK'
  BY <1>5, <1>6, <1>7, <1>8, <1>9 DEF Inv, TypeOK, Dirs
<1>11. Op(a)' = n /\ ~Emitted(a)' /\ \A k : Past(k)' <=> Past(k)
  BY <1>1, <1>3, <1>5, StayFacts
<1>12. InOperation(a)'
  <2>1. at'[a] <= Len(Program(a)) + 1
    BY <1>5 DEF Inv, InOperation
  <2>2. Dir[n] = "send" => Chan[n] \notin closed'
    BY <1>0, <1>1, <1>5 DEF Inv, InOperation
  <2>3. CanClaim(n, m) => ~SameSelect(n, m)
    BY DEF CanClaim
  <2> QED
    BY <1>4, <1>5, <1>8, <1>9, <1>11, <2>1, <2>2, <2>3 DEF InOperation
<1>13. ASSUME NEW b \in Agents \ {a} PROVE InOperation(b)'
  BY <1>5, <1>8, <1>9, <1>11, OthersInOperation DEF Inv, InOperation
<1>14. \A k : Holds(a, k)' <=> k \in {n, m}
  BY <1>9, <1>11 DEF Holds
<1>15. \A k : Holds(a, k) <=> k = n
  BY <1>0, <1>1 DEF Holds
<1>16. ASSUME NEW k \in Nodes \ {m} PROVE NodeOK(k)'
  BY <1>0, <1>5, <1>6, <1>9, <1>14, <1>15, StayOtherNodes
<1>17. NodeOK(m)'
  <2>1. \A b \in Agents \ {a} : ~Holds(b, m)'
    BY <1>4, <1>9, OthersKeep
  <2>2. ~Closing(m)' /\ m \notin queuedIn' \cup reqCancel' /\ Past(m)' /\ result'[m] = "none"
    BY <1>4, <1>5, <1>6, <1>11
  <2>3. OnePlace(m)' /\ HeldNodesLive(m)'
    BY <2>1, <2>2 DEF OnePlace, HeldNodesLive
  <2>4. CompletesOnce(m)'
    BY <1>6 DEF Inv, CompletesOnce
  <2> QED
    BY <2>3, <2>4 DEF NodeOK
<1>18. ASSUME NEW s \in Selects PROVE OneClaim(s)'
  <2>1. \A b \in Agents \ {a} : Claimant(b, s)' <=> Claimant(b, s)
    BY <1>9, OthersKeep
  <2>2. ~Claimant(a, s)
    BY <1>0 DEF Claimant
  <2>3. Claimant(a, s)' <=> CanClaim(n, m) /\ s \in Claims(n, m)
    BY <1>9, <1>11 DEF Claimant
  <2>4. s \in done' <=> s \in done \/ (CanClaim(n, m) /\ s \in Claims(n, m))
    BY <1>6
  <2>5. CanClaim(n, m) /\ s \in Claims(n, m) => s \notin done
    BY DEF CanClaim
  <2>6. OneClaim(s)
    BY DEF Inv
  <2> QED
    BY <1>6, <2>1, <2>2, <2>3, <2>4, <2>5, <2>6 DEF OneClaim
<1> QED
  BY <1>5, <1>10, <1>12, <1>13, <1>16, <1>17, <1>18 DEF Inv, NodeOK

\* The node an agent has popped is its own.
LEMMA PeerFacts ==
    ASSUME Inv, NEW a \in Agents, pc[a] \in {"failed", "call_recv", "call_send"}
    PROVE  /\ ~Emitted(a) /\ Op(a) \in Nodes /\ ~Past(Op(a)) /\ peer[a] \in Nodes
           /\ Past(peer[a]) /\ peer[a] # Op(a)
           /\ Chan[peer[a]] = Chan[Op(a)] /\ Dir[peer[a]] = Other(Dir[Op(a)])
           /\ Chan[Op(a)] \in Channels /\ Dir[Op(a)] \in Dirs
<1>1. ~Emitted(a) /\ peer[a] \in Nodes /\ Past(peer[a])
      /\ Chan[peer[a]] = Chan[Op(a)] /\ Dir[peer[a]] = Other(Dir[Op(a)])
  BY DEF Inv, InOperation
<1>2. Op(a) \in Nodes /\ ~Past(Op(a)) /\ Chan[Op(a)] \in Channels /\ Dir[Op(a)] \in Dirs
  BY <1>1, OpFacts DEF Inv
<1> QED
  BY <1>1, <1>2

\* What is held is in no queue, and not called.
LEMMA HeldFacts ==
    ASSUME Inv, NEW a \in Agents, NEW n \in Nodes, Holds(a, n)
    PROVE  /\ ~Closing(n) /\ n \notin queuedIn /\ n \notin reqCancel \ told
           /\ result[n] = "none" /\ \A b \in Agents \ {a} : ~Holds(b, n)
<1>1. Held(n)
  BY DEF Held
<1> QED
  BY <1>1 DEF Inv, OnePlace, HeldNodesLive

\* The kcas failed because the select of the popped node is decided: the node is
\* marked, and the loop goes on.
LEMMA FailedDropsInv ==
    ASSUME Inv, NEW a \in Agents, AfterFailure(a), SelectOf(peer[a]) \in done
    PROVE  Inv'
<1>0. pc[a] = "failed"
  BY DEF AfterFailure
<1>1. PICK n \in Nodes : n = Op(a)
  BY <1>0, PeerFacts
<1>2. PICK m \in Nodes : m = peer[a]
  BY <1>0, PeerFacts
<1>3. /\ ~Emitted(a) /\ ~Past(n) /\ Past(m) /\ m # n /\ Chan[n] \in Channels
  BY <1>0, <1>1, <1>2, PeerFacts
<1>4. /\ reqCancel' = reqCancel \cup {m} /\ pc' = [pc EXCEPT ![a] = "loop"]
      /\ peer' = [peer EXCEPT ![a] = None]
      /\ UNCHANGED <<q, queuedIn, lock, at, closed, closing, timer, told>>
      /\ UNCHANGED <<done, slot, winner, result, calls>> /\ UNCHANGED callbacks
  BY <1>2 DEF AfterFailure, callbacks
<1>5. /\ ~Closing(m) /\ m \notin queuedIn /\ result[m] = "none" /\ m \notin reqCancel /\ m \notin told
      /\ \A b \in Agents \ {a} : ~Holds(b, m)
  <2>1. Holds(a, m)
    BY <1>0, <1>2 DEF Holds
  <2>2. m \notin reqCancel
    BY <1>0, <1>2 DEF Inv, InOperation
  <2>3. told \subseteq reqCancel
    BY DEF Inv, QueueClean
  <2> QED
    BY <2>1, <2>2, <2>3, HeldFacts
<1>6. Moves(a) /\ pc'[a] = "loop"
  BY <1>4 DEF Moves, Inv, TypeOK
<1>7. TypeOK'
  BY <1>4 DEF Inv, TypeOK
<1>8. \A k \in Nodes : Closing(k)' <=> Closing(k)
  BY <1>4 DEF Closing
<1>9. QueueClean'
  BY <1>4, <1>5 DEF Inv, QueueClean, Queued
<1>10. Op(a)' = n /\ ~Emitted(a)' /\ \A k : Past(k)' <=> Past(k)
  BY <1>1, <1>3, <1>4, StayFacts
<1>11. InOperation(a)'
  <2>1. /\ at'[a] <= Len(Program(a)) + 1 /\ (Dir[n] = "send" => Chan[n] \notin closed')
        /\ \A c \in Channels : lock'[c] = a <=> c = Chan[n]
    BY <1>0, <1>1, <1>4 DEF Inv, InOperation
  <2> QED
    BY <1>6, <1>10, <2>1 DEF InOperation
<1>12. ASSUME NEW b \in Agents \ {a} PROVE InOperation(b)'
  <2>1. pc[b] = "failed" => peer[b] # m
    BY <1>5 DEF Holds
  <2>2. pc[b] = "failed" => peer[b] \notin reqCancel'
    BY <1>4, <2>1 DEF Inv, InOperation
  <2> QED
    BY <1>4, <1>6, <1>10, <2>2, OthersInOperation DEF Inv
<1>13. \A k : (Holds(a, k)' <=> k = n) /\ (Holds(a, k) <=> k \in {n, m})
  BY <1>0, <1>1, <1>2, <1>6, <1>10 DEF Holds
<1>14. ASSUME NEW k \in Nodes \ {m} PROVE NodeOK(k)'
  BY <1>0, <1>4, <1>6, <1>8, <1>13, StayOtherNodes
<1>15. NodeOK(m)'
  <2>1. \A b \in Agents : ~Holds(b, m)'
    BY <1>3, <1>5, <1>6, <1>13, OthersKeep
  <2>2. ~Held(m)' /\ ~Closing(m)' /\ m \notin queuedIn' /\ Past(m)' /\ result'[m] = "none"
    BY <1>3, <1>4, <1>5, <1>8, <1>10, <2>1 DEF Held
  <2>3. OnePlace(m)' /\ HeldNodesLive(m)'
    BY <2>1, <2>2 DEF OnePlace, HeldNodesLive
  <2>4. CompletesOnce(m)'
    BY <1>4 DEF Inv, CompletesOnce
  <2> QED
    BY <2>3, <2>4 DEF NodeOK
<1>16. \A s \in Selects : OneClaim(s)'
  <2>1. \A s : ~Claimant(a, s) /\ ~Claimant(a, s)'
    BY <1>0, <1>6 DEF Claimant
  <2>2. \A b \in Agents, s \in Selects : Claimant(b, s)' <=> Claimant(b, s)
    BY <1>6, <2>1, OthersKeep
  <2> QED
    BY <1>4, <2>2, ClaimsSame DEF Inv
<1> QED
  BY <1>7, <1>9, <1>11, <1>12, <1>14, <1>15, <1>16 DEF Inv, NodeOK

\* The queues after push_front of the popped node.
LEMMA BackQueues ==
    ASSUME Inv, NEW a \in Agents, pc[a] = "failed", NEW n \in Nodes, n = Op(a),
           NEW m \in Nodes, m = peer[a],
           PushesFront(m), queuedIn' = queuedIn \cup {m}, reqCancel' = reqCancel \cup {n},
           UNCHANGED <<closed, closing, told>>
    PROVE  QueueClean' /\ q' \in [Channels -> [Dirs -> Seq(Nodes)]]
<1> DEFINE c0 == Chan[m]
           d0 == Dir[m]
<1>1. /\ c0 = Chan[n] /\ d0 = Other(Dir[n]) /\ c0 \in Channels /\ d0 \in Dirs /\ m # n
      /\ Dir[n] \in Dirs /\ ~Emitted(a)
  BY PeerFacts, NodeTypes
<1>2. m \notin queuedIn /\ m \notin reqCancel /\ n \notin queuedIn
  <2>1. Holds(a, m)
    BY DEF Holds
  <2> QED
    BY <1>1, <2>1, HeldFacts, OpIsFree DEF Inv, InOperation
<1>3. q \in [Channels -> [Dirs -> Seq(Nodes)]]
  BY DEF Inv, TypeOK, Dirs
<1>4. q[c0][d0] \in Seq(Nodes) /\ IsInjective(q[c0][d0]) /\ m \notin ToSet(q[c0][d0])
  BY <1>1, <1>2, <1>3 DEF Inv, QueueClean, Dirs, Queued
<1>5. /\ <<m>> \o q[c0][d0] \in Seq(Nodes) /\ IsInjective(<<m>> \o q[c0][d0])
      /\ ToSet(<<m>> \o q[c0][d0]) = ToSet(q[c0][d0]) \cup {m}
  <2>1. /\ <<m>> \o q[c0][d0] \in Seq(Nodes)
        /\ ToSet(<<m>> \o q[c0][d0]) = ToSet(q[c0][d0]) \cup {m}
    BY <1>4, ConsFacts
  <2>2. IsInjective(<<m>> \o q[c0][d0])
    BY <1>4, ConsFacts
  <2> QED
    BY <2>1, <2>2
<1>6. /\ q' \in [Channels -> [Dirs -> Seq(Nodes)]] /\ q'[c0][d0] = <<m>> \o q[c0][d0]
      /\ \A c \in Channels, d \in Dirs : c # c0 \/ d # d0 => q'[c][d] = q[c][d]
  <2>1. q' = [q EXCEPT ![c0][d0] = <<m>> \o q[c0][d0]]
    BY <1>1, <1>3 DEF PushesFront
  <2> QED
    BY <1>1, <1>3, <1>5, <2>1, QueueUpdate
<1>7. c0 \in closed => d0 # "recv"
  BY <1>1 DEF Inv, InOperation, Other, Dirs
<1> HIDE DEF c0, d0
<1>8. ASSUME NEW c \in Channels, NEW d \in Dirs
      PROVE  IsInjective(q'[c][d]) /\ \A k \in ToSet(q'[c][d]) : Chan[k] = c /\ Dir[k] = d
  <2>1. CASE c = c0 /\ d = d0
    <3>1. \A k \in ToSet(q[c0][d0]) : Chan[k] = c0 /\ Dir[k] = d0
      BY <1>1 DEF Inv, QueueClean, Dirs
    <3>2. Chan[m] = c0 /\ Dir[m] = d0
      BY DEF c0, d0
    <3> QED
      BY <1>5, <1>6, <2>1, <3>1, <3>2
  <2>2. CASE c # c0 \/ d # d0
    <3>1. q'[c][d] = q[c][d]
      BY <1>6, <2>2
    <3> QED
      BY <3>1 DEF Inv, QueueClean, Dirs
  <2> QED
    BY <2>1, <2>2
<1>9. \A k \in Nodes : Queued(k)' <=> Queued(k) \/ k = m
  <2> TAKE k \in Nodes
  <2>1. CASE Chan[k] = c0 /\ Dir[k] = d0
    BY <1>5, <1>6, <2>1 DEF Queued
  <2>2. CASE ~(Chan[k] = c0 /\ Dir[k] = d0)
    BY <1>6, <2>2, NodeTypes DEF Queued, c0, d0
  <2> QED
    BY <2>1, <2>2
<1>10. \A c \in closed : q'[c]["recv"] = q[c]["recv"]
  BY <1>6, <1>7 DEF Inv, TypeOK, Dirs
<1>11. queuedIn' = {k \in Nodes : Queued(k)'}
  BY <1>9 DEF Inv, QueueClean
<1>12. queuedIn' \cap reqCancel' = {} /\ told' \subseteq reqCancel'
  BY <1>1, <1>2 DEF Inv, QueueClean
<1>13. \A c \in Channels :
           /\ IsInjective(closing'[c]) /\ \A k \in ToSet(closing'[c]) : Chan[k] = c
           /\ IF c \in closed' THEN q'[c]["recv"] = <<>> ELSE closing'[c] = <<>>
  BY <1>10 DEF Inv, QueueClean
<1> QED
  BY <1>6, <1>8, <1>11, <1>12, <1>13 DEF QueueClean, Dirs

\* The kcas failed because the select of the incoming node is decided: the popped
\* node goes back to the front, and the incoming one is marked.
LEMMA FailedBackInv ==
    ASSUME Inv, NEW a \in Agents, AfterFailure(a), SelectOf(peer[a]) \notin done
    PROVE  Inv'
<1>0. pc[a] = "failed"
  BY DEF AfterFailure
<1>1. PICK n \in Nodes : n = Op(a)
  BY <1>0, PeerFacts
<1>2. PICK m \in Nodes : m = peer[a]
  BY <1>0, PeerFacts
<1>3. /\ ~Emitted(a) /\ ~Past(n) /\ Past(m) /\ m # n /\ lock[Chan[n]] = a
      /\ Chan[m] = Chan[n]
  BY <1>0, <1>1, <1>2, PeerFacts, LoopFacts
<1>4. /\ PushesFront(m) /\ queuedIn' = queuedIn \cup {m}
      /\ reqCancel' = reqCancel \cup {n} /\ Unlock(a) /\ NextOp(a)
      /\ UNCHANGED <<closed, closing, timer, told>>
      /\ UNCHANGED <<done, slot, winner, result, calls>> /\ UNCHANGED callbacks
  BY <1>1, <1>2, <1>3 DEF AfterFailure, callbacks, PushesFront
<1>5. QueueClean' /\ q' \in [Channels -> [Dirs -> Seq(Nodes)]]
  BY <1>0, <1>1, <1>2, <1>4, BackQueues
<1>6. TypeOK'
  BY <1>1, <1>3, <1>4, <1>5, NextOpFacts, UnlockFacts DEF Inv, TypeOK, Dirs
<1>7. \A k \in Nodes : Closing(k)' <=> Closing(k)
  BY <1>4 DEF Closing
<1>8. \A b \in Agents : InOperation(b)'
  BY <1>1, <1>3, <1>4, LeaveInOperation, UnlockFacts DEF Inv
<1>9. \A k : Holds(a, k) <=> k \in {n, m}
  BY <1>0, <1>1, <1>2 DEF Holds
<1>10. ASSUME NEW k \in Nodes \ {n, m} PROVE NodeOK(k)'
  BY <1>1, <1>3, <1>4, <1>7, <1>9, LeaveOtherNodes
<1>11. \A b \in Agents : ~Holds(b, n)' /\ ~Holds(b, m)'
  <2>1. \A b \in Agents \ {a} : ~Holds(b, n) /\ ~Holds(b, m)
    BY <1>9, HeldFacts
  <2>2. Moves(a) /\ ~Holds(a, n)' /\ ~Holds(a, m)'
    BY <1>3, <1>4, NextOpFacts DEF Inv
  <2> QED
    BY <2>1, <2>2, OthersKeep
<1>12. Past(n)' /\ Past(m)' /\ ~Held(n)' /\ ~Held(m)'
  BY <1>1, <1>3, <1>4, <1>11, NextOpFacts DEF Inv, Held
<1>13. /\ ~Closing(n)' /\ ~Closing(m)' /\ n \notin queuedIn' /\ m \notin reqCancel'
       /\ result'[n] = "none" /\ result'[m] = "none"
  <2>1. m \notin reqCancel
    BY <1>0, <1>2 DEF Inv, InOperation
  <2> QED
    BY <1>3, <1>4, <1>7, <1>9, <2>1, HeldFacts
<1>14. OnePlace(n)' /\ HeldNodesLive(n)'
  BY <1>11, <1>12, <1>13 DEF OnePlace, HeldNodesLive
<1>15. OnePlace(m)' /\ HeldNodesLive(m)'
  BY <1>11, <1>12, <1>13 DEF OnePlace, HeldNodesLive
<1>16. CompletesOnce(n)' /\ CompletesOnce(m)'
  BY <1>4 DEF Inv, CompletesOnce
<1>17. \A s \in Selects : OneClaim(s)'
  BY <1>0, <1>3, <1>4, ClaimsSame, LeaveClaims DEF Inv
<1> QED
  BY <1>5, <1>6, <1>8, <1>10, <1>14, <1>15, <1>16, <1>17 DEF Inv, NodeOK

\* The receiver is called, the sender still has to be.
LEMMA CallRecvInv == ASSUME Inv, NEW a \in Agents, CallRecv(a) PROVE Inv'
<1>0. pc[a] = "call_recv"
  BY DEF CallRecv
<1>1. PICK r \in Nodes : r = NodeOf(a, "recv")
  BY <1>0, PeerFacts DEF NodeOf
<1>2. PICK x \in Nodes : x = NodeOf(a, "send")
  BY <1>0, PeerFacts DEF NodeOf
<1>3. /\ {r, x} = {Op(a), peer[a]} /\ r # x /\ Dir[r] = "recv" /\ Dir[x] = "send"
      /\ ~Emitted(a) /\ ~Past(Op(a)) /\ Past(peer[a])
  BY <1>0, <1>1, <1>2, PeerFacts DEF NodeOf, Other, Dirs
<1>4. /\ Call(r, "value") /\ pc' = [pc EXCEPT ![a] = "call_send"] /\ UNCHANGED <<at, peer>>
      /\ UNCHANGED <<q, closed, queuedIn, reqCancel, closing, lock, timer, told>>
  BY <1>1 DEF CallRecv, queues
<1>5. CallbackTypes
  BY DEF Inv, TypeOK, CallbackTypes
<1>6. Moves(a) /\ pc'[a] = "call_send" /\ peer'[a] = peer[a]
  BY <1>4 DEF Moves, Inv, TypeOK
<1>7. TypeOK'
  BY <1>4, <1>5, CallFields DEF Inv, TypeOK, CallbackTypes
<1>8. QueueClean' /\ \A k \in Nodes : Closing(k)' <=> Closing(k)
  BY <1>4 DEF Inv, QueueClean, Queued, Closing
<1>9. /\ Op(a)' = Op(a) /\ ~Emitted(a)' /\ (\A k : Past(k)' <=> Past(k))
      /\ NodeOf(a, "send")' = x
  <2>1. Op(a)' = Op(a) /\ ~Emitted(a)' /\ \A k : Past(k)' <=> Past(k)
    BY <1>3, <1>4, StayFacts
  <2> QED
    BY <1>2, <1>6, <2>1 DEF NodeOf
<1>10. InOperation(a)'
  <2>1. /\ at'[a] <= Len(Program(a)) + 1 /\ \A c \in Channels : lock'[c] # a
    BY <1>0, <1>4 DEF Inv, InOperation
  <2> QED
    BY <1>0, <1>6, <1>9, <2>1, PeerFacts DEF InOperation
<1>11. ASSUME NEW b \in Agents \ {a} PROVE InOperation(b)'
  BY <1>4, <1>6, <1>9, OthersInOperation DEF Inv, InOperation
<1>12. \A k : (Holds(a, k) <=> k \in {r, x}) /\ (Holds(a, k)' <=> k = x)
  BY <1>0, <1>3, <1>6, <1>9 DEF Holds
<1>13. ASSUME NEW k \in Nodes \ {r} PROVE NodeOK(k)'
  <2>1. result'[k] = result[k] /\ calls'[k] = calls[k]
    BY <1>4, <1>5, CallFields
  <2> QED
    BY <1>0, <1>4, <1>6, <1>8, <1>12, <2>1, StayOtherNodes
<1>14. NodeOK(r)'
  <2>1. /\ ~Closing(r) /\ r \notin queuedIn /\ r \notin reqCancel \ told /\ result[r] = "none"
        /\ \A b \in Agents \ {a} : ~Holds(b, r)
    BY <1>12, HeldFacts
  <2>2. \A b \in Agents : ~Holds(b, r)'
    BY <1>3, <1>6, <1>12, <2>1, OthersKeep
  <2>3. ~Held(r)' /\ ~Closing(r)' /\ r \notin queuedIn' /\ r \notin reqCancel' \ told'
    BY <1>4, <1>8, <2>1, <2>2 DEF Held
  <2>4. ~Past(r) => Returning(r)' /\ r \notin reqCancel
    BY <1>3, <1>6, <1>9, OpIsFree DEF Returning
  <2>5. OnePlace(r)' /\ HeldNodesLive(r)'
    BY <1>4, <1>9, <2>2, <2>3, <2>4 DEF OnePlace, HeldNodesLive
  <2>6. CompletesOnce(r)'
    BY <1>4, <1>5, <2>1, CompletesNow DEF Inv
  <2> QED
    BY <2>5, <2>6 DEF NodeOK
<1>15. \A s \in Selects : OneClaim(s)'
  <2>1. SelectOf(r) # None => SelectOf(r) \in Selects /\ SelectOf(r) # SelectOf(x)
    BY <1>0, <1>3, SelectOfNode DEF Inv, InOperation, SameSelect
  <2>2. \A s \in Selects : Claimant(a, s) <=> s \in {SelectOf(r), SelectOf(x)}
    <3>1. Claims(Op(a), peer[a]) = {SelectOf(r), SelectOf(x)} \ {None}
      BY <1>3 DEF Claims
    <3> QED
      BY <1>0, <3>1, NoneFacts DEF Claimant
  <2>3. \A s \in Selects : Claimant(a, s)' <=> s = SelectOf(x)
    BY <1>6, <1>9 DEF Claimant
  <2>4. \A s \in Selects \ {SelectOf(r)}, b \in Agents : Claimant(b, s)' <=> Claimant(b, s)
    BY <1>6, <2>2, <2>3, OthersKeep
  <2>5. SelectOf(r) # None =>
            /\ \E b \in Agents : Claimant(b, SelectOf(r))
            /\ \A b \in Agents : ~Claimant(b, SelectOf(r))'
    <3> SUFFICES ASSUME SelectOf(r) # None
                 PROVE  /\ Claimant(a, SelectOf(r))
                        /\ \A b \in Agents : ~Claimant(b, SelectOf(r))'
      OBVIOUS
    <3>1. Claimant(a, SelectOf(r)) /\ ~Claimant(a, SelectOf(r))'
      BY <2>1, <2>2, <2>3
    <3>2. \A b \in Agents \ {a} : ~Claimant(b, SelectOf(r))
      BY <2>1, <3>1 DEF Inv, OneClaim
    <3> QED
      BY <1>6, <3>1, <3>2, OthersKeep
  <2>6. result[r] = "none"
    BY <1>12, HeldFacts
  <2> QED
    BY <1>4, <1>5, <2>4, <2>5, <2>6, CallSucceeds DEF Inv
<1> QED
  BY <1>7, <1>8, <1>10, <1>11, <1>13, <1>14, <1>15 DEF Inv, NodeOK

\* The sender is called, and the operation is over.
LEMMA CallSendInv == ASSUME Inv, NEW a \in Agents, CallSend(a) PROVE Inv'
<1>0. pc[a] = "call_send"
  BY DEF CallSend
<1>1. PICK x \in Nodes : x = NodeOf(a, "send")
  BY <1>0, PeerFacts DEF NodeOf
<1>2. PICK n \in Nodes : n = Op(a)
  BY <1>0, PeerFacts
<1>3. ~Emitted(a) /\ ~Past(n) /\ x \in {n, peer[a]} /\ Past(peer[a])
  BY <1>0, <1>1, <1>2, PeerFacts DEF NodeOf
<1>4. /\ Call(x, "value") /\ NextOp(a)
      /\ UNCHANGED <<q, closed, queuedIn, reqCancel, closing, lock, timer, told>>
  BY <1>1 DEF CallSend, queues
<1>5. CallbackTypes
  BY DEF Inv, TypeOK, CallbackTypes
<1>6. TypeOK'
  BY <1>3, <1>4, <1>5, CallFields, NextOpFacts DEF Inv, TypeOK, CallbackTypes
<1>7. QueueClean' /\ \A k \in Nodes : Closing(k)' <=> Closing(k)
  BY <1>4 DEF Inv, QueueClean, Queued, Closing
<1>8. \A b \in Agents : InOperation(b)'
  <2>1. \A c \in Channels : lock'[c] # a
    BY <1>0, <1>4 DEF Inv, InOperation
  <2> QED
    BY <1>3, <1>4, <2>1, LeaveInOperation DEF Inv
<1>9. \A k : Holds(a, k) <=> k = x
  BY <1>0, <1>1 DEF Holds
<1>10. /\ Moves(a) /\ (\A k : ~Holds(a, k)') /\ (\A s : ~Claimant(a, s)')
       /\ \A k : Past(k)' <=> Past(k) \/ k = n
  BY <1>2, <1>3, <1>4, NextOpFacts DEF Inv
<1>11. ASSUME NEW k \in Nodes \ {n, x} PROVE NodeOK(k)'
  <2>1. result'[k] = result[k] /\ calls'[k] = calls[k]
    BY <1>4, <1>5, CallFields
  <2> QED
    BY <1>2, <1>3, <1>4, <1>7, <1>9, <2>1, LeaveOtherNodes
<1>12. /\ ~Closing(x) /\ x \notin queuedIn /\ x \notin reqCancel \ told /\ result[x] = "none"
       /\ \A b \in Agents \ {a} : ~Holds(b, x)
  BY <1>9, HeldFacts
<1>13. NodeOK(x)'
  <2>1. \A b \in Agents : ~Holds(b, x)'
    BY <1>10, <1>12, OthersKeep
  <2>2. /\ ~Held(x)' /\ ~Closing(x)' /\ x \notin queuedIn' /\ x \notin reqCancel' \ told'
        /\ Past(x)'
    BY <1>3, <1>4, <1>7, <1>10, <1>12, <2>1 DEF Held
  <2>3. OnePlace(x)' /\ HeldNodesLive(x)'
    BY <2>1, <2>2 DEF OnePlace, HeldNodesLive
  <2>4. CompletesOnce(x)'
    BY <1>4, <1>5, <1>12, CompletesNow DEF Inv
  <2> QED
    BY <2>3, <2>4 DEF NodeOK
<1>14. ASSUME n # x PROVE NodeOK(n)'
  <2>1. /\ ~Closing(n) /\ n \notin queuedIn \cup reqCancel \cup told
        /\ \A b \in Agents \ {a} : ~Holds(b, n)
    BY <1>2, <1>3, OpIsFree
  <2>2. \A b \in Agents : ~Holds(b, n)'
    BY <1>10, <2>1, OthersKeep
  <2>3. /\ ~Held(n)' /\ ~Closing(n)' /\ n \notin queuedIn' \cup reqCancel' \cup told' /\ Past(n)'
    BY <1>4, <1>7, <1>10, <2>1, <2>2 DEF Held
  <2>4. OnePlace(n)' /\ HeldNodesLive(n)'
    BY <2>2, <2>3 DEF OnePlace, HeldNodesLive
  <2>5. result'[n] = result[n] /\ calls'[n] = calls[n]
    BY <1>4, <1>5, <1>14, CallFields
  <2>6. CompletesOnce(n)'
    BY <2>5 DEF Inv, CompletesOnce
  <2> QED
    BY <2>4, <2>6 DEF NodeOK
<1>15. \A s \in Selects : OneClaim(s)'
  <2>1. \A s : Claimant(a, s) <=> s = SelectOf(x)
    BY <1>0, <1>1 DEF Claimant
  <2>2. \A s \in Selects \ {SelectOf(x)}, b \in Agents : Claimant(b, s)' <=> Claimant(b, s)
    BY <1>10, <2>1, OthersKeep
  <2>3. SelectOf(x) # None =>
            /\ \E b \in Agents : Claimant(b, SelectOf(x))
            /\ \A b \in Agents : ~Claimant(b, SelectOf(x))'
    <3> SUFFICES ASSUME SelectOf(x) # None
                 PROVE  /\ Claimant(a, SelectOf(x))
                        /\ \A b \in Agents : ~Claimant(b, SelectOf(x))'
      OBVIOUS
    <3>1. SelectOf(x) \in Selects /\ Claimant(a, SelectOf(x))
      BY <2>1, SelectOfNode
    <3>2. \A b \in Agents \ {a} : ~Claimant(b, SelectOf(x))
      BY <3>1 DEF Inv, OneClaim
    <3> QED
      BY <1>10, <3>1, <3>2, OthersKeep
  <2> QED
    BY <1>4, <1>5, <1>12, <2>2, <2>3, CallSucceeds DEF Inv
<1> QED
  BY <1>6, <1>7, <1>8, <1>11, <1>13, <1>14, <1>15 DEF Inv, NodeOK

-----------------------------------------------------------------------------
\* The steps of the others: timers, close() and cancellations.

\* No agent moves.
LEMMA NobodyMoves ==
    ASSUME UNCHANGED <<pc, at, peer>>
    PROVE  /\ \A n : Past(n)' <=> Past(n)
           /\ \A n : Returning(n)' <=> Returning(n)
           /\ \A b \in Agents, n \in Nodes : Holds(b, n)' <=> Holds(b, n)
           /\ \A b \in Agents, s \in Selects : Claimant(b, s)' <=> Claimant(b, s)
           /\ \A b \in Agents : Op(b)' = Op(b) /\ (Emitted(b)' <=> Emitted(b))
<1>1. \A b : Op(b)' = Op(b) /\ (Emitted(b)' <=> Emitted(b))
  BY DEF Op, Emitted
<1>2. \A b, d : NodeOf(b, d)' = NodeOf(b, d)
  BY <1>1 DEF NodeOf
<1>3. \A n : (Past(n)' <=> Past(n)) /\ (Returning(n)' <=> Returning(n))
  BY <1>1 DEF Past, Returning
<1> QED
  BY <1>1, <1>2, <1>3 DEF Holds, Claimant

\* The case of a select that is not a channel's.
LEMMA TimerInv ==
    ASSUME Inv, NEW s \in Selects, NEW r \in {"value", "error", "null"}, TimerCompletes(s, r)
    PROVE  Inv'
<1>1. /\ UNCHANGED <<q, closed, queuedIn, reqCancel, closing, lock, result, calls, told>>
      /\ UNCHANGED <<pc, at, peer>> /\ timer' = [timer EXCEPT ![s] = r]
  BY DEF TimerCompletes, queues, agent
<1>2. \/ UNCHANGED <<done, slot, winner>>
      \/ /\ s \notin done /\ done' = done \cup {s} /\ slot' = [slot EXCEPT ![s] = Append(@, r)]
         /\ winner' \in {winner, [winner EXCEPT ![s] = s]}
  BY DEF TimerCompletes, GivesUp
<1>3. TypeOK'
  <2>1. timer' \in [Timers -> {"armed", "value", "error", "null"}]
    BY <1>1 DEF Inv, TypeOK
  <2>2. done' \subseteq Selects
    BY <1>2 DEF Inv, TypeOK
  <2>3. slot' \in [Selects -> Seq({"value", "error", "null"})]
    <3>1. slot \in [Selects -> Seq({"value", "error", "null"})]
      BY DEF Inv, TypeOK
    <3>2. slot[s] \in Seq({"value", "error", "null"})
      BY <3>1
    <3>3. Append(slot[s], r) \in Seq({"value", "error", "null"})
      BY <3>2
    <3>4. slot' = slot \/ slot' = [slot EXCEPT ![s] = Append(slot[s], r)]
      BY <1>2
    <3> QED
      BY <3>1, <3>3, <3>4
  <2>4. winner' \in [Selects -> Nodes \cup Selects \cup {None}]
    <3>1. winner \in [Selects -> Nodes \cup Selects \cup {None}]
      BY DEF Inv, TypeOK
    <3>2. winner' = winner \/ winner' = [winner EXCEPT ![s] = s]
      BY <1>2
    <3> QED
      BY <3>1, <3>2
  <2> QED
    BY <1>1, <2>1, <2>2, <2>3, <2>4 DEF Inv, TypeOK
<1>4. QueueClean' /\ \A m \in Nodes : Closing(m)' <=> Closing(m)
  BY <1>1 DEF Inv, QueueClean, Queued, Closing
<1>5. \A b \in Agents : InOperation(b)'
  BY <1>1, NobodyMoves DEF Inv, InOperation
<1>6. \A m \in Nodes : NodeOK(m)'
  BY <1>1, <1>4, NobodyMoves, NodeSame DEF Inv, NodeOK
<1>7. ASSUME NEW t \in Selects PROVE OneClaim(t)'
  <2>1. \A b \in Agents : Claimant(b, t)' <=> Claimant(b, t)
    BY <1>1, NobodyMoves
  <2>2. OneClaim(t)
    BY DEF Inv
  <2>3. CASE UNCHANGED <<done, slot, winner>>
    BY <1>1, <2>1, <2>2, <2>3 DEF OneClaim
  <2>4. CASE t # s /\ ~UNCHANGED <<done, slot, winner>>
    <3>1. slot'[t] = slot[t] /\ winner'[t] = winner[t] /\ (t \in done' <=> t \in done)
      BY <1>2, <2>4 DEF Inv, TypeOK
    <3> QED
      BY <1>1, <2>1, <2>2, <3>1 DEF OneClaim
  <2>5. CASE t = s /\ ~UNCHANGED <<done, slot, winner>>
    <3>1. s \notin done /\ s \in done' /\ slot' = [slot EXCEPT ![s] = Append(@, r)]
      BY <1>2, <2>5
    <3>2. slot[s] = <<>> /\ winner[s] = None /\ \A b \in Agents : ~Claimant(b, s)
      BY <2>2, <2>5, <3>1 DEF OneClaim
    <3>3. slot'[s] = <<r>>
      BY <3>1, <3>2 DEF Inv, TypeOK
    <3>4. slot'[s] # <<>> /\ Len(slot'[s]) = 1
      BY <3>3
    <3>5. \A n \in ToSet(Cases[s]) : result[n] # "value"
      BY <2>2, <2>5, <3>2, SelectOfCase, NoneFacts DEF OneClaim
    <3> QED
      BY <1>1, <2>1, <2>5, <3>1, <3>2, <3>4, <3>5 DEF OneClaim
  <2> QED
    BY <2>3, <2>4, <2>5
<1> QED
  BY <1>3, <1>4, <1>5, <1>6, <1>7 DEF Inv, NodeOK

\* close() takes the receivers along.
LEMMA CloseInv == ASSUME Inv, NEW c \in Channels, Close(c) PROVE Inv'
<1>1. /\ c \notin closed /\ lock[c] = None /\ closed' = closed \cup {c}
      /\ closing' = [closing EXCEPT ![c] = q[c]["recv"]]
      /\ q' = [q EXCEPT ![c]["recv"] = <<>>]
      /\ queuedIn' = queuedIn \ ToSet(q[c]["recv"])
      /\ UNCHANGED <<reqCancel, lock, timer, told, pc, at, peer>>
      /\ UNCHANGED <<done, slot, winner, result, calls>> /\ UNCHANGED callbacks
  BY DEF Close, agent, callbacks
<1>2. /\ q \in [Channels -> [Dirs -> Seq(Nodes)]] /\ closing \in [Channels -> Seq(Nodes)]
      /\ q[c]["recv"] \in Seq(Nodes) /\ IsInjective(q[c]["recv"])
      /\ \A n \in ToSet(q[c]["recv"]) : n \in Nodes /\ Chan[n] = c /\ Dir[n] = "recv"
  BY DEF Inv, TypeOK, QueueClean, Dirs, ToSet
<1>3. /\ q' \in [Channels -> [Dirs -> Seq(Nodes)]] /\ q'[c]["recv"] = <<>>
      /\ \A e \in Channels, d \in Dirs : e # c \/ d # "recv" => q'[e][d] = q[e][d]
      /\ closing' \in [Channels -> Seq(Nodes)] /\ closing'[c] = q[c]["recv"]
      /\ \A e \in Channels \ {c} : closing'[e] = closing[e]
  BY <1>1, <1>2 DEF Dirs
<1>4. closing[c] = <<>>
  BY <1>1 DEF Inv, QueueClean
<1>5. TypeOK'
  BY <1>1, <1>2, <1>3 DEF Inv, TypeOK, Dirs
<1>6. \A e : e \notin ToSet(<<>>)
  BY DEF ToSet
<1>7. QueueClean'
  <2>1. ASSUME NEW e \in Channels, NEW d \in Dirs
        PROVE  IsInjective(q'[e][d]) /\ \A k \in ToSet(q'[e][d]) : Chan[k] = e /\ Dir[k] = d
    <3>1. CASE e = c /\ d = "recv"
      BY <1>3, <1>6, <3>1 DEF IsInjective
    <3>2. CASE e # c \/ d # "recv"
      BY <1>3, <3>2 DEF Inv, QueueClean, Dirs
    <3> QED
      BY <3>1, <3>2
  <2>2. ASSUME NEW k \in Nodes PROVE Queued(k)' <=> Queued(k) /\ k \notin ToSet(q[c]["recv"])
    <3>1. CASE Chan[k] = c /\ Dir[k] = "recv"
      BY <1>3, <1>6, <3>1 DEF Queued
    <3>2. CASE ~(Chan[k] = c /\ Dir[k] = "recv")
      BY <1>2, <1>3, <3>2, NodeTypes DEF Queued
    <3> QED
      BY <3>1, <3>2
  <2>3. queuedIn' = {k \in Nodes : Queued(k)'}
    BY <1>1, <2>2 DEF Inv, QueueClean
  <2>4. queuedIn' \cap reqCancel' = {} /\ told' \subseteq reqCancel'
    BY <1>1 DEF Inv, QueueClean
  <2>5. ASSUME NEW e \in Channels
        PROVE  /\ IsInjective(closing'[e]) /\ \A k \in ToSet(closing'[e]) : Chan[k] = e
               /\ IF e \in closed' THEN q'[e]["recv"] = <<>> ELSE closing'[e] = <<>>
    BY <1>1, <1>2, <1>3 DEF Inv, QueueClean, Dirs
  <2> QED
    BY <2>1, <2>3, <2>4, <2>5 DEF QueueClean, Dirs
<1>8. ASSUME NEW b \in Agents PROVE InOperation(b)'
  <2>1. pc[b] \in {"loop", "failed"} => Chan[Op(b)] # c
    BY <1>1, NoneFacts DEF Inv, InOperation
  <2> QED
    BY <1>1, <2>1, NobodyMoves DEF Inv, InOperation
<1>9. ASSUME NEW k \in Nodes PROVE NodeOK(k)'
  <2>1. CASE k \notin ToSet(q[c]["recv"])
    <3>1. Closing(k)' <=> Closing(k)
      BY <1>3, <1>4, <1>6, <2>1, NodeTypes DEF Closing
    <3> QED
      BY <1>1, <2>1, <3>1, NobodyMoves, NodeSame DEF Inv, NodeOK
  <2>2. CASE k \in ToSet(q[c]["recv"])
    <3>1. k \in queuedIn /\ k \notin reqCancel
      BY <1>2, <2>2 DEF Inv, QueueClean, Queued
    <3>2. Past(k) /\ ~Held(k) /\ result[k] = "none"
      BY <3>1 DEF Inv, OnePlace, HeldNodesLive
    <3>3. \A b \in Agents : ~Holds(b, k)'
      BY <1>1, <3>2, NobodyMoves DEF Held
    <3>4. Past(k)' /\ ~Held(k)' /\ k \notin queuedIn' \cup reqCancel' /\ result'[k] = "none"
      BY <1>1, <2>2, <3>1, <3>2, <3>3, NobodyMoves DEF Held
    <3>5. OnePlace(k)' /\ HeldNodesLive(k)' /\ CompletesOnce(k)'
      BY <1>1, <3>3, <3>4 DEF Inv, OnePlace, HeldNodesLive, CompletesOnce
    <3> QED
      BY <3>5 DEF NodeOK
  <2> QED
    BY <2>1, <2>2
<1>10. \A s \in Selects : OneClaim(s)'
  BY <1>1, ClaimsSame, NobodyMoves DEF Inv
<1> QED
  BY <1>5, <1>7, <1>8, <1>9, <1>10 DEF Inv, NodeOK

\* close() tells one of them.
LEMMA CloseCallsInv == ASSUME Inv, NEW c \in Channels, CloseCalls(c) PROVE Inv'
<1>1. /\ closing[c] # <<>> /\ Call(Head(closing[c]), "error")
      /\ closing' = [closing EXCEPT ![c] = Tail(@)]
      /\ UNCHANGED <<q, closed, queuedIn, reqCancel, lock, timer, told, pc, at, peer>>
  BY DEF CloseCalls, agent
<1>2. /\ closing \in [Channels -> Seq(Nodes)] /\ closing[c] \in Seq(Nodes)
      /\ IsInjective(closing[c]) /\ \A n \in ToSet(closing[c]) : Chan[n] = c
  BY DEF Inv, TypeOK, QueueClean
<1>3. PICK h \in Nodes : h = Head(closing[c])
  BY <1>1, <1>2, TailFacts
<1>4. /\ h \in ToSet(closing[c]) /\ Tail(closing[c]) \in Seq(Nodes)
      /\ ToSet(closing[c]) = ToSet(Tail(closing[c])) \cup {h}
      /\ IsInjective(Tail(closing[c])) /\ h \notin ToSet(Tail(closing[c]))
  BY <1>1, <1>2, <1>3, TailFacts
<1>5. /\ closing' \in [Channels -> Seq(Nodes)] /\ closing'[c] = Tail(closing[c])
      /\ \A e \in Channels \ {c} : closing'[e] = closing[e]
  BY <1>1, <1>2, <1>4
<1>6. CallbackTypes
  BY DEF Inv, TypeOK, CallbackTypes
<1>7. TypeOK'
  BY <1>1, <1>3, <1>5, <1>6, CallFields DEF Inv, TypeOK, CallbackTypes
<1>8. QueueClean'
  <2>1. ASSUME NEW e \in Channels
        PROVE  /\ IsInjective(closing'[e]) /\ \A k \in ToSet(closing'[e]) : Chan[k] = e
               /\ IF e \in closed' THEN q'[e]["recv"] = <<>> ELSE closing'[e] = <<>>
    BY <1>1, <1>2, <1>4, <1>5 DEF Inv, QueueClean
  <2> QED
    BY <1>1, <2>1 DEF Inv, QueueClean, Queued
<1>9. \A b \in Agents : InOperation(b)'
  BY <1>1, NobodyMoves DEF Inv, InOperation
<1>10. /\ Closing(h) /\ ~Closing(h)' /\ Chan[h] = c
       /\ \A k \in Nodes \ {h} : Closing(k)' <=> Closing(k)
  BY <1>2, <1>4, <1>5, NodeTypes DEF Closing
<1>11. /\ Past(h) /\ result[h] = "none" /\ h \notin queuedIn /\ ~Held(h) /\ h \notin reqCancel \ told
  BY <1>10 DEF Inv, OnePlace, HeldNodesLive
<1>12. ASSUME NEW k \in Nodes \ {h} PROVE NodeOK(k)'
  <2>1. result'[k] = result[k] /\ calls'[k] = calls[k]
    BY <1>1, <1>3, <1>6, CallFields
  <2> QED
    BY <1>1, <1>10, <2>1, NobodyMoves, NodeSame DEF Inv, NodeOK
<1>13. NodeOK(h)'
  <2>1. \A b \in Agents : ~Holds(b, h)'
    BY <1>1, <1>11, NobodyMoves DEF Held
  <2>2. Past(h)' /\ ~Held(h)' /\ h \notin queuedIn' /\ h \notin reqCancel' \ told'
    BY <1>1, <1>11, <2>1, NobodyMoves DEF Held
  <2>3. OnePlace(h)' /\ HeldNodesLive(h)'
    BY <1>10, <2>1, <2>2 DEF OnePlace, HeldNodesLive
  <2>4. CompletesOnce(h)'
    BY <1>1, <1>3, <1>6, <1>11, CompletesNow DEF Inv
  <2> QED
    BY <2>3, <2>4 DEF NodeOK
<1>14. \A s \in Selects : OneClaim(s)'
  BY <1>1, <1>3, <1>6, <1>11, CallFails, NobodyMoves DEF Inv
<1> QED
  BY <1>7, <1>8, <1>9, <1>12, <1>13, <1>14 DEF Inv, NodeOK

\* The queues after un_impl.
LEMMA UnQueues ==
    ASSUME Inv, NEW n \in Nodes, Un(n)
    PROVE  QueueClean' /\ q' \in [Channels -> [Dirs -> Seq(Nodes)]]
<1> DEFINE c0 == Chan[n]
           d0 == Dir[n]
<1>1. /\ q' = [q EXCEPT ![c0][d0] = IF n \in queuedIn THEN Erase(@, n) ELSE @]
      /\ queuedIn' = queuedIn \ {n} /\ reqCancel' = reqCancel \cup {n}
      /\ told' = told \cup {n} /\ UNCHANGED <<closed, closing>>
  BY DEF Un
<1>2. c0 \in Channels /\ d0 \in Dirs /\ q \in [Channels -> [Dirs -> Seq(Nodes)]]
  BY NodeTypes DEF Inv, TypeOK, Dirs
<1>3. q[c0][d0] \in Seq(Nodes) /\ IsInjective(q[c0][d0])
  BY <1>2 DEF Inv, QueueClean, Dirs
<1>4. n \in queuedIn <=> n \in ToSet(q[c0][d0])
  BY DEF Inv, QueueClean, Queued
<1>5. /\ q' \in [Channels -> [Dirs -> Seq(Nodes)]]
      /\ IsInjective(q'[c0][d0]) /\ ToSet(q'[c0][d0]) = ToSet(q[c0][d0]) \ {n}
      /\ q[c0][d0] = <<>> => q'[c0][d0] = <<>>
      /\ \A c \in Channels, d \in Dirs : c # c0 \/ d # d0 => q'[c][d] = q[c][d]
  <2>1. CASE n \in queuedIn
    <3>1. /\ Erase(q[c0][d0], n) \in Seq(Nodes) /\ IsInjective(Erase(q[c0][d0], n))
          /\ ToSet(Erase(q[c0][d0], n)) = ToSet(q[c0][d0]) \ {n}
      BY <1>3, <1>4, <2>1, EraseFacts
    <3>2. q' = [q EXCEPT ![c0][d0] = Erase(@, n)]
      BY <1>1, <2>1
    <3>3. q[c0][d0] # <<>>
      BY <1>4, <2>1 DEF ToSet
    <3> QED
      BY <1>2, <3>1, <3>2, <3>3
  <2>2. CASE n \notin queuedIn
    <3>1. q' = q
      BY <1>1, <1>2, <2>2
    <3> QED
      BY <1>2, <1>3, <1>4, <2>2, <3>1
  <2> QED
    BY <2>1, <2>2
<1> HIDE DEF c0, d0
<1>6. ASSUME NEW c \in Channels, NEW d \in Dirs
      PROVE  IsInjective(q'[c][d]) /\ \A k \in ToSet(q'[c][d]) : Chan[k] = c /\ Dir[k] = d
  <2>1. CASE c = c0 /\ d = d0
    <3>1. \A k \in ToSet(q[c0][d0]) : Chan[k] = c0 /\ Dir[k] = d0
      BY <1>2 DEF Inv, QueueClean, Dirs
    <3> QED
      BY <1>5, <2>1, <3>1
  <2>2. CASE c # c0 \/ d # d0
    BY <1>5, <2>2 DEF Inv, QueueClean, Dirs
  <2> QED
    BY <2>1, <2>2
<1>7. ASSUME NEW k \in Nodes PROVE Queued(k)' <=> Queued(k) /\ k # n
  <2>1. CASE Chan[k] = c0 /\ Dir[k] = d0
    BY <1>5, <2>1 DEF Queued
  <2>2. CASE ~(Chan[k] = c0 /\ Dir[k] = d0)
    BY <1>5, <2>2, NodeTypes DEF Queued, c0, d0
  <2> QED
    BY <2>1, <2>2
<1>8. queuedIn' = {k \in Nodes : Queued(k)'}
  BY <1>1, <1>7 DEF Inv, QueueClean
<1>9. queuedIn' \cap reqCancel' = {} /\ told' \subseteq reqCancel'
  BY <1>1 DEF Inv, QueueClean
<1>10. ASSUME NEW c \in Channels
       PROVE  /\ IsInjective(closing'[c]) /\ \A k \in ToSet(closing'[c]) : Chan[k] = c
              /\ IF c \in closed' THEN q'[c]["recv"] = <<>> ELSE closing'[c] = <<>>
  BY <1>1, <1>5 DEF Inv, QueueClean, Dirs
<1> QED
  BY <1>5, <1>6, <1>8, <1>9, <1>10 DEF QueueClean, Dirs

\* unsend() and unreceive() of an operation that was emitted and whose handle was
\* not used before.
LEMMA UnInv ==
    ASSUME Inv, NEW n \in Nodes, Past(n), n \notin told, Un(n)
    PROVE  Inv'
<1>1. /\ lock[Chan[n]] = None /\ told' = told \cup {n} /\ queuedIn' = queuedIn \ {n}
      /\ reqCancel' = reqCancel \cup {n}
      /\ UNCHANGED <<closed, closing, lock, timer, pc, at, peer>>
      /\ IF n \in queuedIn \cup reqCancel THEN Call(n, "null")
         ELSE UNCHANGED <<done, slot, winner, result, calls>> /\ UNCHANGED callbacks
  BY DEF Un, agent, callbacks
<1>2. QueueClean' /\ q' \in [Channels -> [Dirs -> Seq(Nodes)]]
  BY UnQueues
<1>3. CallbackTypes
  BY DEF Inv, TypeOK, CallbackTypes
<1>4. /\ CallbackTypes'
      /\ \A k \in Nodes \ {n} : result'[k] = result[k] /\ calls'[k] = calls[k]
  BY <1>1, <1>3, CallFields DEF CallbackTypes
<1>5. TypeOK'
  BY <1>1, <1>2, <1>4 DEF Inv, TypeOK, CallbackTypes, Dirs
<1>6. ASSUME NEW b \in Agents PROVE InOperation(b)'
  <2>1. pc[b] = "failed" => peer[b] # n
    <3> SUFFICES ASSUME pc[b] = "failed" PROVE Chan[peer[b]] # Chan[n]
      OBVIOUS
    <3>1. lock[Chan[Op(b)]] = b /\ Chan[peer[b]] = Chan[Op(b)]
      BY LoopFacts, PeerFacts
    <3> QED
      BY <1>1, <3>1, NoneFacts
  <2> QED
    BY <1>1, <2>1, NobodyMoves DEF Inv, InOperation
<1>7. \A k \in Nodes : Closing(k)' <=> Closing(k)
  BY <1>1 DEF Closing
<1>8. ASSUME NEW k \in Nodes \ {n} PROVE NodeOK(k)'
  BY <1>1, <1>4, <1>7, NobodyMoves, NodeSame DEF Inv, NodeOK
<1>9. Held(n)' <=> Held(n)
  BY <1>1, NobodyMoves DEF Held
<1>10. OnePlace(n)'
  <2>1. OnePlace(n)
    BY DEF Inv
  <2> QED
    BY <1>1, <1>7, <1>9, <2>1, NobodyMoves DEF OnePlace
<1>11. CASE n \in queuedIn \cup reqCancel
  <2>1. ~Closing(n) /\ ~Held(n) /\ result[n] = "none"
    BY <1>11 DEF Inv, OnePlace, HeldNodesLive
  <2>2. CompletesOnce(n)'
    BY <1>1, <1>3, <1>11, <2>1, CompletesNow DEF Inv
  <2>3. HeldNodesLive(n)'
    BY <1>1, <1>7, <1>9, <2>1, NobodyMoves DEF HeldNodesLive
  <2>4. \A s \in Selects : OneClaim(s)'
    BY <1>1, <1>3, <1>11, <2>1, CallFails, NobodyMoves DEF Inv
  <2> QED
    BY <1>2, <1>5, <1>6, <1>8, <1>10, <2>2, <2>3, <2>4 DEF Inv, NodeOK
<1>12. CASE n \notin queuedIn \cup reqCancel
  <2>1. HeldNodesLive(n) /\ CompletesOnce(n)
    BY DEF Inv
  <2>2. HeldNodesLive(n)' /\ CompletesOnce(n)'
    BY <1>1, <1>7, <1>9, <1>12, <2>1, NobodyMoves DEF HeldNodesLive, CompletesOnce
  <2>3. \A s \in Selects : OneClaim(s)'
    BY <1>1, <1>12, ClaimsSame, NobodyMoves DEF Inv
  <2> QED
    BY <1>2, <1>5, <1>6, <1>8, <1>10, <2>2, <2>3 DEF Inv, NodeOK
<1> QED
  BY <1>11, <1>12

\* A handle is only there once the operation was emitted.
LEMMA SiblingPast ==
    ASSUME Inv, NEW s \in Selects, NEW n \in Nodes, CancelSibling(s, n)
    PROVE  Past(n) /\ n \notin told /\ Un(n)
<1>1. n \in ToSet(Cases[s]) /\ n \notin told /\ Emitted(s) /\ Un(n)
  BY DEF CancelSibling
<1>2. s \in Agents /\ Program(s) = Cases[s]
  BY DEF Agents, Program
<1> QED
  BY <1>1, <1>2, EmittedPast DEF Inv

\* The same of a plain operation.
LEMMA PlainPast ==
    ASSUME Inv, NEW n \in Nodes, CancelPlain(n)
    PROVE  Past(n) /\ n \notin told /\ Un(n)
<1>1. n \in Cancels /\ n \notin told /\ Emitted(n) /\ Un(n)
  BY DEF CancelPlain
<1>2. \A s \in Selects : n \notin ToSet(Cases[s])
  BY <1>1, ChannelAssumption
<1>3. n \in Agents /\ Program(n) = <<n>>
  BY <1>2, NoneFacts DEF Agents, Plain, SelectOf, Program
<1>4. n \in ToSet(Program(n))
  BY <1>3 DEF ToSet
<1> QED
  BY <1>1, <1>3, <1>4, EmittedPast DEF Inv

-----------------------------------------------------------------------------
\* The theorems.

\* Nothing was called, queued or claimed yet.
LEMMA InitInv == Init => Inv
<1> SUFFICES ASSUME Init PROVE Inv
  OBVIOUS
<1>1. TypeOK
  BY NoneFacts DEF Init, TypeOK, Results
<1>2. \A e : e \notin ToSet(<<>>)
  BY DEF ToSet
<1>3. IsInjective(<<>>)
  BY DEF IsInjective
<1>4. \A n \in Nodes : ~Queued(n) /\ ~Closing(n) /\ ~Past(n)
  <2>1. \A n \in Nodes : ~Queued(n) /\ ~Closing(n)
    BY <1>2, NodeTypes DEF Init, Queued, Closing, Dirs
  <2>2. \A n \in Nodes : ~Past(n)
    BY DEF Init, Past
  <2> QED
    BY <2>1, <2>2
<1>5. QueueClean
  BY <1>2, <1>3, <1>4 DEF Init, QueueClean
<1>6. \A a \in Agents : InOperation(a)
  BY Programs, NoneFacts DEF Init, InOperation
<1>7. \A a \in Agents, n \in Nodes : ~Holds(a, n)
  BY DEF Init, Holds
<1>8. \A n \in Nodes : OnePlace(n) /\ HeldNodesLive(n) /\ CompletesOnce(n)
  BY <1>4, <1>7 DEF Init, OnePlace, HeldNodesLive, CompletesOnce, Held
<1>9. \A a \in Agents, s \in Selects : ~Claimant(a, s)
  BY DEF Init, Claimant
<1>10. \A s \in Selects : OneClaim(s)
  BY <1>9, SelectOfCase DEF Init, OneClaim
<1> QED
  BY <1>1, <1>5, <1>6, <1>8, <1>10 DEF Inv

\* Every step of Next, and stuttering, keeps Inv.
LEMMA NextInv == Inv /\ [Next]_vars => Inv'
<1> SUFFICES ASSUME Inv, [Next]_vars PROVE Inv'
  OBVIOUS
<1>1. ASSUME NEW a \in Agents, Step(a) PROVE Inv'
  <2>1. CASE AfterFailure(a)
    BY <2>1, FailedDropsInv, FailedBackInv
  <2> QED
    BY <1>1, <2>1, TurnAwayInv, WaitInv, EnterLoopInv, LoopEmptyInv, PopInv, CallRecvInv,
       CallSendInv DEF Step
<1>2. ASSUME NEW s \in Selects, CancelTask(s) PROVE Inv'
  BY <1>2, SiblingPast, UnInv, TimerInv DEF CancelTask
<1>3. ASSUME NEW s \in Selects, NEW r \in {"value", "error", "null"}, TimerCompletes(s, r)
      PROVE  Inv'
  BY <1>3, TimerInv
<1>4. ASSUME NEW n \in Nodes, CancelPlain(n) PROVE Inv'
  BY <1>4, PlainPast, UnInv
<1>5. ASSUME NEW c \in Channels, Close(c) \/ CloseCalls(c) PROVE Inv'
  BY <1>5, CloseInv, CloseCallsInv
<1>6. ASSUME UNCHANGED vars PROVE Inv'
  <2>1. /\ UNCHANGED <<q, closed, queuedIn, reqCancel, closing, lock, timer, told, pc, at, peer>>
        /\ UNCHANGED <<done, slot, winner, result, calls>> /\ UNCHANGED callbacks
    BY <1>6 DEF vars, queues, callbacks, agent
  <2>2. TypeOK' /\ QueueClean' /\ \A n \in Nodes : Closing(n)' <=> Closing(n)
    BY <2>1 DEF Inv, TypeOK, QueueClean, Queued, Closing
  <2>3. \A a \in Agents : InOperation(a)'
    BY <2>1, NobodyMoves DEF Inv, InOperation
  <2>4. \A n \in Nodes : NodeOK(n)'
    BY <2>1, <2>2, NobodyMoves, NodeSame DEF Inv, NodeOK
  <2>5. \A s \in Selects : OneClaim(s)'
    BY <2>1, NobodyMoves, ClaimsSame DEF Inv
  <2> QED
    BY <2>2, <2>3, <2>4, <2>5 DEF Inv, NodeOK
<1> QED
  BY <1>1, <1>2, <1>3, <1>4, <1>5, <1>6 DEF Next, Finished

\* For any channels, operations and selects: the marks of every operation agree
\* with the one place it is in, it is called at most once and never while somebody
\* else still has it, and every done_ has one owner (channel.hpp:248, 279, 322).
THEOREM ChannelInvariance == Spec => []Inv
  BY InitInv, NextInv, PTL DEF Spec

\* A select commits to one case: one outcome in its slot, and one exchange at
\* most, however its cases race on their channels (channel.hpp:264-310).
THEOREM CommitsOnce == Spec => []SelectCommitsOnce
<1>1. Inv => SelectCommitsOnce
  <2> SUFFICES ASSUME Inv, NEW s \in Selects
               PROVE  /\ Len(slot[s]) <= 1
                      /\ \A n, m \in ToSet(Cases[s]) :
                             result[n] = "value" /\ result[m] = "value" => n = m
                      /\ s \in Timers /\ winner[s] = s =>
                             \A n \in ToSet(Cases[s]) : result[n] # "value"
    BY DEF SelectCommitsOnce
  <2>1. OneClaim(s)
    BY DEF Inv
  <2>2. \A n \in ToSet(Cases[s]) : n # s
    BY SelectOfCase, NoneFacts
  <2> QED
    BY <2>1, <2>2 DEF OneClaim
<1> QED
  BY <1>1, ChannelInvariance, PTL

\* A kcas takes both done_ words or none: a select that was claimed has its
\* outcome, or somebody is on the way to the callbacks (channel.hpp:272-278).
THEOREM ClaimsAreKept == Spec => []BothOrNeither
<1>1. Inv => BothOrNeither
  <2> SUFFICES ASSUME Inv, NEW s \in done, slot[s] = <<>>
               PROVE  \E a \in Agents : /\ pc[a] \in {"call_recv", "call_send"}
                                        /\ s \in {SelectOf(Op(a)), SelectOf(peer[a])}
    BY DEF BothOrNeither
  <2>1. s \in Selects
    BY DEF Inv, TypeOK
  <2>2. PICK a \in Agents : Claimant(a, s)
    BY <2>1 DEF Inv, OneClaim
  <2> QED
    BY <2>2 DEF Claimant, Claims, NodeOf
<1> QED
  BY <1>1, ChannelInvariance, PTL

-----------------------------------------------------------------------------
\* First come, first served.

\* Both still wait, in the order they had.
KeepsOrder(s, t) == \A x, y \in ToSet(t) : Before(x, y, s) => Before(x, y, t)

\* push_back keeps the order of those who wait.
LEMMA AppendKeepsOrder ==
    ASSUME NEW S, NEW s \in Seq(S), NEW e \in S
    PROVE  KeepsOrder(s, Append(s, e))
<1>1. /\ DOMAIN s = 1 .. Len(s) /\ DOMAIN Append(s, e) = 1 .. Len(s) + 1 /\ Len(s) \in Nat
      /\ \A i \in 1 .. Len(s) : Append(s, e)[i] = s[i]
  OBVIOUS
<1> QED
  BY <1>1 DEF KeepsOrder, Before

\* pop_front
LEMMA TailKeepsOrder ==
    ASSUME NEW S, NEW s \in Seq(S), s # <<>>, IsInjective(s)
    PROVE  KeepsOrder(s, Tail(s))
<1> DEFINE t == Tail(s)
<1>1. /\ Len(s) \in Nat /\ DOMAIN s = 1 .. Len(s) /\ DOMAIN t = 1 .. Len(s) - 1
      /\ \A i \in 1 .. Len(s) - 1 : t[i] = s[i + 1]
      /\ Head(s) = s[1]
  OBVIOUS
<1>2. Head(s) \notin ToSet(t)
  BY TailFacts
<1> HIDE DEF t
<1> SUFFICES ASSUME NEW x \in ToSet(t), NEW y \in ToSet(t), Before(x, y, s)
             PROVE  Before(x, y, t)
  BY DEF KeepsOrder, t
<1>3. PICK i \in 1 .. Len(s), j \in 1 .. Len(s) : i < j /\ s[i] = x /\ s[j] = y
  BY <1>1 DEF Before
<1>4. i # 1
  BY <1>1, <1>2, <1>3
<1>5. i - 1 \in 1 .. Len(s) - 1 /\ j - 1 \in 1 .. Len(s) - 1 /\ i - 1 < j - 1
  BY <1>1, <1>3, <1>4
<1>6. t[i - 1] = x /\ t[j - 1] = y
  BY <1>1, <1>3, <1>5
<1> QED
  BY <1>1, <1>5, <1>6 DEF Before

\* erase
LEMMA EraseKeepsOrder ==
    ASSUME NEW S, NEW s \in Seq(S), NEW e \in ToSet(s), IsInjective(s)
    PROVE  KeepsOrder(s, Erase(s, e))
<1> DEFINE t == Erase(s, e)
<1>1. PICK k \in 1 .. Len(s) :
          /\ s[k] = e /\ t \in Seq(S) /\ Len(t) = Len(s) - 1
          /\ \A i \in 1 .. Len(s) - 1 : t[i] = IF i < k THEN s[i] ELSE s[i + 1]
  BY ErasePositions
<1>2. e \notin ToSet(t)
  BY EraseFacts
<1> HIDE DEF t
<1>3. /\ DOMAIN s = 1 .. Len(s) /\ Len(s) \in Nat /\ DOMAIN t = 1 .. Len(s) - 1
  BY <1>1
<1> SUFFICES ASSUME NEW x \in ToSet(t), NEW y \in ToSet(t), Before(x, y, s)
             PROVE  Before(x, y, t)
  BY DEF KeepsOrder, t
<1>4. PICK i \in 1 .. Len(s), j \in 1 .. Len(s) : i < j /\ s[i] = x /\ s[j] = y
  BY <1>3 DEF Before
<1>5. i # k /\ j # k
  BY <1>1, <1>2, <1>4
<1> DEFINE Down(l) == IF l < k THEN l ELSE l - 1
<1>6. \A l \in 1 .. Len(s) : l # k => Down(l) \in 1 .. Len(s) - 1 /\ t[Down(l)] = s[l]
  <2> TAKE l \in 1 .. Len(s)
  <2>1. CASE l < k
    BY <1>1, <1>3, <2>1
  <2>2. CASE l > k
    <3>1. l - 1 \in 1 .. Len(s) - 1 /\ ~(l - 1 < k) /\ (l - 1) + 1 = l
      BY <1>3, <2>2
    <3> QED
      BY <1>1, <2>2, <3>1
  <2> QED
    BY <1>3, <2>1, <2>2
<1>7. Down(i) < Down(j)
  BY <1>3, <1>4, <1>5
<1> QED
  BY <1>3, <1>4, <1>5, <1>6, <1>7 DEF Before

\* The line of waiting operations is a sequence without repetitions.
LEMMA LineFacts ==
    ASSUME Inv, NEW c \in Channels, NEW d \in Dirs
    PROVE  Line(c, d) \in Seq(Nodes) /\ IsInjective(Line(c, d))
<1>1. q[c][d] \in Seq(Nodes) /\ IsInjective(q[c][d])
  BY DEF Inv, TypeOK, QueueClean, Dirs
<1>2. CASE lock[c] # None /\ pc[lock[c]] = "failed" /\ Dir[peer[lock[c]]] = d
  <2>1. PICK b \in Agents : b = lock[c] /\ pc[b] = "failed" /\ Dir[peer[b]] = d
    BY <1>2 DEF Inv, TypeOK
  <2>2. peer[b] \in Nodes /\ Chan[peer[b]] = c /\ Holds(b, peer[b])
    BY <2>1, PeerFacts DEF Inv, InOperation, Holds
  <2>3. peer[b] \notin ToSet(q[c][d])
    BY <2>1, <2>2, HeldFacts DEF Inv, QueueClean, Queued
  <2> QED
    BY <1>1, <1>2, <2>1, <2>2, <2>3, ConsFacts DEF Line
<1> QED
  BY <1>1, <1>2 DEF Line

\* Nobody touches the queue, the mutex or whoever holds it.
LEMMA LineSame ==
    ASSUME NEW c, NEW d, q'[c][d] = q[c][d], lock'[c] = lock[c],
           lock[c] # None => pc'[lock[c]] = pc[lock[c]] /\ peer'[lock[c]] = peer[lock[c]]
    PROVE  Line(c, d)' = Line(c, d)
  BY DEF Line

\* Nothing changes.
LEMMA SameKeepsOrder == \A s : KeepsOrder(s, s)
  BY DEF KeepsOrder

\* What one step does to the line of a channel and a direction.
InOrder(c, d) == KeepsOrder(Line(c, d), Line(c, d)')

\* The lines of the channels that agent a is not busy with.
LEMMA OtherLines ==
    ASSUME Inv, NEW a \in Agents, Moves(a), NEW c \in Channels, NEW d \in Dirs,
           q'[c][d] = q[c][d], lock'[c] = lock[c], lock[c] # a
    PROVE  InOrder(c, d)
<1>1. lock[c] # None => pc'[lock[c]] = pc[lock[c]] /\ peer'[lock[c]] = peer[lock[c]]
  BY DEF Moves, Inv, TypeOK
<1>2. Line(c, d)' = Line(c, d)
  BY <1>1, LineSame
<1> QED
  BY <1>2, SameKeepsOrder DEF InOrder

\* An operation on one channel leaves the others alone.
LEMMA OtherLocks ==
    ASSUME Inv, NEW a \in Agents, ~Emitted(a), Unlock(a), NEW c \in Channels \ {Chan[Op(a)]}
    PROVE  lock'[c] = lock[c] /\ lock[c] # a
<1>1. Chan[Op(a)] \in Channels
  BY OpFacts DEF Inv
<1> QED
  BY <1>1 DEF Unlock, Inv, TypeOK, InOperation

\* The operations that touch no queue.
LEMMA QuietOrder ==
    ASSUME Inv, NEW a \in Agents, TurnAway(a) \/ CallRecv(a) \/ CallSend(a),
           NEW c \in Channels, NEW d \in Dirs
    PROVE  InOrder(c, d)
<1>1. pc[a] \in {"begin", "call_recv", "call_send"} /\ q' = q /\ lock' = lock
  BY DEF TurnAway, CallRecv, CallSend, Begins, queues
<1>2. Moves(a)
  BY DEF TurnAway, CallRecv, CallSend, NextOp, Moves, Inv, TypeOK
<1>3. lock[c] # a
  BY <1>1 DEF Inv, InOperation
<1> QED
  BY <1>1, <1>2, <1>3, OtherLines

\* enqueue_impl
LEMMA EnqueueOrder ==
    ASSUME Inv, NEW a \in Agents, ~Emitted(a), pc[a] \in {"begin", "loop"}, Enqueue(Op(a)),
           NextOp(a), lock[Chan[Op(a)]] \in {None, a}, Unlock(a),
           NEW c \in Channels, NEW d \in Dirs
    PROVE  InOrder(c, d)
<1>1. PICK n \in Nodes : n = Op(a) /\ Chan[n] \in Channels /\ Dir[n] \in Dirs
  BY OpFacts DEF Inv
<1>2. q \in [Channels -> [Dirs -> Seq(Nodes)]]
  BY DEF Inv, TypeOK, Dirs
<1>3. Moves(a)
  BY NextOpFacts DEF Inv
<1>4. \/ q' = q
      \/ q' = [q EXCEPT ![Chan[n]][Dir[n]] = Append(q[Chan[n]][Dir[n]], n)]
  BY <1>1, <1>2 DEF Enqueue, queues
<1>5. Append(q[Chan[n]][Dir[n]], n) \in Seq(Nodes)
  BY <1>1, <1>2
<1>6. /\ c # Chan[n] \/ d # Dir[n] => q'[c][d] = q[c][d]
      /\ q'[c][d] = q[c][d] \/ q'[c][d] = Append(q[c][d], n)
  <2>1. CASE q' = q
    BY <2>1
  <2>2. CASE q' = [q EXCEPT ![Chan[n]][Dir[n]] = Append(q[Chan[n]][Dir[n]], n)]
    <3>1. /\ q'[Chan[n]][Dir[n]] = Append(q[Chan[n]][Dir[n]], n)
          /\ \A e \in Channels, f \in Dirs :
                 e # Chan[n] \/ f # Dir[n] => q'[e][f] = q[e][f]
      BY <1>1, <1>2, <1>5, <2>2, QueueUpdate
    <3> QED
      BY <3>1
  <2> QED
    BY <1>4, <2>1, <2>2
<1>7. CASE c # Chan[n]
  BY <1>1, <1>3, <1>6, <1>7, OtherLocks, OtherLines
<1>8. CASE c = Chan[n]
  <2>1. Line(c, d) = q[c][d]
    BY <1>1, <1>8 DEF Line
  <2>2. lock'[c] = None
    BY <1>1, <1>8 DEF Unlock, Inv, TypeOK
  <2>3. Line(c, d)' = q'[c][d]
    BY <2>2 DEF Line
  <2>4. q[c][d] \in Seq(Nodes)
    BY <1>2
  <2>5. KeepsOrder(q[c][d], q'[c][d])
    BY <1>6, <2>4, AppendKeepsOrder, SameKeepsOrder
  <2> QED
    BY <2>1, <2>3, <2>5 DEF InOrder
<1> QED
  BY <1>7, <1>8

\* The first way to enqueue_impl: nobody waits on the other side.
LEMMA WaitOrder ==
    ASSUME Inv, NEW a \in Agents, Wait(a), NEW c \in Channels, NEW d \in Dirs
    PROVE  InOrder(c, d)
<1>1. /\ ~Emitted(a) /\ pc[a] = "begin" /\ lock[Chan[Op(a)]] = None /\ NextOp(a)
      /\ Enqueue(Op(a)) /\ lock' = lock
  BY DEF Wait, Begins
<1>2. Unlock(a)
  BY <1>1 DEF Unlock, Inv, TypeOK
<1> QED
  BY <1>1, <1>2, EnqueueOrder

\* The second: everybody on the other side was popped in vain.
LEMMA LoopEmptyOrder ==
    ASSUME Inv, NEW a \in Agents, LoopEmpty(a), NEW c \in Channels, NEW d \in Dirs
    PROVE  InOrder(c, d)
<1>1. pc[a] = "loop" /\ NextOp(a) /\ Enqueue(Op(a)) /\ Unlock(a)
  BY DEF LoopEmpty
<1>2. ~Emitted(a) /\ lock[Chan[Op(a)]] = a
  BY <1>1, LoopFacts
<1> QED
  BY <1>1, <1>2, EnqueueOrder

\* Into the loop: nobody was popped yet.
LEMMA EnterLoopOrder ==
    ASSUME Inv, NEW a \in Agents, EnterLoop(a), NEW c \in Channels, NEW d \in Dirs
    PROVE  InOrder(c, d)
<1>1. /\ ~Emitted(a) /\ pc[a] = "begin" /\ lock[Chan[Op(a)]] = None
      /\ lock' = [lock EXCEPT ![Chan[Op(a)]] = a]
      /\ pc' = [pc EXCEPT ![a] = "loop"] /\ q' = q /\ peer' = peer /\ at' = at
  BY DEF EnterLoop, Begins, queues
<1>2. Moves(a) /\ pc'[a] = "loop"
  BY <1>1 DEF Moves, Inv, TypeOK
<1>3. CASE c # Chan[Op(a)]
  <2>1. lock'[c] = lock[c] /\ lock[c] # a
    BY <1>1, <1>3 DEF Inv, TypeOK, InOperation
  <2> QED
    BY <1>1, <1>2, <2>1, OtherLines
<1>4. CASE c = Chan[Op(a)]
  <2>1. lock'[c] = a
    BY <1>1, <1>4 DEF Inv, TypeOK
  <2>2. Line(c, d) = q[c][d] /\ Line(c, d)' = q[c][d]
    BY <1>1, <1>2, <1>4, <2>1 DEF Line
  <2> QED
    BY <2>2, SameKeepsOrder DEF InOrder
<1> QED
  BY <1>3, <1>4

\* pop_front: whoever is popped leaves the line when the match succeeds, and is
\* still first when it fails.
LEMMA PopOrder ==
    ASSUME Inv, NEW a \in Agents, Pop(a), NEW c \in Channels, NEW d \in Dirs
    PROVE  InOrder(c, d)
<1>0. pc[a] = "loop" /\ Opposite(Op(a)) # <<>>
  BY DEF Pop
<1>1. PICK n \in Nodes : n = Op(a)
  BY <1>0, LoopFacts
<1>2. PICK m \in Nodes : m = Head(Opposite(n))
  BY <1>0, <1>1, PoppedFacts
<1>3. ~Emitted(a) /\ lock[Chan[n]] = a /\ Chan[m] = Chan[n] /\ Dir[m] = Other(Dir[n])
  BY <1>0, <1>1, <1>2, LoopFacts, PoppedFacts
<1>4. Chan[n] \in Channels /\ Dir[m] \in Dirs
  BY <1>1, <1>2, NodeTypes
<1> DEFINE s == q[Chan[n]][Dir[m]]
<1>5. s = Opposite(n) /\ s # <<>> /\ m = Head(s) /\ s \in Seq(Nodes) /\ IsInjective(s)
  BY <1>0, <1>1, <1>2, <1>3, <1>4 DEF Opposite, Inv, TypeOK, QueueClean, Dirs
<1>6. /\ q' = [q EXCEPT ![Chan[n]][Dir[m]] = Tail(@)]
      /\ peer' = [peer EXCEPT ![a] = m]
      /\ \/ pc' = [pc EXCEPT ![a] = "call_recv"] /\ Unlock(a)
         \/ pc' = [pc EXCEPT ![a] = "failed"] /\ lock' = lock
      /\ at' = at
  BY <1>1, <1>2 DEF Pop
<1>7. Moves(a) /\ peer'[a] = m
  BY <1>6 DEF Moves, Inv, TypeOK
<1>8. /\ q'[Chan[n]][Dir[m]] = Tail(s)
      /\ c # Chan[n] \/ d # Dir[m] => q'[c][d] = q[c][d]
  <2>1. q \in [Channels -> [Dirs -> Seq(Nodes)]] /\ Tail(s) \in Seq(Nodes)
    BY <1>5, TailFacts DEF Inv, TypeOK, Dirs
  <2>2. q' = [q EXCEPT ![Chan[n]][Dir[m]] = Tail(s)]
    BY <1>4, <1>6, <2>1
  <2> QED
    BY <1>4, <2>1, <2>2, QueueUpdate
<1> HIDE DEF s
<1>9. CASE c # Chan[n]
  <2>1. lock'[c] = lock[c] /\ lock[c] # a
    BY <1>1, <1>0, <1>6, <1>9, <1>3, OtherLocks DEF Inv, InOperation
  <2> QED
    BY <1>7, <1>8, <1>9, <2>1, OtherLines
<1>10. CASE c = Chan[n]
  <2>1. Line(c, d) = q[c][d]
    BY <1>0, <1>3, <1>10 DEF Line
  <2>2. CASE pc' = [pc EXCEPT ![a] = "call_recv"] /\ Unlock(a)
    <3>1. Line(c, d)' = q'[c][d]
      BY <1>1, <1>4, <1>10, <2>2 DEF Unlock, Inv, TypeOK, Line
    <3>2. KeepsOrder(q[c][d], q'[c][d])
      BY <1>5, <1>8, <1>10, TailKeepsOrder, SameKeepsOrder DEF s
    <3> QED
      BY <2>1, <3>1, <3>2 DEF InOrder
  <2>3. CASE pc' = [pc EXCEPT ![a] = "failed"] /\ lock' = lock
    <3>1. lock'[c] = a /\ pc'[a] = "failed" /\ a # None
      BY <1>3, <1>10, <2>3, NoneFacts DEF Inv, TypeOK
    <3>2. CASE d = Dir[m]
      <4>1. Line(c, d)' = <<m>> \o Tail(s)
        BY <1>7, <1>8, <1>10, <3>1, <3>2 DEF Line
      <4>2. <<Head(s)>> \o Tail(s) = s
        BY <1>5
      <4>3. Line(c, d)' = Line(c, d)
        BY <1>5, <1>10, <2>1, <3>2, <4>1, <4>2 DEF s
      <4> QED
        BY <4>3, SameKeepsOrder DEF InOrder
    <3>3. CASE d # Dir[m]
      <4>1. Line(c, d)' = q[c][d]
        BY <1>7, <1>8, <3>1, <3>3 DEF Line
      <4> QED
        BY <2>1, <4>1, SameKeepsOrder DEF InOrder
    <3> QED
      BY <3>2, <3>3
  <2> QED
    BY <1>6, <2>2, <2>3
<1> QED
  BY <1>9, <1>10

\* After a failed kcas: the popped node goes back to where it was, or is dropped
\* from the front.
LEMMA AfterFailureOrder ==
    ASSUME Inv, NEW a \in Agents, AfterFailure(a), NEW c \in Channels, NEW d \in Dirs
    PROVE  InOrder(c, d)
<1>0. pc[a] = "failed"
  BY DEF AfterFailure
<1>1. PICK n \in Nodes : n = Op(a)
  BY <1>0, LoopFacts
<1>2. PICK m \in Nodes : m = peer[a]
  BY <1>0, PeerFacts
<1>3. /\ ~Emitted(a) /\ lock[Chan[n]] = a /\ Chan[n] \in Channels /\ Dir[m] \in Dirs
      /\ a # None
  BY <1>0, <1>1, <1>2, LoopFacts, NodeTypes, NoneFacts
<1> DEFINE s == q[Chan[n]][Dir[m]]
<1>4. q \in [Channels -> [Dirs -> Seq(Nodes)]] /\ s \in Seq(Nodes) /\ <<m>> \o s \in Seq(Nodes)
  BY <1>3, ConsFacts DEF Inv, TypeOK, Dirs
<1>5. Line(Chan[n], Dir[m]) = <<m>> \o s
  BY <1>0, <1>2, <1>3 DEF Line
<1>6. d # Dir[m] => Line(Chan[n], d) = q[Chan[n]][d]
  BY <1>0, <1>2, <1>3 DEF Line
<1>7. CASE SelectOf(m) \in done
  <2>1. /\ pc' = [pc EXCEPT ![a] = "loop"] /\ peer' = [peer EXCEPT ![a] = None]
        /\ q' = q /\ lock' = lock
    BY <1>1, <1>2, <1>7 DEF AfterFailure
  <2>2. /\ pc'[a] = "loop"
        /\ \A b \in Agents \ {a} : pc'[b] = pc[b] /\ peer'[b] = peer[b]
    BY <2>1 DEF Inv, TypeOK
  <2>3. CASE c # Chan[n]
    <3>1. lock[c] # a /\ lock[c] \in Agents \cup {None}
      BY <1>0, <1>1, <2>3 DEF Inv, InOperation, TypeOK
    <3>2. Line(c, d)' = Line(c, d)
      BY <2>1, <2>2, <3>1, LineSame
    <3> QED
      BY <3>2, SameKeepsOrder DEF InOrder
  <2>4. CASE c = Chan[n]
    <3>1. Line(c, d)' = q[c][d]
      BY <1>3, <2>1, <2>2, <2>4 DEF Line
    <3>2. CASE d = Dir[m]
      <4>1. IsInjective(<<m>> \o s)
        BY <1>3, <1>5, LineFacts
      <4>2. <<m>> \o s # <<>> /\ Tail(<<m>> \o s) = s
        BY <1>4, TailOfCons
      <4>3. KeepsOrder(<<m>> \o s, s)
        BY <1>4, <4>1, <4>2, TailKeepsOrder
      <4> QED
        BY <1>5, <2>4, <3>1, <3>2, <4>3 DEF InOrder
    <3>3. CASE d # Dir[m]
      BY <1>6, <2>4, <3>1, <3>3, SameKeepsOrder DEF InOrder
    <3> QED
      BY <3>2, <3>3
  <2> QED
    BY <2>3, <2>4
<1>8. CASE SelectOf(m) \notin done
  <2>1. q' = [q EXCEPT ![Chan[n]][Dir[m]] = <<m>> \o @] /\ Unlock(a) /\ NextOp(a)
    BY <1>1, <1>2, <1>8 DEF AfterFailure
  <2>2. Moves(a)
    BY <1>3, <2>1, NextOpFacts DEF Inv
  <2>3. /\ q'[Chan[n]][Dir[m]] = <<m>> \o s
        /\ c # Chan[n] \/ d # Dir[m] => q'[c][d] = q[c][d]
    <3>1. q' = [q EXCEPT ![Chan[n]][Dir[m]] = <<m>> \o s]
      BY <1>3, <1>4, <2>1
    <3> QED
      BY <1>3, <1>4, <3>1, QueueUpdate
  <2>4. CASE c # Chan[n]
    <3>1. lock'[c] = lock[c] /\ lock[c] # a
      BY <1>1, <1>3, <2>1, <2>4, OtherLocks
    <3> QED
      BY <2>2, <2>3, <2>4, <3>1, OtherLines
  <2>5. CASE c = Chan[n]
    <3>1. lock'[c] = None
      BY <1>1, <2>1, <2>5 DEF Unlock, Inv, TypeOK
    <3>2. Line(c, d)' = q'[c][d]
      BY <3>1 DEF Line
    <3>3. Line(c, d)' = Line(c, d)
      BY <1>5, <1>6, <2>3, <2>5, <3>2
    <3> QED
      BY <3>3, SameKeepsOrder DEF InOrder
  <2> QED
    BY <2>4, <2>5
<1> QED
  BY <1>7, <1>8

\* close() empties one queue.
LEMMA CloseOrder ==
    ASSUME Inv, NEW k \in Channels, Close(k), NEW c \in Channels, NEW d \in Dirs
    PROVE  InOrder(c, d)
<1>1. /\ lock[k] = None /\ q' = [q EXCEPT ![k]["recv"] = <<>>]
      /\ lock' = lock /\ pc' = pc /\ peer' = peer
  BY DEF Close, agent
<1>2. /\ q'[k]["recv"] = <<>>
      /\ c # k \/ d # "recv" => q'[c][d] = q[c][d]
  <2>1. q \in [Channels -> [Dirs -> Seq(Nodes)]] /\ <<>> \in Seq(Nodes) /\ "recv" \in Dirs
    BY DEF Inv, TypeOK, Dirs
  <2> QED
    BY <1>1, <2>1, QueueUpdate
<1>3. CASE c # k \/ d # "recv"
  BY <1>1, <1>2, <1>3, LineSame, SameKeepsOrder DEF InOrder
<1>4. CASE c = k /\ d = "recv"
  <2>1. Line(c, d)' = <<>>
    BY <1>1, <1>2, <1>4 DEF Line
  <2>2. ToSet(<<>>) = {}
    BY DEF ToSet
  <2> QED
    BY <2>1, <2>2 DEF InOrder, KeepsOrder
<1> QED
  BY <1>3, <1>4

\* erase, with the mutex.
LEMMA UnOrder ==
    ASSUME Inv, NEW n \in Nodes, Un(n), NEW c \in Channels, NEW d \in Dirs
    PROVE  InOrder(c, d)
<1>1. /\ lock[Chan[n]] = None
      /\ q' = [q EXCEPT ![Chan[n]][Dir[n]] = IF n \in queuedIn THEN Erase(@, n) ELSE @]
      /\ lock' = lock /\ pc' = pc /\ peer' = peer
  BY DEF Un, agent
<1>2. Chan[n] \in Channels /\ Dir[n] \in Dirs /\ q \in [Channels -> [Dirs -> Seq(Nodes)]]
  BY NodeTypes DEF Inv, TypeOK, Dirs
<1> DEFINE s == q[Chan[n]][Dir[n]]
           t == IF n \in queuedIn THEN Erase(s, n) ELSE s
<1>3. s \in Seq(Nodes) /\ IsInjective(s) /\ (n \in queuedIn <=> n \in ToSet(s))
  BY <1>2 DEF Inv, QueueClean, Queued, Dirs
<1>4. t \in Seq(Nodes) /\ KeepsOrder(s, t)
  BY <1>3, EraseFacts, EraseKeepsOrder, SameKeepsOrder
<1>5. q' = [q EXCEPT ![Chan[n]][Dir[n]] = t]
  BY <1>1, <1>2
<1> HIDE DEF t
<1>6. /\ q'[Chan[n]][Dir[n]] = t
      /\ c # Chan[n] \/ d # Dir[n] => q'[c][d] = q[c][d]
  BY <1>2, <1>4, <1>5, QueueUpdate
<1>7. CASE c # Chan[n] \/ d # Dir[n]
  BY <1>1, <1>6, <1>7, LineSame, SameKeepsOrder DEF InOrder
<1>8. CASE c = Chan[n] /\ d = Dir[n]
  <2>1. Line(c, d) = s /\ Line(c, d)' = t
    BY <1>1, <1>6, <1>8 DEF Line
  <2> QED
    BY <1>4, <2>1 DEF InOrder
<1> QED
  BY <1>7, <1>8

\* Operations that go on waiting in the same queue never change places, also when
\* a failed kcas puts one of them back (channel.hpp:264-310, 322-333).
THEOREM FirstComeFirstServed == Spec => NoOvertaking
<1>1. ASSUME Inv, Next, NEW c \in Channels, NEW d \in Dirs PROVE InOrder(c, d)
  <2>1. ASSUME NEW a \in Agents, Step(a) PROVE InOrder(c, d)
    BY <1>1, <2>1, QuietOrder, WaitOrder, EnterLoopOrder, LoopEmptyOrder, PopOrder,
       AfterFailureOrder DEF Step
  <2>2. ASSUME NEW n \in Nodes, Un(n) PROVE InOrder(c, d)
    BY <1>1, <2>2, UnOrder
  <2>3. ASSUME UNCHANGED <<q, lock, pc, peer>> PROVE InOrder(c, d)
    BY <2>3, LineSame, SameKeepsOrder DEF InOrder
  <2>4. ASSUME NEW s \in Selects, NEW r, TimerCompletes(s, r) PROVE InOrder(c, d)
    BY <2>3, <2>4 DEF TimerCompletes, queues, agent
  <2>5. ASSUME NEW s \in Selects, CancelTask(s) PROVE InOrder(c, d)
    BY <2>2, <2>4, <2>5 DEF CancelTask, CancelSibling
  <2>6. ASSUME NEW n \in Nodes, CancelPlain(n) PROVE InOrder(c, d)
    BY <2>2, <2>6 DEF CancelPlain
  <2>7. ASSUME NEW k \in Channels, Close(k) \/ CloseCalls(k) PROVE InOrder(c, d)
    <3>1. CASE Close(k)
      BY <1>1, <3>1, CloseOrder
    <3>2. CASE CloseCalls(k)
      BY <2>3, <3>2 DEF CloseCalls, agent
    <3> QED
      BY <2>7, <3>1, <3>2
  <2>8. ASSUME Finished PROVE InOrder(c, d)
    BY <2>3, <2>8 DEF Finished, vars, queues, agent
  <2> QED
    BY <1>1, <2>1, <2>4, <2>5, <2>6, <2>7, <2>8 DEF Next
<1>2. Inv /\ [Next]_vars
      => [\A c \in Channels, d \in {"send", "recv"} :
            \A x, y \in ToSet(Line(c, d)') :
                Before(x, y, Line(c, d)) => Before(x, y, Line(c, d)')]_vars
  BY <1>1 DEF InOrder, KeepsOrder, Dirs
<1> QED
  BY <1>2, ChannelInvariance, PTL DEF Spec, NoOvertaking

-----------------------------------------------------------------------------
\* A select uses a channel in one direction only.
OneWaySelects ==
    \A n, m \in Nodes : SameSelect(n, m) /\ Chan[n] = Chan[m] => Dir[n] = Dir[m]

\* Then only one side of a channel ever waits, and whoever is in the loop has
\* nobody in front of it on its own side.
OneSided(c) ==
    /\ q[c]["send"] = <<>> \/ q[c]["recv"] = <<>>
    /\ lock[c] # None => q[c][Dir[Op(lock[c])]] = <<>>

\* An operation never meets a case of its own select on the other side.
LEMMA NotSame ==
    ASSUME OneWaySelects, NEW n \in Nodes, NEW m \in Nodes, Chan[m] = Chan[n],
           Dir[m] = Other(Dir[n])
    PROVE  ~SameSelect(n, m)
<1>1. Dir[n] # Other(Dir[n])
  BY DEF Other
<1> QED
  BY <1>1 DEF OneWaySelects

\* The guard in front of the loop then sees an empty queue exactly when it is one.
LEMMA NobodyMeansEmpty ==
    ASSUME OneWaySelects, Inv, NEW n \in Nodes
    PROVE  NobodyWaits(n) <=> Opposite(n) = <<>>
<1> SUFFICES ASSUME Opposite(n) # <<>> PROVE ~SameSelect(n, Last(Opposite(n)))
  BY DEF NobodyWaits
<1>1. Chan[n] \in Channels /\ Other(Dir[n]) \in Dirs
  BY NodeTypes DEF Other, Dirs
<1>2. Opposite(n) \in Seq(Nodes)
  BY <1>1 DEF Opposite, Inv, TypeOK, Dirs
<1>3. Last(Opposite(n)) \in Nodes /\ Last(Opposite(n)) \in ToSet(Opposite(n))
  <2>1. Len(Opposite(n)) \in DOMAIN Opposite(n)
    BY <1>2
  <2> QED
    BY <1>2, <2>1 DEF Last, ToSet
<1>4. Chan[Last(Opposite(n))] = Chan[n] /\ Dir[Last(Opposite(n))] = Other(Dir[n])
  BY <1>1, <1>3 DEF Opposite, Inv, QueueClean, Dirs
<1> QED
  BY <1>3, <1>4, NotSame

\* A step that fills no queue of the channel and does not take its mutex.
LEMMA DrainsOneSided ==
    ASSUME NEW c \in Channels, OneSided(c),
           \A d \in Dirs : q[c][d] = <<>> => q'[c][d] = <<>>,
           lock'[c] # None => lock'[c] = lock[c] /\ Op(lock[c])' = Op(lock[c])
                              /\ Dir[Op(lock[c])] \in Dirs
    PROVE  OneSided(c)'
<1>1. q'[c]["send"] = <<>> \/ q'[c]["recv"] = <<>>
  BY DEF OneSided, Dirs
<1>2. ASSUME lock'[c] # None PROVE q'[c][Dir[Op(lock[c])']] = <<>>
  BY <1>2 DEF OneSided
<1>3. lock'[c] # None => lock'[c] = lock[c] /\ Op(lock[c])' = Op(lock[c])
  OBVIOUS
<1> QED
  BY <1>1, <1>2, <1>3 DEF OneSided

\* Who holds the mutex of a channel is in an operation on it.
LEMMA HolderFacts ==
    ASSUME Inv, NEW c \in Channels, lock[c] # None
    PROVE  lock[c] \in Agents /\ Chan[Op(lock[c])] = c /\ Dir[Op(lock[c])] \in Dirs
<1>1. PICK b \in Agents : b = lock[c]
  BY DEF Inv, TypeOK
<1>2. pc[b] \in {"loop", "failed"} /\ c = Chan[Op(b)]
  BY <1>1 DEF Inv, InOperation
<1> QED
  BY <1>1, <1>2, LoopFacts

\* The channels that agent a is not busy with.
LEMMA OthersSided ==
    ASSUME Inv, NEW a \in Agents, Moves(a), NEW c \in Channels, OneSided(c),
           \A d \in Dirs : q'[c][d] = q[c][d], lock'[c] = lock[c], lock[c] # a
    PROVE  OneSided(c)'
<1>1. ASSUME lock[c] # None PROVE Op(lock[c])' = Op(lock[c]) /\ Dir[Op(lock[c])] \in Dirs
  <2>1. PICK b \in Agents \ {a} : b = lock[c]
    BY <1>1, HolderFacts
  <2>2. Op(b)' = Op(b)
    BY <2>1, OthersKeep
  <2>3. Op(lock[c])' = Op(b)'
    BY <2>1 DEF Op
  <2> QED
    BY <1>1, <2>1, <2>2, <2>3, HolderFacts
<1> QED
  BY <1>1, DrainsOneSided

\* enqueue_impl, with nobody on the other side.
LEMMA EnqueueSided ==
    ASSUME Inv, NEW a \in Agents, ~Emitted(a), Enqueue(Op(a)), NextOp(a),
           Unlock(a), Opposite(Op(a)) = <<>>, NEW c \in Channels, OneSided(c)
    PROVE  OneSided(c)'
<1>1. PICK n \in Nodes : n = Op(a) /\ Chan[n] \in Channels /\ Dir[n] \in Dirs
  BY OpFacts DEF Inv
<1>2. q \in [Channels -> [Dirs -> Seq(Nodes)]]
  BY DEF Inv, TypeOK, Dirs
<1>3. \/ q' = q
      \/ q' = [q EXCEPT ![Chan[n]][Dir[n]] = Append(q[Chan[n]][Dir[n]], n)]
  BY <1>1, <1>2 DEF Enqueue, queues
<1>4. Append(q[Chan[n]][Dir[n]], n) \in Seq(Nodes)
  BY <1>1, <1>2
<1>5. \A e \in Channels, f \in Dirs : e # Chan[n] \/ f # Dir[n] => q'[e][f] = q[e][f]
  <2>1. CASE q' = q
    BY <2>1
  <2>2. CASE q' = [q EXCEPT ![Chan[n]][Dir[n]] = Append(q[Chan[n]][Dir[n]], n)]
    BY <1>1, <1>2, <1>4, <2>2, QueueUpdate
  <2> QED
    BY <1>3, <2>1, <2>2
<1>6. CASE c # Chan[n]
  <2>1. lock'[c] = lock[c] /\ lock[c] # a /\ Moves(a)
    BY <1>1, <1>6, OtherLocks, NextOpFacts DEF Inv
  <2> QED
    BY <1>5, <1>6, <2>1, OthersSided
<1>7. CASE c = Chan[n]
  <2>1. lock'[c] = None
    BY <1>1, <1>7 DEF Unlock, Inv, TypeOK
  <2>2. Other(Dir[n]) \in Dirs /\ Other(Dir[n]) # Dir[n]
    BY DEF Other, Dirs
  <2>3. q'[c][Other(Dir[n])] = <<>>
    BY <1>1, <1>5, <1>7, <2>2 DEF Opposite
  <2> QED
    BY <2>1, <2>2, <2>3 DEF OneSided, Dirs
<1> QED
  BY <1>6, <1>7

\* The operations of an agent.
LEMMA StepSided ==
    ASSUME OneWaySelects, Inv, NEW a \in Agents, Step(a), NEW c \in Channels, OneSided(c)
    PROVE  OneSided(c)'
<1>1. CASE TurnAway(a) \/ CallRecv(a) \/ CallSend(a)
  <2>1. pc[a] \in {"begin", "call_recv", "call_send"} /\ q' = q /\ lock' = lock
    BY <1>1 DEF TurnAway, CallRecv, CallSend, Begins, queues
  <2>2. Moves(a)
    BY <1>1 DEF TurnAway, CallRecv, CallSend, NextOp, Moves, Inv, TypeOK
  <2>3. lock[c] # a
    BY <2>1 DEF Inv, InOperation
  <2> QED
    BY <2>1, <2>2, <2>3, OthersSided
<1>2. CASE Wait(a)
  <2>1. /\ ~Emitted(a) /\ pc[a] = "begin" /\ lock[Chan[Op(a)]] = None /\ NextOp(a)
        /\ Enqueue(Op(a)) /\ lock' = lock /\ NobodyWaits(Op(a))
    BY <1>2 DEF Wait, Begins
  <2>2. Unlock(a)
    BY <2>1 DEF Unlock, Inv, TypeOK
  <2>3. Opposite(Op(a)) = <<>>
    BY <2>1, OpFacts, NobodyMeansEmpty DEF Inv
  <2> QED
    BY <2>1, <2>2, <2>3, EnqueueSided
<1>3. CASE LoopEmpty(a)
  <2>1. /\ pc[a] = "loop" /\ NextOp(a) /\ Enqueue(Op(a)) /\ Unlock(a)
        /\ Opposite(Op(a)) = <<>>
    BY <1>3 DEF LoopEmpty
  <2> QED
    BY <2>1, LoopFacts, EnqueueSided
<1>4. CASE EnterLoop(a)
  <2>1. /\ ~Emitted(a) /\ pc[a] = "begin" /\ lock[Chan[Op(a)]] = None
        /\ lock' = [lock EXCEPT ![Chan[Op(a)]] = a] /\ ~NobodyWaits(Op(a))
        /\ pc' = [pc EXCEPT ![a] = "loop"] /\ q' = q /\ peer' = peer /\ at' = at
    BY <1>4 DEF EnterLoop, Begins, queues
  <2>2. Moves(a)
    BY <2>1 DEF Moves, Inv, TypeOK
  <2>3. PICK n \in Nodes : n = Op(a) /\ Dir[n] \in Dirs /\ Opposite(n) # <<>>
    BY <2>1, OpFacts, NobodyMeansEmpty DEF Inv
  <2>4. CASE c # Chan[Op(a)]
    <3>1. lock'[c] = lock[c] /\ lock[c] # a
      BY <2>1, <2>4 DEF Inv, TypeOK, InOperation
    <3> QED
      BY <2>1, <2>2, <3>1, OthersSided
  <2>5. CASE c = Chan[Op(a)]
    <3>1. lock'[c] = a
      BY <2>1, <2>5 DEF Inv, TypeOK
    <3>2. Op(lock[c])' = n
      BY <2>1, <2>3, <3>1 DEF Op
    <3>3. q[c][Dir[n]] = <<>>
      BY <2>3, <2>5 DEF OneSided, Opposite, Other, Dirs
    <3> QED
      BY <2>1, <3>2, <3>3 DEF OneSided
  <2> QED
    BY <2>4, <2>5
<1>5. CASE Pop(a)
  <2>0. pc[a] = "loop" /\ Opposite(Op(a)) # <<>>
    BY <1>5 DEF Pop
  <2>1. PICK m \in Nodes : /\ m = Head(Opposite(Op(a))) /\ Chan[m] = Chan[Op(a)]
                           /\ Dir[m] = Other(Dir[Op(a)])
    BY <2>0, PoppedFacts
  <2>2. /\ q' = [q EXCEPT ![Chan[m]][Dir[m]] = Tail(@)] /\ at' = at
        /\ Unlock(a) \/ lock' = lock
    BY <1>5, <2>1 DEF Pop
  <2>3. q[Chan[m]][Dir[m]] # <<>>
    BY <2>0, <2>1 DEF Opposite
  <2>4. q \in [Channels -> [Dirs -> Seq(Nodes)]] /\ Chan[m] \in Channels /\ Dir[m] \in Dirs
    BY NodeTypes DEF Inv, TypeOK, Dirs
  <2>5. \A d \in Dirs : q[c][d] = <<>> => q'[c][d] = <<>>
    <3>1. Tail(q[Chan[m]][Dir[m]]) \in Seq(Nodes)
      BY <2>3, <2>4, TailFacts
    <3>2. q' = [q EXCEPT ![Chan[m]][Dir[m]] = Tail(q[Chan[m]][Dir[m]])]
      BY <2>2, <2>4
    <3>3. \A d \in Dirs : c # Chan[m] \/ d # Dir[m] => q'[c][d] = q[c][d]
      BY <2>4, <3>1, <3>2, QueueUpdate
    <3> QED
      BY <2>3, <3>3
  <2>6. lock'[c] # None => lock'[c] = lock[c]
    BY <2>2, <2>4 DEF Unlock, Inv, TypeOK
  <2>7. lock'[c] # None => Op(lock[c])' = Op(lock[c])
    BY <2>2, <2>6 DEF Op
  <2> QED
    BY <2>5, <2>6, <2>7, HolderFacts, DrainsOneSided
<1>6. CASE AfterFailure(a) /\ SelectOf(peer[a]) \in done
  <2>1. q' = q /\ lock' = lock /\ at' = at
    BY <1>6 DEF AfterFailure
  <2>2. Op(lock[c])' = Op(lock[c])
    BY <2>1 DEF Op
  <2> QED
    BY <2>1, <2>2, HolderFacts, DrainsOneSided
<1>7. CASE AfterFailure(a) /\ SelectOf(peer[a]) \notin done
  <2>1. pc[a] = "failed"
    BY <1>7 DEF AfterFailure
  <2>2. PICK n \in Nodes : /\ n = Op(a) /\ Chan[n] \in Channels /\ Dir[n] \in Dirs
                           /\ lock[Chan[n]] = a /\ ~Emitted(a)
    BY <2>1, LoopFacts
  <2>3. PICK m \in Nodes : m = peer[a] /\ Chan[m] = Chan[n] /\ Dir[m] = Other(Dir[n])
    BY <2>1, <2>2, PeerFacts
  <2>4. q' = [q EXCEPT ![Chan[n]][Dir[m]] = <<m>> \o @] /\ Unlock(a) /\ NextOp(a)
    BY <1>7, <2>2, <2>3 DEF AfterFailure
  <2>5. \A e \in Channels, f \in Dirs : e # Chan[n] \/ f # Dir[m] => q'[e][f] = q[e][f]
    <3>1. q \in [Channels -> [Dirs -> Seq(Nodes)]] /\ Dir[m] \in Dirs
      BY NodeTypes DEF Inv, TypeOK, Dirs
    <3>2. <<m>> \o q[Chan[n]][Dir[m]] \in Seq(Nodes)
      BY <2>2, <3>1, ConsFacts
    <3>3. q' = [q EXCEPT ![Chan[n]][Dir[m]] = <<m>> \o q[Chan[n]][Dir[m]]]
      BY <2>2, <2>4, <3>1
    <3> QED
      BY <2>2, <3>1, <3>2, <3>3, QueueUpdate
  <2>6. CASE c # Chan[n]
    <3>1. lock'[c] = lock[c] /\ lock[c] # a /\ Moves(a)
      BY <2>2, <2>4, <2>6, OtherLocks, NextOpFacts DEF Inv
    <3> QED
      BY <2>5, <2>6, <3>1, OthersSided
  <2>7. CASE c = Chan[n]
    <3>1. lock'[c] = None
      BY <2>2, <2>4, <2>7 DEF Unlock, Inv, TypeOK
    <3>2. q[c][Dir[n]] = <<>>
      BY <2>2, <2>7, NoneFacts DEF OneSided
    <3>3. q'[c][Dir[n]] = <<>>
      BY <2>2, <2>3, <2>5, <3>2 DEF Other
    <3> QED
      BY <2>2, <3>1, <3>3 DEF OneSided, Dirs
  <2> QED
    BY <2>6, <2>7
<1> QED
  BY <1>1, <1>2, <1>3, <1>4, <1>5, <1>6, <1>7 DEF Step

\* close() and un_impl only take out of the queues.
LEMMA UnSided ==
    ASSUME Inv, NEW n \in Nodes, Un(n), NEW c \in Channels, OneSided(c)
    PROVE  OneSided(c)'
<1>1. /\ q' = [q EXCEPT ![Chan[n]][Dir[n]] = IF n \in queuedIn THEN Erase(@, n) ELSE @]
      /\ lock' = lock /\ at' = at
  BY DEF Un, agent
<1>2. Chan[n] \in Channels /\ Dir[n] \in Dirs /\ q \in [Channels -> [Dirs -> Seq(Nodes)]]
  BY NodeTypes DEF Inv, TypeOK, Dirs
<1> DEFINE s == q[Chan[n]][Dir[n]]
           t == IF n \in queuedIn THEN Erase(s, n) ELSE s
<1>3. s \in Seq(Nodes) /\ IsInjective(s) /\ (n \in queuedIn <=> n \in ToSet(s))
  BY <1>2 DEF Inv, QueueClean, Queued, Dirs
<1>4. t \in Seq(Nodes) /\ (s = <<>> => t = <<>>)
  <2>1. s = <<>> => ToSet(s) = {}
    BY DEF ToSet
  <2> QED
    BY <1>3, <2>1, EraseFacts
<1>5. q' = [q EXCEPT ![Chan[n]][Dir[n]] = t]
  BY <1>1, <1>2
<1> HIDE DEF t
<1>6. /\ q'[Chan[n]][Dir[n]] = t
      /\ \A d \in Dirs : c # Chan[n] \/ d # Dir[n] => q'[c][d] = q[c][d]
  BY <1>2, <1>4, <1>5, QueueUpdate
<1>7. Op(lock[c])' = Op(lock[c])
  BY <1>1 DEF Op
<1> QED
  BY <1>1, <1>4, <1>6, <1>7, HolderFacts, DrainsOneSided

\* Every step keeps OneSided, under Inv.
LEMMA NextSided ==
    ASSUME OneWaySelects, Inv, [Next]_vars, \A c \in Channels : OneSided(c)
    PROVE  \A c \in Channels : OneSided(c)'
<1> TAKE c \in Channels
<1>1. ASSUME UNCHANGED <<lock, at>>, \A d \in Dirs : q[c][d] = <<>> => q'[c][d] = <<>>
      PROVE  OneSided(c)'
  <2>1. Op(lock[c])' = Op(lock[c])
    BY <1>1 DEF Op
  <2> QED
    BY <1>1, <2>1, HolderFacts, DrainsOneSided
<1>2. ASSUME NEW s \in Selects, NEW r, TimerCompletes(s, r) PROVE OneSided(c)'
  BY <1>1, <1>2 DEF TimerCompletes, queues, agent
<1>3. ASSUME NEW s \in Selects, CancelTask(s) PROVE OneSided(c)'
  BY <1>2, <1>3, UnSided DEF CancelTask, CancelSibling
<1>4. ASSUME NEW n \in Nodes, CancelPlain(n) PROVE OneSided(c)'
  BY <1>4, UnSided DEF CancelPlain
<1>5. ASSUME NEW k \in Channels, Close(k) PROVE OneSided(c)'
  <2>1. q' = [q EXCEPT ![k]["recv"] = <<>>] /\ UNCHANGED <<lock, at>>
    BY <1>5 DEF Close, agent
  <2>2. q \in [Channels -> [Dirs -> Seq(Nodes)]] /\ <<>> \in Seq(Nodes) /\ "recv" \in Dirs
    BY DEF Inv, TypeOK, Dirs
  <2>3. /\ q'[k]["recv"] = <<>>
        /\ \A d \in Dirs : c # k \/ d # "recv" => q'[c][d] = q[c][d]
    BY <2>1, <2>2, QueueUpdate
  <2> QED
    BY <1>1, <2>1, <2>3
<1>6. ASSUME NEW k \in Channels, CloseCalls(k) PROVE OneSided(c)'
  BY <1>1, <1>6 DEF CloseCalls, agent
<1>7. ASSUME UNCHANGED vars PROVE OneSided(c)'
  BY <1>1, <1>7 DEF vars, queues, agent
<1> QED
  BY <1>2, <1>3, <1>4, <1>5, <1>6, <1>7, StepSided DEF Next, Finished

\* No sender and receiver wait past each other while nobody is in an operation on
\* the channel, for selects that use a channel in one direction: the guard that
\* looks at the back of the queue only (channel.hpp:201) then misses nobody.
THEOREM NothingLost == OneWaySelects => (Spec => []NoLostRendezvous)
<1> SUFFICES ASSUME OneWaySelects PROVE Spec => []NoLostRendezvous
  OBVIOUS
<1>1. Init => \A c \in Channels : OneSided(c)
  BY DEF Init, OneSided
<1>2. Inv /\ (\A c \in Channels : OneSided(c)) /\ [Next]_vars
      => (\A c \in Channels : OneSided(c))'
  BY NextSided
<1>3. (\A c \in Channels : OneSided(c)) => NoLostRendezvous
  <2>1. ToSet(<<>>) = {}
    BY DEF ToSet
  <2> QED
    BY <2>1 DEF OneSided, NoLostRendezvous
<1> QED
  BY <1>1, <1>2, <1>3, ChannelInvariance, PTL DEF Spec

\* DEBUG_ASSERT(!is_same_select(...)) of channel.hpp:271 holds for such selects.
THEOREM NoSelfMatchOneWay == OneWaySelects => (Spec => []NoSelfMatch)
<1> SUFFICES ASSUME OneWaySelects PROVE Spec => []NoSelfMatch
  OBVIOUS
<1>1. Inv => NoSelfMatch
  BY PeerFacts, NotSame DEF NoSelfMatch
<1> QED
  BY <1>1, ChannelInvariance, PTL

=============================================================================
