------------------------- MODULE FlattenCFG_proofs -------------------------
(***************************************************************************)
(* Joining blocks, for every control flow graph.  What keeps the queue     *)
(* free of erased blocks is that a block which could be joined to a parent *)
(* is never in it: only the parent's turn brings a block into the queue,   *)
(* and then it is joined at once.                                          *)
(***************************************************************************)
EXTENDS FlattenCFG, FiniteSetTheorems, SequenceTheorems, TLAPS

(* Block c is all that some block branches to, which is its only parent.   *)
Joinable(c) == \E p \in Block \ {Entry} : succ[p] = <<c>> /\ bb_parents[c] = {p}

QueueInv ==
  \A i \in DOMAIN bb_queue : /\ bb_queue[i] # Entry
                             /\ Live(bb_queue[i])
                             /\ ~ Joinable(bb_queue[i])

(* A block is named for its first instruction and ends like its last one.  *)
EndsInv ==
  \A b \in Block : Live(b) => insns[b][1] = b /\ cfg[Last(insns[b])] = succ[b]

(***************************************************************************)
(* What the maps say of a sequence s of instructions: l is the width of    *)
(* its first access to register r if that is a load, w that of its last    *)
(* store, and f its latest value.                                          *)
(***************************************************************************)
Loaded(s, r, l) ==
  /\ l # 0 => \E i \in DOMAIN s : /\ InsnLoads[s[i]][r] = l
                                  /\ \A j \in DOMAIN s : j < i =>
                                       InsnLoads[s[j]][r] = 0 /\ InsnStores[s[j]][r] = 0
  /\ l = 0 => \A i \in DOMAIN s : InsnLoads[s[i]][r] # 0 =>
                \E j \in DOMAIN s : j < i /\ InsnStores[s[j]][r] # 0

Stored(s, r, w) ==
  /\ w # 0 => \E i \in DOMAIN s : /\ InsnStores[s[i]][r] = w
                                  /\ \A j \in DOMAIN s : j > i => InsnStores[s[j]][r] = 0
  /\ w = 0 => \A i \in DOMAIN s : InsnStores[s[i]][r] = 0

Latest(s, r, f) ==
  /\ f.width # 0 => \E i \in DOMAIN s :
                      /\ f = InsnFresh(s[i], r)
                      /\ f.insn = s[i]
                      /\ \A j \in DOMAIN s : j > i => /\ InsnStores[s[j]][r] = 0
                                                     /\ InsnLoads[s[j]][r] < f.width
  /\ f.width = 0 => /\ f.insn = NoBlock
                    /\ \A i \in DOMAIN s : InsnStores[s[i]][r] = 0 /\ InsnLoads[s[i]][r] = 0
  /\ (\A i \in DOMAIN s : InsnStores[s[i]][r] = 0) =>
       \A i \in DOMAIN s : InsnLoads[s[i]][r] <= f.width

RegsInv ==
  \A b \in Block, r \in Reg : Live(b) =>
    /\ Loaded(insns[b], r, bb_ld_r_mp[b][r])
    /\ Stored(insns[b], r, bb_str_r_mp[b][r])
    /\ Latest(insns[b], r, r_fresh[b][r])

(* A visited block that does not wait for another turn is finished, and    *)
(* what it branches to was visited or will be.                             *)
Queued == Range(bb_queue)

VisitInv ==
  /\ First \in visited \cup Queued
  /\ \A b \in visited \ Queued : ~ CanJoin(b) /\ Succ(b) \subseteq visited \cup Queued

IInv ==
  /\ TypeOK
  /\ ParentsAreExact
  /\ QueueInv
  /\ EndsInv
  /\ JoinsAreSound
  /\ RegsInv
-----------------------------------------------------------------------------
USE BlockAssumption

(* What a block branches to: at most two blocks, none the entry block.     *)
LEMMA BranchShape ==
  ASSUME NEW g, IsCFG(g), NEW b \in Block
  PROVE  /\ g[b] \in Seq(Block \ {Entry})
         /\ Len(g[b]) \in 0 .. 2
         /\ DOMAIN g[b] = 1 .. Len(g[b])
         /\ Range(g[b]) \subseteq Block \ {Entry}
         /\ Len(g[b]) = 0 <=> g[b] = <<>>
         /\ Len(g[b]) = 1 => g[b] = <<g[b][1]>> /\ g[b][1] \in Block \ {Entry}
<1> DEFINE T == Block \ {Entry}
<1>1. PICK n \in 0 .. 2 : g[b] \in [1 .. n -> T]
  BY DEF IsCFG
<1>2. g[b] \in Seq(T) /\ Len(g[b]) = n /\ DOMAIN g[b] = 1 .. n
  BY <1>1, SeqDef, LenProperties
<1>3. Range(g[b]) \subseteq T
  BY <1>1 DEF Range
<1>4. n = 0 <=> g[b] = <<>>
  BY <1>2, EmptySeq
<1>5. ASSUME n = 1 PROVE g[b] = <<g[b][1]>> /\ g[b][1] \in T
  BY <1>1, <1>2, <1>5
<1> QED BY <1>2, <1>3, <1>4, <1>5

LEMMA Concatenation ==
  ASSUME NEW S, NEW s \in Seq(S), NEW t \in Seq(S), s # <<>>, t # <<>>
  PROVE  /\ Len(s) \in Nat \ {0} /\ Len(t) \in Nat \ {0}
         /\ DOMAIN s = 1 .. Len(s) /\ DOMAIN t = 1 .. Len(t)
         /\ DOMAIN (s \o t) = 1 .. Len(s) + Len(t)
         /\ \A i \in 1 .. Len(s) : (s \o t)[i] = s[i]
         /\ \A i \in 1 .. Len(t) : (s \o t)[Len(s) + i] = t[i]
         /\ s \o t # <<>> /\ s \o t \in Seq(S)
         /\ Last(s \o t) = Last(t) /\ Last(s) = s[Len(s)]
<1>1. Len(s) \in Nat \ {0} /\ Len(t) \in Nat \ {0}
  BY EmptySeq, LenProperties
<1>2. DOMAIN s = 1 .. Len(s) /\ DOMAIN t = 1 .. Len(t)
  BY LenProperties
<1>3. Len(s \o t) = Len(s) + Len(t) /\ DOMAIN (s \o t) = 1 .. Len(s) + Len(t)
  BY <1>1
<1>4. /\ \A i \in 1 .. Len(s) : (s \o t)[i] = s[i]
      /\ \A i \in 1 .. Len(t) : (s \o t)[Len(s) + i] = t[i]
  BY <1>1
<1>5. s \o t # <<>> /\ s \o t \in Seq(S)
  BY <1>1
<1>6. Last(s \o t) = Last(t) /\ Last(s) = s[Len(s)]
  BY <1>1, <1>3, <1>4 DEF Last
<1> QED BY <1>1, <1>2, <1>3, <1>4, <1>5, <1>6

LEMMA BranchOfOne ==
  ASSUME NEW c PROVE Range(<<c>>) = {c} /\ Range(<<>>) = {}
BY DEF Range

(* A single parent is the only one. *)
LEMMA OnlyParent ==
  ASSUME TypeOK, NEW b \in Block, NEW c \in Block, b \in bb_parents[c]
  PROVE  OneParent(c) <=> bb_parents[c] = {b}
<1>1. IsFiniteSet(bb_parents[c])
  BY FS_Subset DEF TypeOK
<1> QED BY <1>1, FS_Singleton DEF OneParent

(* The block a joined one goes to is its only parent, and not itself.      *)
LEMMA JoinedBlock ==
  ASSUME IInv, NEW b \in Block, CanJoin(b), b # Entry, ~ Joinable(b)
  PROVE  /\ succ[b] = <<succ[b][1]>>
         /\ succ[b][1] \in Block \ {Entry, b}
         /\ bb_parents[succ[b][1]] = {b}
         /\ Live(succ[b][1])
         /\ Joinable(succ[b][1])
<1> DEFINE c == succ[b][1]
<1>1. succ[b] = <<c>> /\ c \in Block \ {Entry}
  BY BranchShape DEF CanJoin, IInv, TypeOK
<1>2. b \in bb_parents[c]
  <2>1. c \in Succ(b)
    BY <1>1 DEF Succ, Range
  <2> QED BY <1>1, <2>1 DEF IInv, ParentsAreExact
<1>3. bb_parents[c] = {b}
  BY <1>1, <1>2, OnlyParent DEF CanJoin, IInv
<1>4. Live(c)
  BY <1>1, <1>2 DEF IInv, ParentsAreExact
<1>5. Joinable(c)
  BY <1>1, <1>3 DEF Joinable
<1> QED BY <1>1, <1>3, <1>4, <1>5
-----------------------------------------------------------------------------
(***************************************************************************)
(* The registers of two blocks, one behind the other.                      *)
(***************************************************************************)
LEMMA InsnWidths ==
  ASSUME NEW i \in Block, NEW r \in Reg
  PROVE  InsnLoads[i][r] \in Nat /\ InsnStores[i][r] \in Nat
<1>1. InsnLoads[i] \in RegMap /\ InsnStores[i] \in RegMap
  BY RegsAssumption
<1>2. InsnLoads[i][r] \in Width /\ InsnStores[i][r] \in Width
  BY <1>1 DEF RegMap
<1> QED BY <1>2, WidthAssumption

(* An index into s \o t is one into s or one into t. *)
LEMMA Indices ==
  ASSUME NEW S, NEW s \in Seq(S), NEW t \in Seq(S), s # <<>>, t # <<>>,
         NEW k \in DOMAIN (s \o t)
  PROVE  \/ k \in DOMAIN s /\ (s \o t)[k] = s[k] /\ k <= Len(s)
         \/ \E i \in DOMAIN t : k = Len(s) + i /\ (s \o t)[k] = t[i] /\ k > Len(s)
<1>1. /\ Len(s) \in Nat \ {0} /\ Len(t) \in Nat \ {0}
      /\ DOMAIN s = 1 .. Len(s) /\ DOMAIN t = 1 .. Len(t)
      /\ DOMAIN (s \o t) = 1 .. Len(s) + Len(t)
      /\ \A i \in 1 .. Len(s) : (s \o t)[i] = s[i]
      /\ \A i \in 1 .. Len(t) : (s \o t)[Len(s) + i] = t[i]
  BY Concatenation
<1>2. CASE k <= Len(s)
  BY <1>1, <1>2
<1>3. CASE k > Len(s)
  <2>1. k - Len(s) \in DOMAIN t /\ k = Len(s) + (k - Len(s))
    BY <1>1, <1>3
  <2> QED BY <1>1, <1>3, <2>1
<1> QED BY <1>1, <1>2, <1>3

LEMMA LoadedConcatenation ==
  ASSUME NEW s \in Seq(Block), NEW t \in Seq(Block), s # <<>>, t # <<>>,
         NEW r \in Reg, NEW l \in Nat, NEW m \in Nat, NEW w \in Nat,
         Loaded(s, r, l), Stored(s, r, w), Loaded(t, r, m)
  PROVE  Loaded(s \o t, r, IF l # 0 \/ w # 0 THEN l ELSE m)
<1> DEFINE u == s \o t
           n == Len(s)
<1>1. /\ n \in Nat \ {0}
      /\ DOMAIN s = 1 .. n /\ DOMAIN t = 1 .. Len(t) /\ DOMAIN u = 1 .. n + Len(t)
      /\ Len(t) \in Nat \ {0}
      /\ \A i \in DOMAIN s : i \in DOMAIN u /\ u[i] = s[i]
      /\ \A i \in DOMAIN t : n + i \in DOMAIN u /\ u[n + i] = t[i]
  BY Concatenation
<1>2. \A k \in DOMAIN u :
        \/ k \in DOMAIN s /\ u[k] = s[k] /\ k <= n
        \/ \E i \in DOMAIN t : k = n + i /\ u[k] = t[i] /\ k > n
  BY Indices
<1> HIDE DEF u, n
<1>3. CASE l # 0
  <2>1. PICK i \in DOMAIN s : /\ InsnLoads[s[i]][r] = l
                              /\ \A j \in DOMAIN s : j < i =>
                                   InsnLoads[s[j]][r] = 0 /\ InsnStores[s[j]][r] = 0
    BY <1>3 DEF Loaded
  <2>2. i \in DOMAIN u /\ InsnLoads[u[i]][r] = l
    BY <1>1, <2>1
  <2>3. ASSUME NEW j \in DOMAIN u, j < i
        PROVE  InsnLoads[u[j]][r] = 0 /\ InsnStores[u[j]][r] = 0
    BY <1>1, <1>2, <2>1, <2>3
  <2> QED BY <1>3, <2>2, <2>3 DEF Loaded, u
<1>4. CASE l = 0 /\ w # 0
  <2>1. PICK k \in DOMAIN s : InsnStores[s[k]][r] # 0
    BY <1>4 DEF Stored
  <2>2. ASSUME NEW i \in DOMAIN u, InsnLoads[u[i]][r] # 0
        PROVE  \E j \in DOMAIN u : j < i /\ InsnStores[u[j]][r] # 0
    <3>1. CASE i \in DOMAIN s /\ u[i] = s[i]
      <4>1. \E j \in DOMAIN s : j < i /\ InsnStores[s[j]][r] # 0
        BY <1>4, <2>2, <3>1 DEF Loaded
      <4> QED BY <1>1, <4>1
    <3>2. CASE i > n
      BY <1>1, <2>1, <3>2
    <3> QED BY <1>2, <3>1, <3>2
  <2> QED BY <1>4, <2>2 DEF Loaded, u
<1>5. CASE l = 0 /\ w = 0
  <2>1. \A j \in DOMAIN s : InsnLoads[s[j]][r] = 0 /\ InsnStores[s[j]][r] = 0
    BY <1>5 DEF Loaded, Stored
  <2>2. CASE m # 0
    <3>1. PICK i \in DOMAIN t : /\ InsnLoads[t[i]][r] = m
                                /\ \A j \in DOMAIN t : j < i =>
                                     InsnLoads[t[j]][r] = 0 /\ InsnStores[t[j]][r] = 0
      BY <2>2 DEF Loaded
    <3>2. n + i \in DOMAIN u /\ InsnLoads[u[n + i]][r] = m
      BY <1>1, <3>1
    <3>3. ASSUME NEW j \in DOMAIN u, j < n + i
          PROVE  InsnLoads[u[j]][r] = 0 /\ InsnStores[u[j]][r] = 0
      <4>1. CASE j \in DOMAIN s /\ u[j] = s[j]
        BY <2>1, <4>1
      <4>2. CASE \E k \in DOMAIN t : j = n + k /\ u[j] = t[k]
        BY <1>1, <3>1, <3>3, <4>2
      <4> QED BY <1>2, <4>1, <4>2
    <3> QED BY <1>5, <2>2, <3>2, <3>3 DEF Loaded, u
  <2>3. CASE m = 0
    <3>1. ASSUME NEW i \in DOMAIN u, InsnLoads[u[i]][r] # 0
          PROVE  \E j \in DOMAIN u : j < i /\ InsnStores[u[j]][r] # 0
      <4>1. PICK k \in DOMAIN t : i = n + k /\ u[i] = t[k]
        BY <1>2, <2>1, <3>1
      <4>2. PICK j \in DOMAIN t : j < k /\ InsnStores[t[j]][r] # 0
        BY <2>3, <3>1, <4>1 DEF Loaded
      <4>3. n + j \in DOMAIN u /\ n + j < i /\ InsnStores[u[n + j]][r] # 0
        BY <1>1, <4>1, <4>2
      <4> QED BY <4>3
    <3> QED BY <1>5, <2>3, <3>1 DEF Loaded, u
  <2> QED BY <2>2, <2>3
<1> QED BY <1>3, <1>4, <1>5

LEMMA StoredConcatenation ==
  ASSUME NEW s \in Seq(Block), NEW t \in Seq(Block), s # <<>>, t # <<>>,
         NEW r \in Reg, NEW v \in Nat, NEW w \in Nat,
         Stored(s, r, v), Stored(t, r, w)
  PROVE  Stored(s \o t, r, IF w # 0 THEN w ELSE v)
<1> DEFINE u == s \o t
           n == Len(s)
<1>1. /\ n \in Nat \ {0}
      /\ DOMAIN s = 1 .. n /\ DOMAIN t = 1 .. Len(t) /\ DOMAIN u = 1 .. n + Len(t)
      /\ Len(t) \in Nat \ {0}
      /\ \A i \in DOMAIN s : i \in DOMAIN u /\ u[i] = s[i]
      /\ \A i \in DOMAIN t : n + i \in DOMAIN u /\ u[n + i] = t[i]
  BY Concatenation
<1>2. \A k \in DOMAIN u :
        \/ k \in DOMAIN s /\ u[k] = s[k] /\ k <= n
        \/ \E i \in DOMAIN t : k = n + i /\ u[k] = t[i] /\ k > n
  BY Indices
<1> HIDE DEF u, n
<1>3. CASE w # 0
  <2>1. PICK i \in DOMAIN t : /\ InsnStores[t[i]][r] = w
                              /\ \A j \in DOMAIN t : j > i => InsnStores[t[j]][r] = 0
    BY <1>3 DEF Stored
  <2>2. n + i \in DOMAIN u /\ InsnStores[u[n + i]][r] = w
    BY <1>1, <2>1
  <2>3. ASSUME NEW j \in DOMAIN u, j > n + i
        PROVE  InsnStores[u[j]][r] = 0
    <3>1. PICK k \in DOMAIN t : j = n + k /\ u[j] = t[k]
      BY <1>1, <1>2, <2>3
    <3> QED BY <1>1, <2>1, <2>3, <3>1
  <2> QED BY <1>3, <2>2, <2>3 DEF Stored, u
<1>4. CASE w = 0 /\ v # 0
  <2>1. PICK i \in DOMAIN s : /\ InsnStores[s[i]][r] = v
                              /\ \A j \in DOMAIN s : j > i => InsnStores[s[j]][r] = 0
    BY <1>4 DEF Stored
  <2>2. i \in DOMAIN u /\ InsnStores[u[i]][r] = v
    BY <1>1, <2>1
  <2>3. ASSUME NEW j \in DOMAIN u, j > i
        PROVE  InsnStores[u[j]][r] = 0
    BY <1>2, <1>4, <2>1, <2>3 DEF Stored
  <2> QED BY <1>4, <2>2, <2>3 DEF Stored, u
<1>5. CASE w = 0 /\ v = 0
  BY <1>2, <1>5 DEF Stored, u
<1> QED BY <1>3, <1>4, <1>5

LEMMA LatestConcatenation ==
  ASSUME NEW s \in Seq(Block), NEW t \in Seq(Block), s # <<>>, t # <<>>,
         NEW r \in Reg, NEW f \in Fresh, NEW g \in Fresh, NEW w \in Nat,
         Latest(s, r, f), Latest(t, r, g), Stored(t, r, w)
  PROVE  Latest(s \o t, r, IF w # 0 \/ f.width <= g.width THEN g ELSE f)
<1> DEFINE u == s \o t
           n == Len(s)
           h == IF w # 0 \/ f.width <= g.width THEN g ELSE f
<1>1. /\ n \in Nat \ {0}
      /\ DOMAIN s = 1 .. n /\ DOMAIN t = 1 .. Len(t) /\ DOMAIN u = 1 .. n + Len(t)
      /\ Len(t) \in Nat \ {0}
      /\ \A i \in DOMAIN s : i \in DOMAIN u /\ u[i] = s[i]
      /\ \A i \in DOMAIN t : n + i \in DOMAIN u /\ u[n + i] = t[i]
  BY Concatenation
<1>2. \A k \in DOMAIN u :
        \/ k \in DOMAIN s /\ u[k] = s[k] /\ k <= n
        \/ \E i \in DOMAIN t : k = n + i /\ u[k] = t[i] /\ k > n
  BY Indices
<1>3. f.width \in Nat /\ g.width \in Nat
  BY WidthAssumption DEF Fresh
<1>4. /\ \A i \in DOMAIN s : InsnLoads[s[i]][r] \in Nat /\ InsnStores[s[i]][r] \in Nat
      /\ \A i \in DOMAIN t : InsnLoads[t[i]][r] \in Nat /\ InsnStores[t[i]][r] \in Nat
  BY InsnWidths, ElementOfSeq, <1>1
<1> HIDE DEF u, n
<1>5. ASSUME h = g, w # 0 \/ f.width <= g.width
      PROVE  Latest(u, r, g)
  <2>1. ASSUME g.width # 0
        PROVE  \E i \in DOMAIN u :
                 /\ g = InsnFresh(u[i], r) /\ g.insn = u[i]
                 /\ \A j \in DOMAIN u : j > i => /\ InsnStores[u[j]][r] = 0
                                                /\ InsnLoads[u[j]][r] < g.width
    <3>1. PICK i \in DOMAIN t :
            /\ g = InsnFresh(t[i], r) /\ g.insn = t[i]
            /\ \A j \in DOMAIN t : j > i => /\ InsnStores[t[j]][r] = 0
                                           /\ InsnLoads[t[j]][r] < g.width
      BY <2>1 DEF Latest
    <3>2. n + i \in DOMAIN u /\ u[n + i] = t[i]
      BY <1>1
    <3>3. ASSUME NEW j \in DOMAIN u, j > n + i
          PROVE  InsnStores[u[j]][r] = 0 /\ InsnLoads[u[j]][r] < g.width
      <4>1. PICK k \in DOMAIN t : j = n + k /\ u[j] = t[k]
        BY <1>1, <1>2, <3>3
      <4> QED BY <1>1, <3>1, <3>3, <4>1
    <3> QED BY <3>1, <3>2, <3>3
  <2>2. ASSUME g.width = 0
        PROVE  /\ g.insn = NoBlock
               /\ \A i \in DOMAIN u : InsnStores[u[i]][r] = 0 /\ InsnLoads[u[i]][r] = 0
    <3>1. /\ g.insn = NoBlock
          /\ \A i \in DOMAIN t : InsnStores[t[i]][r] = 0 /\ InsnLoads[t[i]][r] = 0
      BY <2>2 DEF Latest
    <3>2. f.width = 0
      BY <1>3, <1>5, <2>2, <3>1 DEF Stored
    <3>3. \A i \in DOMAIN s : InsnStores[s[i]][r] = 0 /\ InsnLoads[s[i]][r] = 0
      BY <3>2 DEF Latest
    <3> QED BY <1>2, <3>1, <3>3
  <2>3. ASSUME \A i \in DOMAIN u : InsnStores[u[i]][r] = 0
        PROVE  \A i \in DOMAIN u : InsnLoads[u[i]][r] <= g.width
    <3>1. /\ \A i \in DOMAIN s : InsnStores[s[i]][r] = 0
          /\ \A i \in DOMAIN t : InsnStores[t[i]][r] = 0
      BY <1>1, <2>3
    <3>2. /\ \A i \in DOMAIN s : InsnLoads[s[i]][r] <= f.width
          /\ \A i \in DOMAIN t : InsnLoads[t[i]][r] <= g.width
      BY <3>1 DEF Latest
    <3>3. f.width <= g.width
      BY <1>5, <3>1 DEF Stored
    <3>4. \A i \in DOMAIN s : InsnLoads[s[i]][r] <= g.width
      BY <1>3, <1>4, <3>2, <3>3
    <3> QED BY <1>2, <3>2, <3>4
  <2> QED BY <2>1, <2>2, <2>3 DEF Latest
<1>6. ASSUME w = 0, ~ (f.width <= g.width)
      PROVE  Latest(u, r, f)
  <2>1. \A i \in DOMAIN t : InsnStores[t[i]][r] = 0
    BY <1>6 DEF Stored
  <2>2. \A i \in DOMAIN t : InsnLoads[t[i]][r] < f.width
    <3>1. \A i \in DOMAIN t : InsnLoads[t[i]][r] <= g.width
      BY <2>1 DEF Latest
    <3> QED BY <1>3, <1>4, <1>6, <3>1
  <2>3. PICK i \in DOMAIN s :
          /\ f = InsnFresh(s[i], r) /\ f.insn = s[i]
          /\ \A j \in DOMAIN s : j > i => /\ InsnStores[s[j]][r] = 0
                                         /\ InsnLoads[s[j]][r] < f.width
    BY <1>3, <1>6 DEF Latest
  <2>4. i \in DOMAIN u /\ u[i] = s[i]
    BY <1>1
  <2>5. ASSUME NEW j \in DOMAIN u, j > i
        PROVE  InsnStores[u[j]][r] = 0 /\ InsnLoads[u[j]][r] < f.width
    BY <1>2, <2>1, <2>2, <2>3, <2>5
  <2>6. f.width # 0
    BY <1>3, <1>6
  <2>7. ASSUME \A k \in DOMAIN u : InsnStores[u[k]][r] = 0
        PROVE  \A k \in DOMAIN u : InsnLoads[u[k]][r] <= f.width
    <3>1. \A k \in DOMAIN s : InsnStores[s[k]][r] = 0
      BY <1>1, <2>7
    <3>2. \A k \in DOMAIN s : InsnLoads[s[k]][r] <= f.width
      BY <3>1 DEF Latest
    <3>3. \A k \in DOMAIN t : InsnLoads[t[k]][r] <= f.width
      BY <1>3, <1>4, <2>2
    <3> QED BY <1>2, <3>2, <3>3
  <2> QED BY <2>3, <2>4, <2>5, <2>6, <2>7 DEF Latest
<1> QED BY <1>5, <1>6 DEF u

-----------------------------------------------------------------------------
LEMMA InitIInv == Init => IInv
<1> SUFFICES ASSUME Init PROVE IInv
  OBVIOUS
<1> USE DEF Init
<1>1. IsCFG(cfg) /\ IsCFG(succ)
  BY GraphsAssumption
<1>2. First \in Block \ {Entry} /\ succ[Entry] = <<First>>
  BY <1>1 DEF IsCFG
<1>3. TypeOK
  <2>1. ASSUME NEW b \in Block, NEW r \in Reg
        PROVE  InsnFresh(b, r) \in Fresh
    BY RegsAssumption, WidthAssumption DEF InsnFresh, Fresh, RegMap
  <2> QED BY <1>1, <1>2, <2>1, RegsAssumption DEF TypeOK
<1>4. ParentsAreExact
  BY DEF ParentsAreExact, Succ, Live
<1>5. QueueInv
  <2>1. Entry \in bb_parents[First]
    BY <1>2, BranchOfOne
  <2>2. Live(First)
    BY <1>2 DEF Live
  <2>3. ~ Joinable(First)
    BY <2>1 DEF Joinable
  <2>4. \A i \in DOMAIN bb_queue : bb_queue[i] = First
    OBVIOUS
  <2> QED BY <1>2, <2>2, <2>3, <2>4 DEF QueueInv
<1>6. EndsInv
  BY DEF EndsInv, Last
<1>7. JoinsAreSound
  BY BranchOfOne DEF JoinsAreSound
<1>8. RegsInv
  <2> SUFFICES ASSUME NEW b \in Block, NEW r \in Reg
               PROVE  /\ Loaded(<<b>>, r, InsnLoads[b][r])
                      /\ Stored(<<b>>, r, InsnStores[b][r])
                      /\ Latest(<<b>>, r, InsnFresh(b, r))
    BY DEF RegsInv
  <2>1. DOMAIN <<b>> = {1} /\ <<b>>[1] = b
    OBVIOUS
  <2>2. Loaded(<<b>>, r, InsnLoads[b][r]) /\ Stored(<<b>>, r, InsnStores[b][r])
    BY <2>1 DEF Loaded, Stored
  <2>3. Latest(<<b>>, r, InsnFresh(b, r))
    <3> DEFINE l == InsnLoads[b][r]
               w == InsnStores[b][r]
    <3>1. l \in Nat /\ w \in Nat
      BY InsnWidths
    <3>2. InsnFresh(b, r) = IF w # 0 THEN [insn |-> b, width |-> w]
                            ELSE IF l # 0 THEN [insn |-> b, width |-> l]
                            ELSE [insn |-> NoBlock, width |-> 0]
      BY DEF InsnFresh
    <3> QED BY <2>1, <3>1, <3>2 DEF Latest
  <2> QED BY <2>2, <2>3
<1> QED BY <1>3, <1>4, <1>5, <1>6, <1>7, <1>8 DEF IInv
-----------------------------------------------------------------------------
LEMMA HeadOfQueue ==
  ASSUME IInv, bb_queue # <<>>
  PROVE  /\ Head(bb_queue) \in Block \ {Entry}
         /\ Live(Head(bb_queue)) /\ ~ Joinable(Head(bb_queue))
         /\ Tail(bb_queue) \in Seq(Block)
         /\ \A i \in DOMAIN Tail(bb_queue) :
              \E j \in DOMAIN bb_queue : Tail(bb_queue)[i] = bb_queue[j]
<1>1. bb_queue \in Seq(Block)
  BY DEF IInv, TypeOK
<1>2. 1 \in DOMAIN bb_queue /\ Head(bb_queue) = bb_queue[1]
  BY <1>1, EmptySeq, LenProperties
<1>3. /\ Tail(bb_queue) \in Seq(Block)
      /\ \A i \in DOMAIN Tail(bb_queue) :
           i + 1 \in DOMAIN bb_queue /\ Tail(bb_queue)[i] = bb_queue[i + 1]
  BY <1>1
<1>4. Head(bb_queue) \in Block
  BY <1>1, <1>2, ElementOfSeq
<1> QED BY <1>2, <1>3, <1>4 DEF IInv, QueueInv

LEMMA UnvisitedAreSuccessors ==
  ASSUME TypeOK, NEW b \in Block, NEW seen
  PROVE  /\ UnvisitedSuccs(b, seen) \in Seq(Block)
         /\ \A i \in DOMAIN UnvisitedSuccs(b, seen) : UnvisitedSuccs(b, seen)[i] \in Succ(b)
<1>1. /\ Len(succ[b]) \in 0 .. 2 /\ DOMAIN succ[b] = 1 .. Len(succ[b])
      /\ Succ(b) \subseteq Block
  BY BranchShape DEF TypeOK, Succ
<1>2. ASSUME NEW k \in 1 .. Len(succ[b])
      PROVE  succ[b][k] \in Succ(b)
  BY <1>1 DEF Succ, Range
<1>3. ASSUME NEW c \in Succ(b)
      PROVE  /\ PushSuccessor(c, seen) \in Seq(Block)
             /\ \A i \in DOMAIN PushSuccessor(c, seen) : PushSuccessor(c, seen)[i] \in Succ(b)
  BY <1>1 DEF PushSuccessor
<1>4. CASE Len(succ[b]) = 0
  BY <1>4 DEF UnvisitedSuccs
<1>5. CASE Len(succ[b]) = 1
  BY <1>2, <1>3, <1>5 DEF UnvisitedSuccs
<1>6. CASE Len(succ[b]) = 2
  <2> DEFINE s == PushSuccessor(succ[b][1], seen)
             t == PushSuccessor(succ[b][2], seen)
  <2>1. /\ s \in Seq(Block) /\ t \in Seq(Block)
        /\ \A i \in DOMAIN s : s[i] \in Succ(b)
        /\ \A i \in DOMAIN t : t[i] \in Succ(b)
    BY <1>2, <1>3, <1>6
  <2>2. UnvisitedSuccs(b, seen) = s \o t
    BY <1>6 DEF UnvisitedSuccs
  <2> HIDE DEF s, t
  <2>3. s \o t \in Seq(Block) /\ \A i \in DOMAIN (s \o t) : (s \o t)[i] \in Succ(b)
    BY <2>1
  <2> QED BY <2>2, <2>3
<1> QED BY <1>1, <1>4, <1>5, <1>6

(* A block that is kept brings no block into the queue that can be joined. *)
LEMMA KeepIInv ==
  ASSUME IInv, bb_queue # <<>>, Keep(Head(bb_queue))
  PROVE  IInv'
<1> DEFINE b == Head(bb_queue)
<1>1. /\ b \in Block \ {Entry} /\ Tail(bb_queue) \in Seq(Block)
      /\ \A i \in DOMAIN Tail(bb_queue) :
           \E j \in DOMAIN bb_queue : Tail(bb_queue)[i] = bb_queue[j]
  BY HeadOfQueue
<1> DEFINE new == UnvisitedSuccs(b, visited')
<1>2. new \in Seq(Block) /\ \A i \in DOMAIN new : new[i] \in Succ(b)
  BY <1>1, UnvisitedAreSuccessors DEF IInv
<1>3. /\ bb_queue' = Tail(bb_queue) \o new /\ visited' = visited \cup {b}
      /\ ~ CanJoin(b)
      /\ UNCHANGED <<cfg, pc, succ, insns, bb_parents, regVars>>
  BY DEF Keep
<1>4. ASSUME NEW c \in Succ(b)
      PROVE  c # Entry /\ Live(c) /\ ~ Joinable(c)
  <2>1. c \in Block \ {Entry} /\ b \in bb_parents[c]
    BY <1>1, <1>4, BranchShape DEF IInv, TypeOK, ParentsAreExact, Succ
  <2>2. Live(c)
    BY <2>1 DEF IInv, ParentsAreExact
  <2>3. ASSUME Joinable(c) PROVE FALSE
    <3>1. succ[b] = <<c>> /\ bb_parents[c] = {b}
      BY <2>1, <2>3 DEF Joinable
    <3>2. OneParent(c)
      BY <1>1, <2>1, <3>1, OnlyParent DEF IInv
    <3> QED BY <1>3, <3>1, <3>2 DEF CanJoin
  <2> QED BY <2>1, <2>2, <2>3
<1> HIDE DEF b, new
<1>5. bb_queue' \in Seq(Block)
  BY <1>1, <1>2, <1>3
<1>6. TypeOK'
  BY <1>1, <1>3, <1>5 DEF IInv, TypeOK, regVars
<1>7. QueueInv'
  <2> SUFFICES ASSUME NEW i \in DOMAIN bb_queue'
               PROVE  /\ bb_queue'[i] # Entry
                      /\ Live(bb_queue'[i]) /\ ~ Joinable(bb_queue'[i])
    BY <1>3 DEF QueueInv, Live, Joinable
  <2>1. \/ \E j \in DOMAIN bb_queue : bb_queue'[i] = bb_queue[j]
        \/ bb_queue'[i] \in Succ(b)
    <3>1. CASE i \in DOMAIN Tail(bb_queue)
      BY <1>1, <1>2, <1>3, <3>1
    <3>2. CASE i \notin DOMAIN Tail(bb_queue)
      <4>1. i - Len(Tail(bb_queue)) \in DOMAIN new
        BY <1>1, <1>2, <1>3, <3>2
      <4>2. bb_queue'[i] = new[i - Len(Tail(bb_queue))]
        BY <1>1, <1>2, <1>3, <3>2
      <4> QED BY <1>2, <4>1, <4>2
    <3> QED BY <3>1, <3>2
  <2> QED BY <1>4, <2>1 DEF IInv, QueueInv
<1>8. ParentsAreExact' /\ EndsInv' /\ JoinsAreSound'
  BY <1>3 DEF IInv, ParentsAreExact, EndsInv, JoinsAreSound, Succ, Live
<1>9. RegsInv'
  BY <1>3 DEF IInv, RegsInv, Live, regVars
<1> QED BY <1>6, <1>7, <1>8, <1>9 DEF IInv
-----------------------------------------------------------------------------
(* The two blocks of a join, and what it does to them. *)
LEMMA JoinedBlocks ==
  ASSUME IInv, bb_queue # <<>>, Join(Head(bb_queue))
  PROVE  \E b \in Block \ {Entry}, c \in Block \ {Entry} :
        /\ b = Head(bb_queue) /\ b # c
        /\ succ[b] = <<c>> /\ succ[b][1] = c
        /\ bb_parents[c] = {b}
        /\ Live(b) /\ Live(c)
        /\ ~ Joinable(b) /\ Joinable(c)
        /\ visited' = visited \cup {b}
        /\ succ' = [succ EXCEPT ![b] = succ[c], ![c] = <<>>]
        /\ insns' = [insns EXCEPT ![b] = insns[b] \o insns[c], ![c] = <<>>]
        /\ bb_ld_r_mp' = [bb_ld_r_mp EXCEPT ![b] = JoinedLoads(b, c)]
        /\ bb_str_r_mp' = [bb_str_r_mp EXCEPT ![b] = JoinedStores(b, c)]
        /\ r_fresh' = [r_fresh EXCEPT ![b] = JoinedFresh(b, c)]
        /\ ReplaceParent(b, c)
        /\ bb_queue' = Requeued(b, c)
        /\ cfg' = cfg /\ pc' = pc
<1> DEFINE b == Head(bb_queue)
           c == succ[b][1]
<1>1. CanJoin(b)
  BY DEF Join
<1>2. b \in Block \ {Entry} /\ Live(b) /\ ~ Joinable(b)
  BY HeadOfQueue
<1>3. /\ c \in Block \ {Entry, b} /\ succ[b] = <<c>>
      /\ bb_parents[c] = {b} /\ Live(c) /\ Joinable(c)
  BY <1>1, <1>2, JoinedBlock
<1> QED BY <1>2, <1>3 DEF Join

(***************************************************************************)
(* Block c, all that b branches to, is joined to b: the steps 1 to 5 are   *)
(* what that changes, the others what it keeps.                            *)
(***************************************************************************)
LEMMA JoinIInv ==
  ASSUME IInv, bb_queue # <<>>, Join(Head(bb_queue))
  PROVE  IInv'
<1>1. PICK b \in Block \ {Entry}, c \in Block \ {Entry} :
        /\ b = Head(bb_queue) /\ b # c
        /\ succ[b] = <<c>> /\ succ[b][1] = c
        /\ bb_parents[c] = {b}
        /\ Live(b) /\ Live(c)
        /\ ~ Joinable(b) /\ Joinable(c)
        /\ visited' = visited \cup {b}
        /\ succ' = [succ EXCEPT ![b] = succ[c], ![c] = <<>>]
        /\ insns' = [insns EXCEPT ![b] = insns[b] \o insns[c], ![c] = <<>>]
        /\ bb_ld_r_mp' = [bb_ld_r_mp EXCEPT ![b] = JoinedLoads(b, c)]
        /\ bb_str_r_mp' = [bb_str_r_mp EXCEPT ![b] = JoinedStores(b, c)]
        /\ r_fresh' = [r_fresh EXCEPT ![b] = JoinedFresh(b, c)]
        /\ ReplaceParent(b, c)
        /\ bb_queue' = Requeued(b, c)
        /\ cfg' = cfg /\ pc' = pc
  BY JoinedBlocks
<1> TypeOK /\ ParentsAreExact /\ QueueInv /\ EndsInv /\ JoinsAreSound
  BY DEF IInv
<1>2. /\ Range(succ'[b]) = Succ(c) /\ Range(succ'[c]) = {} /\ Succ(b) = {c}
      /\ succ'[b] = succ[c] /\ succ'[c] = <<>>
      /\ \A p \in Block \ {b, c} : succ'[p] = succ[p]
  <2>1. /\ succ'[b] = succ[c] /\ succ'[c] = <<>>
        /\ \A p \in Block \ {b, c} : succ'[p] = succ[p]
    BY <1>1 DEF TypeOK, IsCFG
  <2> QED BY <1>1, <2>1, BranchOfOne DEF Succ
<1>3. c \notin Succ(c) /\ \A p \in Block : Succ(p) \subseteq Block \ {Entry}
  BY <1>1, BranchShape DEF TypeOK, Succ, ParentsAreExact
<1>4. /\ insns'[b] = insns[b] \o insns[c] /\ insns'[c] = <<>>
      /\ \A d \in Block \ {b, c} : insns'[d] = insns[d]
      /\ insns[b] \in Seq(Block) /\ insns[c] \in Seq(Block)
      /\ insns[b] # <<>> /\ insns[c] # <<>> /\ insns'[b] # <<>>
      /\ \A d \in Block : insns'[d] # <<>> <=> Live(d) /\ d # c
  <2>1. /\ insns'[b] = insns[b] \o insns[c] /\ insns'[c] = <<>>
        /\ \A d \in Block \ {b, c} : insns'[d] = insns[d]
        /\ insns[b] \in Seq(Block) /\ insns[c] \in Seq(Block)
    BY <1>1 DEF TypeOK
  <2>2. insns[b] # <<>> /\ insns[c] # <<>>
    BY <1>1 DEF Live
  <2>3. insns'[b] # <<>>
    BY <2>1, <2>2, Concatenation
  <2> QED BY <1>1, <2>1, <2>2, <2>3 DEF Live
<1> DEFINE n == Len(insns[b])
           m == Len(insns[c])
<1>5. /\ n \in Nat \ {0} /\ m \in Nat \ {0}
      /\ DOMAIN insns[b] = 1 .. n /\ DOMAIN insns[c] = 1 .. m
      /\ DOMAIN insns'[b] = 1 .. n + m
      /\ \A i \in 1 .. n : insns'[b][i] = insns[b][i]
      /\ \A i \in 1 .. m : insns'[b][n + i] = insns[c][i]
      /\ Last(insns'[b]) = Last(insns[c]) /\ Last(insns[b]) = insns[b][n]
  <2> DEFINE s == insns[b]
             t == insns[c]
  <2>1. s \in Seq(Block) /\ t \in Seq(Block) /\ s # <<>> /\ t # <<>>
    BY <1>4
  <2>2. insns'[b] = s \o t
    BY <1>4
  <2> HIDE DEF s, t
  <2>3. /\ Len(s) \in Nat \ {0} /\ Len(t) \in Nat \ {0}
        /\ DOMAIN s = 1 .. Len(s) /\ DOMAIN t = 1 .. Len(t)
        /\ DOMAIN (s \o t) = 1 .. Len(s) + Len(t)
        /\ \A i \in 1 .. Len(s) : (s \o t)[i] = s[i]
        /\ \A i \in 1 .. Len(t) : (s \o t)[Len(s) + i] = t[i]
        /\ Last(s \o t) = Last(t) /\ Last(s) = s[Len(s)]
    BY <2>1, Concatenation
  <2> QED BY <2>2, <2>3 DEF s, t
<1> HIDE DEF n, m
<1>6. /\ bb_parents'[c] = {}
      /\ \A d \in Block \ {c} :
           bb_parents'[d] = IF d \in Succ(c) THEN (bb_parents[d] \ {c}) \cup {b}
                                             ELSE bb_parents[d]
  BY <1>1 DEF ReplaceParent
<1>7. TypeOK'
  <2>1. IsCFG(succ')
    <3> DEFINE S == UNION {[1 .. k -> Block \ {Entry}] : k \in 0 .. 2}
    <3>1. <<>> \in [1 .. 0 -> Block \ {Entry}]
      OBVIOUS
    <3>2. <<>> \in S
      BY <3>1
    <3>3. succ \in [Block -> S] /\ succ[Entry] = <<First>>
      BY DEF TypeOK, IsCFG
    <3> HIDE DEF S
    <3>4. succ' \in [Block -> S] /\ succ'[Entry] = <<First>>
      BY <1>1, <3>2, <3>3
    <3> QED BY <3>4 DEF S, IsCFG
  <2>2. insns' \in [Block -> Seq(Block)]
    <3>1. insns[b] \o insns[c] \in Seq(Block) /\ <<>> \in Seq(Block)
      BY <1>4
    <3> QED BY <1>1, <3>1 DEF TypeOK
  <2>3. bb_parents' \in [Block -> SUBSET Block]
    BY <1>1 DEF TypeOK, ReplaceParent
  <2>4. bb_queue' \in Seq(Block)
    BY <1>1, HeadOfQueue DEF Requeued
  <2>5. /\ JoinedLoads(b, c) \in RegMap /\ JoinedStores(b, c) \in RegMap
        /\ JoinedFresh(b, c) \in [Reg -> Fresh]
    BY <1>1 DEF TypeOK, RegMap, JoinedLoads, JoinedStores, JoinedFresh
  <2> QED BY <1>1, <2>1, <2>2, <2>3, <2>4, <2>5 DEF TypeOK
<1>8. ParentsAreExact'
  <2>1. ASSUME NEW d \in Block
        PROVE  bb_parents'[d] = {p \in Block : d \in Range(succ'[p])}
    <3>1. bb_parents[d] = {p \in Block : d \in Range(succ[p])}
      BY DEF ParentsAreExact, Succ
    <3>2. ASSUME NEW p \in Block
          PROVE  p \in bb_parents'[d] <=> d \in Range(succ'[p])
      <4>1. p \in bb_parents[d] <=> d \in Range(succ[p])
        BY <3>1
      <4>2. CASE p = b
        <5>1. CASE d = c
          BY <1>2, <1>3, <1>6, <4>2, <5>1
        <5>2. CASE d # c
          <6>1. d \in Range(succ'[p]) <=> d \in Succ(c)
            BY <1>2, <4>2
          <6>2. p \notin bb_parents[d]
            BY <1>2, <4>1, <4>2, <5>2 DEF Succ
          <6> QED BY <1>6, <4>2, <5>2, <6>1, <6>2
        <5> QED BY <5>1, <5>2
      <4>3. CASE p = c
        BY <1>1, <1>2, <1>3, <1>6, <4>3, <4>1 DEF Succ
      <4>4. CASE p \notin {b, c}
        <5>1. succ'[p] = succ[p] /\ p \notin {b, c}
          BY <1>2, <4>4
        <5>2. p \in bb_parents'[d] <=> p \in bb_parents[d]
          BY <1>1, <1>6, <5>1
        <5> QED BY <4>1, <5>1, <5>2
      <4> QED BY <4>2, <4>3, <4>4
    <3>3. bb_parents'[d] \subseteq Block
      BY <1>7 DEF TypeOK
    <3> QED BY <3>2, <3>3
  <2>2. ASSUME NEW d \in Block, insns'[d] = <<>>
        PROVE  succ'[d] = <<>> /\ bb_parents'[d] = {}
    <3>1. CASE d = c
      BY <1>2, <1>6, <3>1
    <3>2. CASE d # c
      <4>1. ~ Live(d) /\ d # b
        BY <1>1, <1>4, <2>2, <3>2
      <4>2. succ[d] = <<>> /\ bb_parents[d] = {}
        BY <4>1 DEF ParentsAreExact
      <4>3. d \notin Succ(c)
        BY <4>2 DEF ParentsAreExact
      <4> QED BY <1>2, <1>6, <3>2, <4>1, <4>2, <4>3
    <3> QED BY <3>1, <3>2
  <2> QED BY <2>1, <2>2 DEF ParentsAreExact, Succ, Live
<1>9. QueueInv'
  <2>1. ASSUME NEW q \in Block \ {c}, NEW p \in Block \ {Entry}, ~ Joinable(q),
               succ'[p] = <<q>>, bb_parents'[q] = {p}
        PROVE  FALSE
    <3>1. p # c
      <4>1. succ'[c] # <<q>>
        BY <1>2
      <4> QED BY <2>1, <4>1
    <3>2. CASE p = b
      <4>1. succ[c] = <<q>>
        BY <1>2, <2>1, <3>2
      <4>2. q \in Succ(c)
        BY <4>1, BranchOfOne DEF Succ
      <4>3. c \in bb_parents[q] /\ b \notin bb_parents[q]
        BY <1>1, <1>2, <2>1, <4>2 DEF ParentsAreExact
      <4>4. bb_parents[q] = {c}
        BY <1>6, <2>1, <3>2, <4>2, <4>3
      <4> QED BY <1>1, <2>1, <4>1, <4>4 DEF Joinable
    <3>3. CASE p # b
      <4>1. succ[p] = <<q>>
        BY <1>2, <2>1, <3>1, <3>3
      <4>2. q \notin Succ(c)
        BY <1>6, <2>1, <3>3
      <4>3. bb_parents[q] = {p}
        BY <1>6, <2>1, <4>2
      <4> QED BY <2>1, <4>1, <4>3 DEF Joinable
    <3> QED BY <3>2, <3>3
  <2>2. ASSUME NEW i \in DOMAIN bb_queue'
        PROVE  bb_queue'[i] = b \/ \E j \in DOMAIN bb_queue : bb_queue'[i] = bb_queue[j]
    <3>1. CASE bb_queue' = Tail(bb_queue)
      BY <3>1, HeadOfQueue
    <3>2. CASE bb_queue' = Append(Tail(bb_queue), b)
      <4>1. /\ Tail(bb_queue) \in Seq(Block)
            /\ \A k \in DOMAIN Tail(bb_queue) :
                 \E j \in DOMAIN bb_queue : Tail(bb_queue)[k] = bb_queue[j]
        BY HeadOfQueue
      <4> QED BY <2>2, <3>2, <4>1
    <3> QED BY <1>1, <3>1, <3>2 DEF Requeued
  <2>3. ASSUME NEW i \in DOMAIN bb_queue'
        PROVE  /\ bb_queue'[i] \in Block \ {Entry, c}
               /\ Live(bb_queue'[i]) /\ ~ Joinable(bb_queue'[i])
    <3>1. CASE bb_queue'[i] = b
      BY <1>1, <3>1
    <3>2. CASE \E j \in DOMAIN bb_queue : bb_queue'[i] = bb_queue[j]
      <4>1. \A j \in DOMAIN bb_queue : bb_queue[j] \in Block
        BY ElementOfSeq, LenProperties DEF TypeOK
      <4> QED BY <1>1, <3>2, <4>1 DEF QueueInv
    <3> QED BY <2>2, <3>1, <3>2
  <2>4. ASSUME NEW q \in Block \ {c}, ~ Joinable(q)
        PROVE  ~ \E p \in Block \ {Entry} : succ'[p] = <<q>> /\ bb_parents'[q] = {p}
    BY <2>1, <2>4
  <2>5. ASSUME NEW i \in DOMAIN bb_queue'
        PROVE  /\ bb_queue'[i] # Entry
               /\ insns'[bb_queue'[i]] # <<>>
               /\ ~ \E p \in Block \ {Entry} :
                      succ'[p] = <<bb_queue'[i]>> /\ bb_parents'[bb_queue'[i]] = {p}
    <3> DEFINE q == bb_queue'[i]
    <3>1. q \in Block \ {Entry, c} /\ Live(q) /\ ~ Joinable(q)
      BY <2>3
    <3> HIDE DEF q
    <3>2. /\ q # Entry /\ insns'[q] # <<>>
          /\ ~ \E p \in Block \ {Entry} : succ'[p] = <<q>> /\ bb_parents'[q] = {p}
      BY <1>4, <2>4, <3>1
    <3> QED BY <3>2 DEF q
  <2> QED BY <2>5 DEF QueueInv, Live, Joinable
<1>10. EndsInv'
  <2>1. ASSUME NEW d \in Block, insns'[d] # <<>>
        PROVE  insns'[d][1] = d /\ cfg[Last(insns'[d])] = succ'[d]
    <3>1. Live(d) /\ d # c
      BY <1>4, <2>1
    <3>2. CASE d = b
      <4>1. insns[b][1] = b /\ cfg[Last(insns[c])] = succ[c]
        BY <1>1 DEF EndsInv
      <4>2. insns'[b][1] = b /\ Last(insns'[b]) = Last(insns[c])
        <5>1. 1 \in 1 .. n
          BY <1>5
        <5>2. insns'[b][1] = insns[b][1] /\ Last(insns'[b]) = Last(insns[c])
          BY <1>5, <5>1
        <5> QED BY <4>1, <5>2
      <4> QED BY <1>2, <3>2, <4>1, <4>2
    <3>3. CASE d # b
      BY <1>2, <1>4, <3>1, <3>3 DEF EndsInv
    <3> QED BY <3>2, <3>3
  <2> QED BY <1>1, <2>1 DEF EndsInv, Live
<1>11. JoinsAreSound'
  (* The instructions of b and c change their places; Old says where they  *)
  (* were.                                                                 *)
  <2> DEFINE OldBlock(d, i) == IF d = b /\ i > n THEN c ELSE d
           OldIndex(d, i) == IF d = b /\ i > n THEN i - n ELSE i
  <2>1. ASSUME NEW d \in Block, NEW i \in DOMAIN insns'[d]
        PROVE  /\ d # c /\ i \in Nat \ {0} /\ n \in Nat
               /\ OldBlock(d, i) \in Block
               /\ OldIndex(d, i) \in DOMAIN insns[OldBlock(d, i)]
               /\ insns'[d][i] = insns[OldBlock(d, i)][OldIndex(d, i)]
    <3>1. d # c
      BY <1>4, <2>1
    <3>2. CASE d = b /\ i > n
      <4>1. i \in Nat \ {0} /\ i - n \in 1 .. m /\ i = n + (i - n)
        BY <1>5, <2>1, <3>2
      <4>2. insns'[b][n + (i - n)] = insns[c][i - n]
        BY <1>5, <4>1
      <4> QED BY <1>5, <3>1, <3>2, <4>1, <4>2
    <3>3. CASE d = b /\ ~ (i > n)
      <4>1. i \in 1 .. n
        BY <1>5, <2>1, <3>3
      <4> QED BY <1>5, <3>1, <3>3, <4>1
    <3>4. CASE d # b
      <4>1. insns'[d] = insns[d] /\ insns[d] \in Seq(Block)
        BY <1>4, <3>1, <3>4 DEF TypeOK
      <4>2. i \in Nat \ {0}
        BY <2>1, <4>1, LenProperties
      <4> QED BY <1>5, <2>1, <3>1, <3>4, <4>1, <4>2
    <3> QED BY <3>2, <3>3, <3>4
  <2> HIDE DEF OldBlock, OldIndex
  <2>2. ASSUME NEW i \in Block
        PROVE  \E d \in Block : i \in Range(insns'[d])
    <3>1. PICK d \in Block : i \in Range(insns[d])
      BY DEF JoinsAreSound
    <3>2. PICK k \in DOMAIN insns[d] : i = insns[d][k]
      BY <3>1 DEF Range
    <3>3. CASE d \notin {b, c}
      BY <1>4, <3>1, <3>3
    <3>4. CASE d = b
      <4>1. k \in DOMAIN insns'[b] /\ insns'[b][k] = i
        BY <1>5, <3>2, <3>4
      <4> QED BY <4>1 DEF Range
    <3>5. CASE d = c
      <4>1. n + k \in DOMAIN insns'[b] /\ insns'[b][n + k] = i
        BY <1>5, <3>2, <3>5
      <4> QED BY <4>1 DEF Range
    <3> QED BY <3>3, <3>4, <3>5
  <2>3. ASSUME NEW d \in Block, NEW e \in Block,
               NEW i \in DOMAIN insns'[d], NEW j \in DOMAIN insns'[e],
               insns'[d][i] = insns'[e][j]
        PROVE  d = e /\ i = j
    <3>1. /\ OldBlock(d, i) \in Block /\ OldBlock(e, j) \in Block
          /\ OldIndex(d, i) \in DOMAIN insns[OldBlock(d, i)]
          /\ OldIndex(e, j) \in DOMAIN insns[OldBlock(e, j)]
          /\ insns[OldBlock(d, i)][OldIndex(d, i)] = insns[OldBlock(e, j)][OldIndex(e, j)]
      BY <2>1, <2>3
    <3>3. OldBlock(d, i) = OldBlock(e, j) /\ OldIndex(d, i) = OldIndex(e, j)
      BY <3>1 DEF JoinsAreSound
    <3>2. d # c /\ e # c /\ i \in Nat /\ j \in Nat /\ n \in Nat
      BY <2>1
    <3> QED BY <3>2, <3>3 DEF OldBlock, OldIndex
  <2>4. ASSUME NEW p \in Block, c \in Range(cfg[p])
        PROVE  p = insns[b][n]
    <3>1. PICK d \in Block : p \in Range(insns[d])
      BY DEF JoinsAreSound
    <3>2. PICK k \in DOMAIN insns[d] : p = insns[d][k]
      BY <3>1 DEF Range
    <3>3. insns[d] \in Seq(Block) /\ k \in 1 .. Len(insns[d]) /\ Len(insns[d]) \in Nat
      BY <3>2, LenProperties DEF TypeOK
    <3>4. CASE k + 1 \in DOMAIN insns[d]
      <4>1. cfg[p] = <<insns[d][k + 1]>>
        BY <3>2, <3>4 DEF JoinsAreSound
      <4>2. insns[d][k + 1] = c
        BY <2>4, <4>1, BranchOfOne
      <4>3. insns[c][1] = c /\ 1 \in DOMAIN insns[c]
        BY <1>1, <1>5 DEF EndsInv
      <4>4. k + 1 = 1
        BY <3>4, <4>2, <4>3 DEF JoinsAreSound
      <4> QED BY <3>3, <4>4
    <3>5. CASE k + 1 \notin DOMAIN insns[d]
      <4>1. k = Len(insns[d]) /\ Live(d) /\ p = Last(insns[d])
        BY <3>2, <3>3, <3>5, LenProperties, EmptySeq DEF Live, Last
      <4>2. cfg[p] = succ[d]
        BY <4>1 DEF EndsInv
      <4>3. d \in bb_parents[c]
        BY <2>4, <4>2 DEF ParentsAreExact, Succ
      <4> QED BY <1>1, <1>5, <4>1, <4>3
    <3> QED BY <3>4, <3>5
  <2>5. ASSUME NEW d \in Block, NEW i \in DOMAIN insns'[d], i + 1 \in DOMAIN insns'[d]
        PROVE  /\ cfg[insns'[d][i]] = <<insns'[d][i + 1]>>
               /\ \A p \in Block : insns'[d][i + 1] \in Range(cfg[p]) => p = insns'[d][i]
    <3>1. CASE d = b /\ i = n
      <4>1. insns'[d][i] = insns[b][n] /\ insns'[d][i + 1] = insns[c][1]
        BY <1>5, <3>1
      <4>2. insns[c][1] = c /\ cfg[Last(insns[b])] = <<c>>
        BY <1>1 DEF EndsInv
      <4> QED BY <1>5, <2>4, <4>1, <4>2
    <3>2. CASE ~ (d = b /\ i = n)
      <4>1. OldBlock(d, i + 1) = OldBlock(d, i) /\ OldIndex(d, i + 1) = OldIndex(d, i) + 1
        BY <2>1, <2>5, <3>2 DEF OldBlock, OldIndex
      <4>2. PICK e \in Block, k \in Nat :
              /\ k \in DOMAIN insns[e] /\ k + 1 \in DOMAIN insns[e]
              /\ insns'[d][i] = insns[e][k] /\ insns'[d][i + 1] = insns[e][k + 1]
        <5>1. OldIndex(d, i) \in Nat
          BY <1>5, <2>1 DEF OldIndex
        <5> QED BY <2>1, <2>5, <4>1, <5>1
      <4>3. /\ cfg[insns[e][k]] = <<insns[e][k + 1]>>
            /\ \A p \in Block : insns[e][k + 1] \in Range(cfg[p]) => p = insns[e][k]
        <5>1. \A x \in Block : \A y \in DOMAIN insns[x] : y + 1 \in DOMAIN insns[x] =>
                /\ cfg[insns[x][y]] = <<insns[x][y + 1]>>
                /\ \A p \in Block : insns[x][y + 1] \in Range(cfg[p]) => p = insns[x][y]
          BY DEF JoinsAreSound
        <5> QED BY <4>2, <5>1
      <4> QED BY <4>2, <4>3
    <3> QED BY <3>1, <3>2
  <2>6. cfg' = cfg
    BY <1>1
  <2> QED
    <3>1. (\A i \in Block : \E d \in Block : i \in Range(insns[d]))'
      BY <2>2
    <3>2. (\A d, e \in Block : \A i \in DOMAIN insns[d], j \in DOMAIN insns[e] :
             insns[d][i] = insns[e][j] => d = e /\ i = j)'
      BY <2>3
    <3>3. (\A d \in Block : \A i \in DOMAIN insns[d] : i + 1 \in DOMAIN insns[d] =>
             /\ cfg[insns[d][i]] = <<insns[d][i + 1]>>
             /\ \A p \in Block : insns[d][i + 1] \in Range(cfg[p]) => p = insns[d][i])'
      BY <2>5, <2>6
    <3> QED BY <3>1, <3>2, <3>3 DEF JoinsAreSound
<1>12. RegsInv'
  <2> SUFFICES ASSUME NEW d \in Block, NEW r \in Reg, insns'[d] # <<>>
               PROVE  /\ Loaded(insns'[d], r, bb_ld_r_mp'[d][r])
                      /\ Stored(insns'[d], r, bb_str_r_mp'[d][r])
                      /\ Latest(insns'[d], r, r_fresh'[d][r])
    BY DEF RegsInv, Live
  <2>1. Live(d) /\ d # c
    BY <1>4
  <2>2. \A e \in {b, c, d} : /\ Loaded(insns[e], r, bb_ld_r_mp[e][r])
                            /\ Stored(insns[e], r, bb_str_r_mp[e][r])
                            /\ Latest(insns[e], r, r_fresh[e][r])
    <3>1. RegsInv
      BY DEF IInv
    <3>2. {b, c, d} \subseteq Block /\ \A e \in {b, c, d} : Live(e)
      BY <1>1, <2>1
    <3> QED BY <3>1, <3>2 DEF RegsInv
  <2>3. \A e \in {b, c, d} : /\ bb_ld_r_mp[e][r] \in Nat
                            /\ bb_str_r_mp[e][r] \in Nat
                            /\ r_fresh[e][r] \in Fresh
    <3>1. ASSUME NEW e \in Block
          PROVE  /\ bb_ld_r_mp[e][r] \in Nat /\ bb_str_r_mp[e][r] \in Nat
                 /\ r_fresh[e][r] \in Fresh
      <4>1. /\ bb_ld_r_mp[e] \in RegMap /\ bb_str_r_mp[e] \in RegMap
            /\ r_fresh[e] \in [Reg -> Fresh]
        BY DEF TypeOK
      <4> QED BY <4>1, WidthAssumption DEF RegMap
    <3> QED BY <1>1, <3>1
  <2>4. CASE d # b
    <3>1. /\ insns'[d] = insns[d] /\ bb_ld_r_mp'[d] = bb_ld_r_mp[d]
          /\ bb_str_r_mp'[d] = bb_str_r_mp[d] /\ r_fresh'[d] = r_fresh[d]
      BY <1>1, <1>4, <2>1, <2>4 DEF TypeOK
    <3> QED BY <2>2, <3>1
  <2>5. CASE d = b
    <3>1. /\ insns'[d] = insns[b] \o insns[c]
          /\ bb_ld_r_mp'[d] = JoinedLoads(b, c)
          /\ bb_str_r_mp'[d] = JoinedStores(b, c)
          /\ r_fresh'[d] = JoinedFresh(b, c)
      BY <1>1, <1>4, <2>5 DEF TypeOK
    <3>2. Loaded(insns[b] \o insns[c], r, JoinedLoads(b, c)[r])
      BY <1>4, <2>2, <2>3, LoadedConcatenation DEF JoinedLoads
    <3>3. Stored(insns[b] \o insns[c], r, JoinedStores(b, c)[r])
      BY <1>4, <2>2, <2>3, StoredConcatenation DEF JoinedStores
    <3>4. Latest(insns[b] \o insns[c], r, JoinedFresh(b, c)[r])
      BY <1>4, <2>2, <2>3, LatestConcatenation DEF JoinedFresh
    <3> QED BY <3>1, <3>2, <3>3, <3>4
  <2> QED BY <2>4, <2>5
<1> QED BY <1>7, <1>8, <1>9, <1>10, <1>11, <1>12 DEF IInv
-----------------------------------------------------------------------------
LEMMA NextIInv == IInv /\ [Next]_vars => IInv'
<1> SUFFICES ASSUME IInv, [Next]_vars PROVE IInv'
  OBVIOUS
<1>1. CASE Visit
  <2>1. bb_queue # <<>> /\ (Keep(Head(bb_queue)) \/ Join(Head(bb_queue)))
    BY <1>1 DEF Visit
  <2>2. CASE Keep(Head(bb_queue))
    BY <2>1, <2>2, KeepIInv
  <2>3. CASE Join(Head(bb_queue))
    BY <2>1, <2>3, JoinIInv
  <2> QED BY <2>1, <2>2, <2>3
<1>2. CASE Flattened \/ Done \/ UNCHANGED vars
  <2>1. UNCHANGED <<cfg, bb_queue, visited, succ, insns, bb_parents, regVars>>
    BY <1>2 DEF Flattened, Done, vars
  <2>2. pc' \in {"join", "done"}
    BY <1>2 DEF Flattened, Done, vars, IInv, TypeOK
  <2>3. TypeOK'
    BY <2>1, <2>2 DEF IInv, TypeOK, regVars
  <2>4. ParentsAreExact' /\ QueueInv'
    BY <2>1 DEF IInv, ParentsAreExact, QueueInv, Succ, Live, Joinable
  <2>5. EndsInv' /\ JoinsAreSound'
    BY <2>1 DEF IInv, EndsInv, JoinsAreSound, Live
  <2>6. RegsInv'
    BY <2>1 DEF IInv, RegsInv, Live, regVars
  <2> QED BY <2>3, <2>4, <2>5, <2>6 DEF IInv
<1> QED BY <1>1, <1>2 DEF Next

(* The inductive invariant holds in every reachable state.                 *)
THEOREM Inductive == Spec => []IInv
BY InitIInv, NextIInv, PTL DEF Spec

(* The joining of blocks keeps its type, for every control flow graph.     *)
THEOREM TypeCorrect == Spec => []TypeOK
<1>1. IInv => TypeOK
  BY DEF IInv
<1> QED BY <1>1, Inductive, PTL

(* bb_parents is the inverse of the branches after every join, and nothing *)
(* branches to an erased block.                                            *)
THEOREM ParentsTheorem == Spec => []ParentsAreExact
<1>1. IInv => ParentsAreExact
  BY DEF IInv
<1> QED BY <1>1, Inductive, PTL

(* bb_queue never holds a pointer to a block that was erased.              *)
THEOREM QueueTheorem == Spec => []QueuedBlocksLive
<1>1. IInv => QueuedBlocksLive
  BY DEF IInv, QueueInv, QueuedBlocksLive
<1> QED BY <1>1, Inductive, PTL

(* Every instruction is in one block, behind the only one that leads to it. *)
THEOREM JoinsTheorem == Spec => []JoinsAreSound
<1>1. IInv => JoinsAreSound
  BY DEF IInv
<1> QED BY <1>1, Inductive, PTL

(***************************************************************************)
(* The maps of a block say what its instructions do with each register,    *)
(* after any number of joins.                                              *)
(***************************************************************************)
THEOREM RegsTheorem == Spec => []BlockRegsAreExact
<1>1. ASSUME IInv PROVE BlockRegsAreExact
  <2> SUFFICES ASSUME NEW b \in Block, NEW r \in Reg, Live(b)
               PROVE
    LET loads == {i \in DOMAIN insns[b] :
                    InsnLoads[insns[b][i]][r] # 0 /\ ~ StoredBefore(b, r, i)}
        stores == {i \in DOMAIN insns[b] : InsnStores[insns[b][i]][r] # 0}
    IN  /\ IF loads = {} THEN bb_ld_r_mp[b][r] = 0
           ELSE bb_ld_r_mp[b][r] = InsnLoads[insns[b][Min(loads)]][r]
        /\ IF stores = {} THEN bb_str_r_mp[b][r] = 0
           ELSE bb_str_r_mp[b][r] = InsnStores[insns[b][Max(stores)]][r]
    BY DEF BlockRegsAreExact
  <2> DEFINE s == insns[b]
             l == bb_ld_r_mp[b][r]
             w == bb_str_r_mp[b][r]
             loads == {i \in DOMAIN s : InsnLoads[s[i]][r] # 0 /\ ~ StoredBefore(b, r, i)}
             stores == {i \in DOMAIN s : InsnStores[s[i]][r] # 0}
  <2>1. Loaded(s, r, l) /\ Stored(s, r, w)
    BY <1>1 DEF IInv, RegsInv
  <2>2. Len(s) \in Nat /\ DOMAIN s = 1 .. Len(s)
    BY <1>1, LenProperties DEF IInv, TypeOK
  <2>3. \A i \in DOMAIN s : StoredBefore(b, r, i) <=>
          \E j \in DOMAIN s : j < i /\ InsnStores[s[j]][r] # 0
    BY <2>2 DEF StoredBefore
  <2> HIDE DEF s, l, w
  <2>4. IF loads = {} THEN l = 0 ELSE l = InsnLoads[s[Min(loads)]][r]
    <3>1. CASE l = 0
      BY <2>1, <2>3, <3>1 DEF Loaded
    <3>2. CASE l # 0
      <4>1. PICK i \in DOMAIN s : /\ InsnLoads[s[i]][r] = l
                                  /\ \A j \in DOMAIN s : j < i =>
                                       InsnLoads[s[j]][r] = 0 /\ InsnStores[s[j]][r] = 0
        BY <2>1, <3>2 DEF Loaded
      <4>2. i \in loads /\ \A j \in loads : i <= j
        BY <2>2, <2>3, <3>2, <4>1
      <4>3. loads \subseteq Nat
        BY <2>2
      <4> HIDE DEF loads
      <4>4. Min(loads) \in loads /\ \A j \in loads : Min(loads) <= j
        BY <4>2 DEF Min
      <4>5. Min(loads) = i
        BY <4>2, <4>3, <4>4
      <4> QED BY <4>1, <4>2, <4>5
    <3> QED BY <3>1, <3>2
  <2>5. IF stores = {} THEN w = 0 ELSE w = InsnStores[s[Max(stores)]][r]
    <3>1. CASE w = 0
      BY <2>1, <3>1 DEF Stored
    <3>2. CASE w # 0
      <4>1. PICK i \in DOMAIN s : /\ InsnStores[s[i]][r] = w
                                  /\ \A j \in DOMAIN s : j > i => InsnStores[s[j]][r] = 0
        BY <2>1, <3>2 DEF Stored
      <4>2. i \in stores /\ \A j \in stores : i >= j
        BY <2>2, <3>2, <4>1
      <4>3. stores \subseteq Nat
        BY <2>2
      <4> HIDE DEF stores
      <4>4. Max(stores) \in stores /\ \A j \in stores : Max(stores) >= j
        BY <4>2 DEF Max
      <4>5. Max(stores) = i
        BY <4>2, <4>3, <4>4
      <4> QED BY <4>1, <4>2, <4>5
    <3> QED BY <3>1, <3>2
  <2> QED BY <2>4, <2>5 DEF s, l, w
<1> QED BY <1>1, Inductive, PTL

(* The latest value of a register in a block is the one a later block has  *)
(* to see: no instruction behind it stores the register or reads more.     *)
THEOREM FreshTheorem == Spec => []FreshIsLatest
<1>1. ASSUME IInv PROVE FreshIsLatest
  <2> SUFFICES ASSUME NEW b \in Block, NEW r \in Reg, Live(b)
               PROVE
    LET at == {i \in DOMAIN insns[b] : insns[b][i] = r_fresh[b][r].insn}
    IN  /\ at = {} => \A i \in DOMAIN insns[b] : InsnFresh(insns[b][i], r).width = 0
        /\ \A i \in at, j \in DOMAIN insns[b] : j > i =>
             /\ InsnStores[insns[b][j]][r] = 0
             /\ InsnLoads[insns[b][j]][r] < r_fresh[b][r].width
    BY DEF FreshIsLatest
  <2> DEFINE f == r_fresh[b][r]
  <2>1. Latest(insns[b], r, f)
    BY <1>1 DEF IInv, RegsInv
  <2>2. \A i \in DOMAIN insns[b] : insns[b][i] \in Block
    BY <1>1, ElementOfSeq, LenProperties DEF IInv, TypeOK
  <2>3. ASSUME \A i \in DOMAIN insns[b] : insns[b][i] # f.insn
        PROVE  \A i \in DOMAIN insns[b] : InsnFresh(insns[b][i], r).width = 0
    BY <2>1, <2>3 DEF Latest, InsnFresh
  <2>4. ASSUME NEW i \in DOMAIN insns[b], insns[b][i] = f.insn,
               NEW j \in DOMAIN insns[b], j > i
        PROVE  InsnStores[insns[b][j]][r] = 0 /\ InsnLoads[insns[b][j]][r] < f.width
    <3>1. f.width # 0
      BY <2>1, <2>2, <2>4 DEF Latest
    <3>2. PICK k \in DOMAIN insns[b] :
            /\ f.insn = insns[b][k]
            /\ \A m \in DOMAIN insns[b] : m > k => /\ InsnStores[insns[b][m]][r] = 0
                                                  /\ InsnLoads[insns[b][m]][r] < f.width
      BY <2>1, <3>1 DEF Latest
    <3>3. k = i
      BY <1>1, <2>4, <3>2 DEF IInv, JoinsAreSound
    <3> QED BY <2>4, <3>2, <3>3
  <2> QED BY <2>3, <2>4
<1> QED BY <1>1, Inductive, PTL
-----------------------------------------------------------------------------
(***************************************************************************)
(* Nothing is left to join.  A block that was kept could only be joined    *)
(* later if its successor lost another parent, and a join replaces the     *)
(* parent it takes away.                                                   *)
(***************************************************************************)
LEMMA InitVisit == Init => VisitInv
<1> SUFFICES ASSUME Init PROVE VisitInv
  OBVIOUS
<1>1. Queued = {First}
  BY BranchOfOne DEF Init, Queued
<1> QED BY <1>1 DEF Init, VisitInv

(* The queue is its head and the rest, and what is put behind it.          *)
LEMMA QueueParts ==
  ASSUME IInv, bb_queue # <<>>
  PROVE  /\ Queued = {Head(bb_queue)} \cup Range(Tail(bb_queue))
         /\ \A s \in Seq(Block) :
              Range(Tail(bb_queue) \o s) = Range(Tail(bb_queue)) \cup Range(s)
<1> DEFINE q == bb_queue
           t == Tail(bb_queue)
<1>1. q \in Seq(Block) /\ t \in Seq(Block) /\ Len(t) = Len(q) - 1
      /\ Len(q) \in Nat \ {0} /\ Head(q) = q[1]
      /\ \A i \in 1 .. Len(t) : t[i] = q[i + 1]
  BY EmptySeq, LenProperties DEF IInv, TypeOK
<1>2. DOMAIN q = 1 .. Len(q) /\ DOMAIN t = 1 .. Len(t)
  BY <1>1, LenProperties
<1> HIDE DEF q, t
<1>3. Range(q) = {q[1]} \cup Range(t)
  <2>1. ASSUME NEW i \in DOMAIN q, i # 1 PROVE q[i] \in Range(t)
    <3>1. i - 1 \in DOMAIN t /\ t[i - 1] = q[i]
      BY <1>1, <1>2, <2>1
    <3> QED BY <3>1 DEF Range
  <2>2. ASSUME NEW i \in DOMAIN t PROVE t[i] \in Range(q)
    <3>1. i + 1 \in DOMAIN q /\ t[i] = q[i + 1]
      BY <1>1, <1>2
    <3> QED BY <3>1 DEF Range
  <2>3. q[1] \in Range(q)
    BY <1>1, <1>2 DEF Range
  <2> QED BY <2>1, <2>2, <2>3 DEF Range
<1>4. ASSUME NEW s \in Seq(Block) PROVE Range(t \o s) = Range(t) \cup Range(s)
  BY <1>1, RangeConcatenation
<1> QED BY <1>1, <1>3, <1>4 DEF q, t, Queued

LEMMA PushedSuccessors ==
  ASSUME TypeOK, NEW b \in Block, NEW seen
  PROVE  Succ(b) \subseteq seen \cup Range(UnvisitedSuccs(b, seen))
<1>1. /\ Len(succ[b]) \in 0 .. 2 /\ DOMAIN succ[b] = 1 .. Len(succ[b])
  BY BranchShape DEF TypeOK
<1>2. \A k \in DOMAIN succ[b] : succ[b][k] \in Block
  BY BranchShape DEF TypeOK, Range
<1>3. ASSUME NEW c PROVE c \in seen \cup Range(PushSuccessor(c, seen))
  BY BranchOfOne DEF PushSuccessor
<1>4. CASE Len(succ[b]) = 0
  BY <1>1, <1>4 DEF Succ, Range
<1>5. CASE Len(succ[b]) = 1
  BY <1>1, <1>3, <1>5 DEF Succ, Range, UnvisitedSuccs
<1>6. CASE Len(succ[b]) = 2
  <2> DEFINE s == PushSuccessor(succ[b][1], seen)
             t == PushSuccessor(succ[b][2], seen)
  <2>1. s \in Seq(Block) /\ t \in Seq(Block)
    BY <1>1, <1>2, <1>6 DEF PushSuccessor
  <2>2. Range(s \o t) = Range(s) \cup Range(t)
    BY <2>1, RangeConcatenation
  <2>3. succ[b][1] \in seen \cup Range(s) /\ succ[b][2] \in seen \cup Range(t)
    BY <1>3
  <2>4. UnvisitedSuccs(b, seen) = s \o t
    BY <1>6 DEF UnvisitedSuccs
  <2>5. Succ(b) = {succ[b][1], succ[b][2]}
    BY <1>1, <1>6 DEF Succ, Range
  <2> QED BY <2>2, <2>3, <2>4, <2>5
<1> QED BY <1>1, <1>4, <1>5, <1>6

LEMMA KeepVisit ==
  ASSUME IInv, VisitInv, bb_queue # <<>>, Keep(Head(bb_queue))
  PROVE  VisitInv'
<1> DEFINE b == Head(bb_queue)
           new == UnvisitedSuccs(b, visited')
<1>1. b \in Block /\ new \in Seq(Block)
  BY HeadOfQueue, UnvisitedAreSuccessors DEF IInv
<1>2. visited' = visited \cup {b} /\ succ' = succ /\ bb_parents' = bb_parents
      /\ ~ CanJoin(b) /\ bb_queue' = Tail(bb_queue) \o new
  BY DEF Keep
<1>3. Range(bb_queue') = Range(Tail(bb_queue)) \cup Range(new)
  BY <1>1, <1>2, QueueParts
<1>4. Queued = {b} \cup Range(Tail(bb_queue))
  BY QueueParts
<1>5. Succ(b) \subseteq visited' \cup Range(new)
  BY <1>1, PushedSuccessors DEF IInv
<1> HIDE DEF b, new
<1>6. ASSUME NEW d \in visited', d \notin Range(bb_queue')
      PROVE  ~ CanJoin(d) /\ Succ(d) \subseteq visited' \cup Range(bb_queue')
  <2>1. CASE d = b
    BY <1>2, <1>3, <1>5, <2>1
  <2>2. CASE d # b
    <3>1. d \in visited \ Queued
      BY <1>2, <1>3, <1>4, <1>6, <2>2
    <3> QED BY <1>2, <1>3, <1>4, <3>1 DEF VisitInv
  <2> QED BY <2>1, <2>2
<1>7. First \in visited' \cup Range(bb_queue')
  BY <1>2, <1>3, <1>4 DEF VisitInv
<1> QED BY <1>2, <1>6, <1>7 DEF VisitInv, Queued, CanJoin, OneParent, Succ

LEMMA JoinVisit ==
  ASSUME IInv, VisitInv, bb_queue # <<>>, Join(Head(bb_queue))
  PROVE  VisitInv'
<1>1. PICK b \in Block \ {Entry}, c \in Block \ {Entry} :
        /\ b = Head(bb_queue) /\ b # c
        /\ succ[b] = <<c>>
        /\ bb_parents[c] = {b}
        /\ visited' = visited \cup {b}
        /\ succ' = [succ EXCEPT ![b] = succ[c], ![c] = <<>>]
        /\ ReplaceParent(b, c)
        /\ bb_queue' = Requeued(b, c)
  BY JoinedBlocks
<1>2. /\ succ'[b] = succ[c] /\ succ'[c] = <<>>
      /\ \A d \in Block \ {b, c} : succ'[d] = succ[d]
  BY <1>1 DEF IInv, TypeOK, IsCFG
<1>3. \A d \in Block : bb_parents[d] = {p \in Block : d \in Succ(p)}
  BY DEF IInv, ParentsAreExact
<1>4. \A d \in Block \ {c} :
        bb_parents'[d] = IF d \in Succ(c) THEN (bb_parents[d] \ {c}) \cup {b}
                                          ELSE bb_parents[d]
  BY <1>1 DEF ReplaceParent
<1>5. Queued = {b} \cup Range(Tail(bb_queue))
  BY <1>1, QueueParts
<1>6. \/ Range(bb_queue') = Queued
      \/ Range(bb_queue') = Range(Tail(bb_queue)) /\ succ[c] = <<>>
  <2>1. CASE succ[c] = <<>>
    BY <1>1, <2>1 DEF Requeued
  <2>2. CASE succ[c] # <<>>
    <3>1. bb_queue' = Tail(bb_queue) \o <<b>>
      BY <1>1, <2>2, HeadOfQueue DEF Requeued
    <3>2. <<b>> \in Seq(Block)
      BY <1>1
    <3>3. Range(bb_queue') = Range(Tail(bb_queue)) \cup Range(<<b>>)
      BY <3>1, <3>2, QueueParts
    <3> QED BY <1>5, <3>3, BranchOfOne
  <2> QED BY <2>1, <2>2
<1>7. visited \subseteq Block
  BY DEF IInv, TypeOK
<1>8. \A S : S \subseteq visited \cup Queued => S \subseteq visited' \cup Range(bb_queue')
  BY <1>1, <1>5, <1>6
<1> DEFINE joins(d) == Len(succ'[d]) = 1 /\ Cardinality(bb_parents'[succ'[d][1]]) = 1
<1>9. ASSUME NEW d \in visited', d \notin Range(bb_queue')
      PROVE  ~ joins(d) /\ Range(succ'[d]) \subseteq visited' \cup Range(bb_queue')
  <2>1. CASE d \in {b, c}
    <3>1. succ'[d] = <<>>
      BY <1>2, <1>5, <1>6, <1>9, <2>1
    <3>2. Len(succ'[d]) = 0
      BY <3>1
    <3>3. Range(succ'[d]) = {}
      BY <3>1, BranchOfOne
    <3> QED BY <3>2, <3>3
  <2>2. CASE d \notin {b, c}
    <3>1. d \in visited \ Queued /\ d \in Block
      BY <1>1, <1>5, <1>6, <1>7, <1>9, <2>2
    <3>2. succ'[d] = succ[d] /\ ~ CanJoin(d) /\ Succ(d) \subseteq visited \cup Queued
      BY <1>2, <2>2, <3>1 DEF VisitInv
    <3>3. ASSUME joins(d) PROVE FALSE
      <4> DEFINE q == succ[d][1]
      <4>1. Len(succ[d]) = 1 /\ Cardinality(bb_parents'[q]) = 1
        BY <3>2, <3>3
      <4>2. q \in Block /\ succ[d] = <<q>>
        BY <3>1, <4>1, BranchShape DEF IInv, TypeOK
      <4>3. q \in Succ(d)
        BY <4>2, BranchOfOne DEF Succ
      <4>4. d \in bb_parents[q] /\ q # c
        BY <1>1, <1>3, <2>2, <3>1, <4>2, <4>3
      <4>5. q \notin Succ(c)
        <5> SUFFICES ASSUME q \in Succ(c) PROVE FALSE
          OBVIOUS
        <5>1. {b, d} \subseteq bb_parents'[q]
          BY <1>4, <2>2, <4>2, <4>4
        <5>2. bb_parents'[q] \subseteq Block
          BY <1>1, <1>4, <4>2, <4>4 DEF IInv, TypeOK
        <5>3. IsFiniteSet(bb_parents'[q])
          BY <5>2, FS_Subset
        <5>4. \E x : bb_parents'[q] = {x}
          BY <4>1, <5>3, FS_Singleton
        <5> QED BY <2>2, <5>1, <5>4
      <4>6. bb_parents'[q] = bb_parents[q]
        BY <1>4, <4>2, <4>4, <4>5
      <4> QED BY <3>2, <4>1, <4>6 DEF CanJoin, OneParent
    <3>4. Range(succ'[d]) \subseteq visited \cup Queued
      BY <3>2 DEF Succ
    <3> QED BY <1>8, <3>3, <3>4
  <2> QED BY <2>1, <2>2
<1>10. First \in visited' \cup Range(bb_queue')
  BY <1>1, <1>5, <1>6 DEF VisitInv
<1> QED BY <1>9, <1>10 DEF VisitInv, Queued, CanJoin, OneParent, Succ

LEMMA NextVisit == IInv /\ VisitInv /\ [Next]_vars => VisitInv'
<1> SUFFICES ASSUME IInv, VisitInv, [Next]_vars PROVE VisitInv'
  OBVIOUS
<1>1. CASE Visit
  BY <1>1, KeepVisit, JoinVisit DEF Visit
<1>2. CASE Flattened \/ Done \/ UNCHANGED vars
  <2>1. UNCHANGED <<bb_queue, visited, succ, bb_parents>>
    BY <1>2 DEF Flattened, Done, vars
  <2> QED BY <2>1 DEF VisitInv, Queued, CanJoin, OneParent, Succ
<1> QED BY <1>1, <1>2 DEF Next

(* The joining ends with an empty queue. *)
LEMMA DoneIsEmpty ==
  ASSUME [Next]_vars, pc = "done" => bb_queue = <<>>
  PROVE  (pc = "done" => bb_queue = <<>>)'
BY DEF Next, Visit, Keep, Join, Flattened, Done, vars

(* When the queue is empty, every block that control reaches was visited,  *)
(* and none of them is the only parent of its only successor.              *)
THEOREM NothingLeftTheorem == Spec => []NothingIsLeftToJoin
<1> DEFINE Ended == pc = "done" => bb_queue = <<>>
<1>1. Init => VisitInv /\ Ended
  BY InitVisit DEF Init
<1>2. IInv /\ VisitInv /\ Ended /\ [Next]_vars => VisitInv' /\ Ended'
  BY NextVisit, DoneIsEmpty
<1>3. ASSUME IInv, VisitInv, Ended PROVE NothingIsLeftToJoin
  <2> SUFFICES ASSUME pc = "done", NEW b \in Block, Reached(b)
               PROVE  ~ CanJoin(b)
    BY DEF NothingIsLeftToJoin
  <2>1. Queued = {}
    BY <1>3, BranchOfOne DEF Queued
  <2>2. First \in visited /\ Closed(visited) /\ visited \subseteq Block
    BY <1>3, <2>1 DEF VisitInv, Closed, IInv, TypeOK
  <2>3. b \in visited
    BY <2>2 DEF Reached
  <2> QED BY <1>3, <2>1, <2>3 DEF VisitInv
<1> QED BY <1>1, <1>2, <1>3, Inductive, PTL DEF Spec
-----------------------------------------------------------------------------
(***************************************************************************)
(* What the loop removal is handed: RemoveLoop makes a bag of each block   *)
(* that is left, and relies on the entry block reaching every one.         *)
(***************************************************************************)
ReachedIn(g, b) ==
  \A S \in SUBSET Block : Entry \in S /\ (\A x \in S : Range(g[x]) \subseteq S) => b \in S

BlockGraphIsFit ==
  /\ Live(Entry)
  /\ \A b \in Block : Live(b) => /\ ReachedIn(succ, b)
                                 /\ Entry \notin Succ(b)
                                 /\ \A c \in Succ(b) : Live(c)

(* The block an instruction is in, and what the instruction leads to.      *)
LEMMA BlockOf ==
  ASSUME IInv, NEW b \in Block, NEW k \in DOMAIN insns[b], NEW j \in Range(cfg[insns[b][k]])
  PROVE  j \in Range(insns[b]) \/ j \in Succ(b)
<1>1. insns[b] \in Seq(Block) /\ DOMAIN insns[b] = 1 .. Len(insns[b]) /\ Len(insns[b]) \in Nat
  BY LenProperties DEF IInv, TypeOK
<1>2. CASE k + 1 \in DOMAIN insns[b]
  <2>1. cfg[insns[b][k]] = <<insns[b][k + 1]>>
    BY <1>2 DEF IInv, JoinsAreSound
  <2>2. j = insns[b][k + 1]
    BY <2>1 DEF Range
  <2> QED BY <1>2, <2>2 DEF Range
<1>3. CASE k + 1 \notin DOMAIN insns[b]
  <2>1. k = Len(insns[b]) /\ insns[b] # <<>>
    BY <1>1, <1>3
  <2>2. Last(insns[b]) = insns[b][k]
    BY <2>1 DEF Last
  <2>3. cfg[insns[b][k]] = succ[b]
    BY <2>1, <2>2 DEF IInv, EndsInv, Live
  <2> QED BY <2>3 DEF Succ
<1> QED BY <1>2, <1>3

(* Joining keeps the entry block, and every block that is left is reached  *)
(* from it if every instruction was.                                       *)
THEOREM FitTheorem ==
  Spec => []((\A b \in Block : ReachedIn(cfg, b)) => BlockGraphIsFit)
<1>1. ASSUME IInv, \A b \in Block : ReachedIn(cfg, b) PROVE BlockGraphIsFit
  <2>1. \A b \in Block : Live(b) => b \in Range(insns[b])
    <3> SUFFICES ASSUME NEW b \in Block, Live(b) PROVE b \in Range(insns[b])
      OBVIOUS
    <3>1. insns[b] \in Seq(Block) /\ insns[b] # <<>> /\ insns[b][1] = b
      BY <1>1 DEF IInv, TypeOK, EndsInv, Live
    <3>2. 1 \in DOMAIN insns[b]
      BY <3>1, EmptySeq, LenProperties
    <3> QED BY <3>1, <3>2 DEF Range
  <2>2. \A b \in Block : \A c \in Succ(b) : c \in Block /\ c # Entry /\ Live(c)
    <3> SUFFICES ASSUME NEW b \in Block, NEW c \in Succ(b)
                 PROVE  c \in Block /\ c # Entry /\ Live(c)
      OBVIOUS
    <3>1. c \in Block /\ c # Entry
      BY <1>1, BranchShape DEF IInv, TypeOK, Succ
    <3>2. b \in bb_parents[c]
      BY <1>1, <3>1 DEF IInv, ParentsAreExact
    <3> QED BY <1>1, <3>1, <3>2 DEF IInv, ParentsAreExact
  <2>3. Live(Entry)
    <3>1. PICK b \in Block : Entry \in Range(insns[b])
      BY <1>1 DEF IInv, JoinsAreSound
    <3>2. insns[b] \in Seq(Block) /\ DOMAIN insns[b] = 1 .. Len(insns[b]) /\ Len(insns[b]) \in Nat
      BY <1>1, LenProperties DEF IInv, TypeOK
    <3>3. PICK k \in DOMAIN insns[b] : insns[b][k] = Entry
      BY <3>1 DEF Range
    <3>4. k = 1
      <4> SUFFICES ASSUME k # 1 PROVE FALSE
        OBVIOUS
      <4>1. PICK i \in DOMAIN insns[b] : i + 1 = k
        <5>1. k - 1 \in DOMAIN insns[b] /\ (k - 1) + 1 = k
          BY <3>2
        <5> QED BY <5>1
      <4>2. cfg[insns[b][i]] = <<Entry>>
        BY <1>1, <3>3, <4>1 DEF IInv, JoinsAreSound
      <4>3. insns[b][i] \in Block
        BY <3>2, ElementOfSeq
      <4>4. Entry \in Range(cfg[insns[b][i]])
        BY <4>2 DEF Range
      <4> QED BY <1>1, <4>3, <4>4, BranchShape DEF IInv, TypeOK
    <3>5. Live(b)
      BY <3>2, <3>3, EmptySeq DEF Live
    <3> QED BY <1>1, <3>3, <3>4, <3>5 DEF IInv, EndsInv
  <2>4. ASSUME NEW b \in Block, Live(b) PROVE ReachedIn(succ, b)
    <3> SUFFICES ASSUME NEW S \in SUBSET Block, Entry \in S, \A x \in S : Succ(x) \subseteq S
                 PROVE  b \in S
      BY DEF ReachedIn, Succ
    <3> DEFINE T == {i \in Block : \E c \in S : i \in Range(insns[c])}
    <3>1. ASSUME NEW i \in T, NEW j \in Range(cfg[i]) PROVE j \in T
      <4>1. PICK c \in S : i \in Range(insns[c])
        BY <3>1
      <4>2. PICK k \in DOMAIN insns[c] : insns[c][k] = i
        BY <4>1 DEF Range
      <4>3. j \in Range(insns[c]) \/ j \in Succ(c)
        BY <1>1, <3>1, <4>2, BlockOf
      <4>4. j \in Block
        BY <1>1, <3>1, BranchShape DEF IInv, TypeOK
      <4>5. CASE j \in Range(insns[c])
        BY <4>4, <4>5
      <4>6. CASE j \in Succ(c)
        BY <2>1, <2>2, <4>6
      <4> QED BY <4>3, <4>5, <4>6
    <3>2. Entry \in T /\ T \in SUBSET Block
      BY <2>1, <2>3
    <3>3. \A x \in T : Range(cfg[x]) \subseteq T
      BY <3>1
    <3> HIDE DEF T
    <3>4. b \in T
      BY <1>1, <3>2, <3>3 DEF ReachedIn
    <3>5. PICK c \in S : b \in Range(insns[c])
      BY <3>4 DEF T
    <3>6. b = c
      BY <1>1, <2>1, <2>4, <3>5 DEF IInv, JoinsAreSound, Range
    <3> QED BY <3>5, <3>6
  <2> QED BY <2>2, <2>3, <2>4 DEF BlockGraphIsFit
<1>2. IInv => ((\A b \in Block : ReachedIn(cfg, b)) => BlockGraphIsFit)
  BY <1>1
<1> QED BY <1>2, Inductive, PTL
=============================================================================
