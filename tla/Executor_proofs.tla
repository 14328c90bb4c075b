-------------------------- MODULE Executor_proofs --------------------------
(***************************************************************************)
(* What is proved of a run of a flow, for flows, batches and values of any *)
(* number: the invariants and the isolation of Executor, and that it does  *)
(* what BatchPipeline promises.                                            *)
(*                                                                         *)
(* The argument.  DagBuilder: a flow that Build accepts has at every node  *)
(* all the executor calls there.  The inductive invariant RunInv has a     *)
(* part for each of the things the loops of Run keep track of:             *)
(*   Places    how far each loop is, and what it has set up by then;       *)
(*   Keys      the keys of the registry are exactly those held by the      *)
(*             items not dropped, those collected and the array read, and  *)
(*             no two of them hold the same key;                           *)
(*   Aliases   what a call collects is no value of the batch, unless Lua   *)
(*             code kept it;                                               *)
(*   Contents  what has become by now of the batch the node began with.    *)
(* Each handler keeps it (the lemmas ...Keeps), and the properties follow  *)
(* from it.  A value that nothing refers to yet exists as long as the      *)
(* registry holds no more than the batch and the call in progress, so      *)
(* that even the types rest on Keys.                                       *)
(***************************************************************************)
EXTENDS Executor, FiniteSetTheorems, SequenceTheorems, WellFoundedInduction, TLAPS

(* The checks of a node, each with the error it raises.                       *)
Errors == {"panic", "unknown_primitive", "structure", "invalid_signature", "callable_not_found"}
Checks == [fails : BOOLEAN, error : Errors]
Passes(checks) == \A i \in 1..Len(checks) : ~checks[i].fails

(* The least of a set of positions is in it. *)
LEMMA MinOfPositions ==
  ASSUME NEW S, S \subseteq Nat, S # {}
  PROVE  Min(S) \in S /\ \A i \in S : Min(S) <= i
  <1> DEFINE R == {pair \in Nat \X Nat : pair[1] < pair[2]}
  <1>1. IsWellFoundedOn(R, Nat)
    BY NatLessThanWellFounded, Zenon DEF OpToRel
  <1>2. \A i, j \in Nat : i < j <=> <<i, j>> \in R
    OBVIOUS
  <1> HIDE DEF R
  <1>3. PICK n \in S : \A i \in S : ~ (<<i, n>> \in R)
    BY <1>1, WFMin
  <1>4. \A i \in S : ~(i < n)
    <2>1. n \in Nat /\ \A i \in S : i \in Nat
      BY <1>3
    <2> QED BY <1>2, <1>3, <2>1, Zenon
  <1>5. \A i \in S : n <= i
    BY <1>3, <1>4
  <1> QED BY <1>3, <1>5, Zenon DEF Min

(* FirstError finds nothing just when every check passes.                     *)
LEMMA FirstOfChecks ==
  ASSUME NEW checks \in Seq(Checks)
  PROVE  /\ FirstError(checks) \in Errors \cup {"none"}
         /\ FirstError(checks) = "none" <=> Passes(checks)
  <1> DEFINE failed == {i \in 1..Len(checks) : checks[i].fails}
  <1>1. CASE failed = {}
    <2>1. FirstError(checks) = "none"
      BY <1>1, Zenon DEF FirstError
    <2>2. Passes(checks)
      BY <1>1 DEF Passes
    <2> QED BY <2>1, <2>2
  <1>2. CASE failed # {}
    <2>1. Min(failed) \in failed
      <3>1. failed \subseteq Nat
        OBVIOUS
      <3> HIDE DEF failed
      <3> QED BY <1>2, <3>1, MinOfPositions
    <2>2. FirstError(checks) = checks[Min(failed)].error
      BY <1>2, Zenon DEF FirstError
    <2>3. FirstError(checks) \in Errors
      <3>1. checks[Min(failed)] \in Checks
        BY <2>1
      <3> QED BY <2>2, <3>1 DEF Checks
    <2> QED BY <2>1, <2>3 DEF Passes, Errors
  <1> QED BY <1>1, <1>2

(* Two lists of checks pass when both do.                                     *)
LEMMA PassesBoth ==
  ASSUME NEW s \in Seq(Checks), NEW t \in Seq(Checks)
  PROVE  /\ s \o t \in Seq(Checks)
         /\ Passes(s \o t) <=> Passes(s) /\ Passes(t)
  <1>1. /\ s \o t \in Seq(Checks) /\ Len(s \o t) = Len(s) + Len(t)
        /\ \A i \in 1..Len(s) : (s \o t)[i] = s[i]
        /\ \A i \in 1..Len(t) : (s \o t)[Len(s) + i] = t[i]
    BY ConcatProperties
  <1>2. \A i \in 1..Len(s \o t) : i \in 1..Len(s) \/ i - Len(s) \in 1..Len(t)
    BY <1>1
  <1>3. Passes(s \o t) => Passes(s) /\ Passes(t)
    <2> DEFINE st == s \o t
    <2>1. /\ Len(s) \in Nat /\ Len(t) \in Nat
          /\ \A i \in 1..Len(s) : i \in 1..Len(st) /\ st[i] = s[i]
          /\ \A i \in 1..Len(t) : Len(s) + i \in 1..Len(st) /\ st[Len(s) + i] = t[i]
      BY <1>1
    <2> HIDE DEF st
    <2> SUFFICES ASSUME Passes(st) PROVE Passes(s) /\ Passes(t)
      BY DEF st
    <2>2. ASSUME NEW i \in 1..Len(s) PROVE ~s[i].fails
      BY <2>1, Zenon DEF Passes
    <2>3. ASSUME NEW i \in 1..Len(t) PROVE ~t[i].fails
      BY <2>1, Zenon DEF Passes
    <2> QED BY <2>2, <2>3 DEF Passes
  <1>4. Passes(s) /\ Passes(t) => Passes(s \o t)
    BY <1>1, <1>2 DEF Passes
  <1> QED BY <1>1, <1>3, <1>4

(* bindCallable accepts what has a name and a run.                            *)
LEMMA BoundChecks ==
  ASSUME NEW n \in Nodes
  PROVE  /\ BindCallable(n) \in Seq(Checks)
         /\ Passes(BindCallable(n)) <=> n.field = "callable"
  <1>1. BindCallable(n) \in Seq(Checks)
    <2> DEFINE c(field, error) == Check(n.field = field, error)
    <2>1. \A field : \A error \in Errors : c(field, error) \in Checks
      BY DEF Check, Checks
    <2>2. BindCallable(n) = <<c("absent", "invalid_signature"), c("function", "panic"),
             c("undefined", "callable_not_found"), c("string", "invalid_signature"),
             c("unnamed", "invalid_signature"), c("norun", "invalid_signature")>>
      BY DEF BindCallable
    <2> HIDE DEF c
    <2> QED BY <2>1, <2>2 DEF Errors
  <1>2. Passes(BindCallable(n)) <=>
          n.field \notin {"absent", "undefined", "string", "function", "unnamed", "norun"}
    <2> DEFINE b == BindCallable(n)
    <2>1. Len(b) = 6 /\ 1..6 = {1, 2, 3, 4, 5, 6}
      BY DEF BindCallable
    <2>2. /\ b[1].fails <=> n.field = "absent"
          /\ b[2].fails <=> n.field = "function"
          /\ b[3].fails <=> n.field = "undefined"
          /\ b[4].fails <=> n.field = "string"
          /\ b[5].fails <=> n.field = "unnamed"
          /\ b[6].fails <=> n.field = "norun"
      BY DEF BindCallable, Check
    <2> HIDE DEF b
    <2>3. Passes(b) <=> \A i \in {1, 2, 3, 4, 5, 6} : ~b[i].fails
      BY <2>1 DEF Passes
    <2>4. Passes(b) <=> /\ ~b[1].fails /\ ~b[2].fails /\ ~b[3].fails
                       /\ ~b[4].fails /\ ~b[5].fails /\ ~b[6].fails
      BY <2>3
    <2>5. Passes(b) <=>
            n.field \notin {"absent", "undefined", "string", "function", "unnamed", "norun"}
      BY <2>2, <2>4
    <2> QED BY <2>5 DEF b
  <1> QED BY <1>1, <1>2 DEF Nodes, Fields

(* Build accepts a node just when all the executor calls at it can be called. *)
LEMMA AcceptedIsRunnable ==
  ASSUME NEW n \in Nodes
  PROVE  /\ NodeError(n) \in Errors \cup {"none"}
         /\ NodeError(n) = "none" <=> Runnable(n)
  <1> DEFINE kindOK == <<Check(n.kind = "value", "panic"),
                         Check(n.kind = "unknown", "unknown_primitive"),
                         Check(n.kind = "none", "structure"),
                         Check(n.kind \notin Primitives, "unknown_primitive")>>
             field == IF n.kind \in {"call", "tap"} THEN BindCallable(n) ELSE << >>
             rest == <<Check(n.kind = "call" /\ n.onData = "other", "invalid_signature"),
                       Check(n.kind \in {"set", "filter"} /\ n.field # "function",
                             "invalid_signature")>>
  <1>1. kindOK \in Seq(Checks) /\ (Passes(kindOK) <=> n.kind \in Primitives)
    <2>1. kindOK \in Seq(Checks)
      BY DEF Check, Checks, Errors
    <2>2. Passes(kindOK) <=> n.kind \in Primitives \ {"value", "unknown", "none"}
      <3>1. Len(kindOK) = 4 /\ 1..4 = {1, 2, 3, 4}
        OBVIOUS
      <3>2. /\ kindOK[1].fails <=> n.kind = "value"
            /\ kindOK[2].fails <=> n.kind = "unknown"
            /\ kindOK[3].fails <=> n.kind = "none"
            /\ kindOK[4].fails <=> n.kind \notin Primitives
        BY DEF Check
      <3> HIDE DEF kindOK
      <3> QED BY <3>1, <3>2 DEF Passes
    <2> QED BY <2>1, <2>2 DEF Primitives
  <1>2. /\ field \in Seq(Checks)
        /\ Passes(field) <=> (n.kind \in {"call", "tap"} => n.field = "callable")
    BY BoundChecks DEF Passes
  <1>3. /\ rest \in Seq(Checks)
        /\ Passes(rest) <=> /\ ~(n.kind = "call" /\ n.onData = "other")
                            /\ n.kind \in {"set", "filter"} => n.field = "function"
    <2>1. rest \in Seq(Checks)
      BY DEF Check, Checks, Errors
    <2>2. Len(rest) = 2 /\ 1..2 = {1, 2}
      OBVIOUS
    <2>3. /\ rest[1].fails <=> n.kind = "call" /\ n.onData = "other"
          /\ rest[2].fails <=> n.kind \in {"set", "filter"} /\ n.field # "function"
      BY DEF Check
    <2> HIDE DEF rest
    <2> QED BY <2>1, <2>2, <2>3 DEF Passes
  <1>4. NodeChecks(n) = kindOK \o field \o rest
    BY DEF NodeChecks
  <1>5. /\ NodeChecks(n) \in Seq(Checks)
        /\ Passes(NodeChecks(n)) <=> Passes(kindOK) /\ Passes(field) /\ Passes(rest)
    <2> HIDE DEF kindOK, field, rest
    <2>1. kindOK \o field \in Seq(Checks)
      BY <1>1, <1>2, PassesBoth
    <2> QED BY <1>1, <1>2, <1>3, <1>4, <2>1, PassesBoth
  <1>6. Passes(NodeChecks(n)) <=> Runnable(n)
    <2> HIDE DEF kindOK, field, rest
    <2> QED BY <1>1, <1>2, <1>3, <1>5 DEF Runnable, Primitives, Nodes
  <1> QED BY <1>5, <1>6, FirstOfChecks DEF NodeError

(* What Build answers. *)
LEMMA BuildAnswers ==
  ASSUME NEW f \in Seq(Nodes)
  PROVE  LET bad == {i \in 1..Len(f) : ~Runnable(f[i])}
         IN IF bad = {} THEN Build(f) = [error |-> "none", position |-> 0]
            ELSE /\ Build(f).error # "none"
                 /\ Build(f).position \in bad
                 /\ \A i \in bad : Build(f).position <= i
  <1> DEFINE bad == {i \in 1..Len(f) : ~Runnable(f[i])}
             refused == {i \in 1..Len(f) : NodeError(f[i]) # "none"}
  <1>1. refused = bad
    BY AcceptedIsRunnable
  <1>2. CASE bad = {}
    BY <1>1, <1>2, Zenon DEF Build
  <1>3. CASE bad # {}
    <2>1. Min(bad) \in bad /\ \A i \in bad : Min(bad) <= i
      <3>1. bad \subseteq Nat
        OBVIOUS
      <3> HIDE DEF bad
      <3> QED BY <1>3, <3>1, MinOfPositions
    <2>2. Build(f) = [error |-> NodeError(f[Min(bad)]), position |-> Min(bad)]
      BY <1>1, <1>3, Zenon DEF Build
    <2>3. NodeError(f[Min(bad)]) # "none"
      BY <2>1, <1>1
    <2> QED BY <2>1, <2>2, <2>3, <1>3
  <1> QED BY <1>2, <1>3
-----------------------------------------------------------------------------
Alive == report.status \in {"running", "ok", "empty"}

(* What a run starts from. *)
Unstarted ==
  /\ report.status \in {"loading", "panic"} => DOMAIN registry = {}
  /\ report.status = "loading" =>
       /\ flow = << >> /\ node = 1 /\ pos = 1
       /\ items = << >> /\ out = << >> /\ source = NoSource
       /\ nextRef = 1 /\ known = {} /\ before = << >>
       /\ report = [status |-> "loading", at |-> 0, itemsIn |-> 0, itemsOut |-> 0]

(* How far each of the loops is. *)
Places ==
  Alive =>
    /\ flow = Planned
    /\ Len(items) <= MaxItems /\ Len(out) <= MaxItems
    /\ ~Running => node > Len(flow)
    /\ node > Len(flow) => pos = 1 /\ out = << >> /\ source = NoSource
    /\ InCall /\ source = NoSource => pos = 1 /\ out = << >>
    /\ Collecting => /\ source.ref # 0 /\ source.len <= MaxItems
                     /\ source.array \/ source.len = 1
                     /\ Len(out) = pos - 1 /\ pos <= source.len + 1
    /\ AtNode({"set", "filter", "tap"}) => source = NoSource /\ pos <= Len(items) + 1
    /\ AtNode({"set", "tap"}) => out = << >>
    /\ AtNode({"filter"}) => Len(out) < pos

(* The keys in use, without the concatenation of Batch. *)
FirstHeld == IF AtNode({"filter"}) THEN pos ELSE 1
Reading == Collecting /\ (source.array \/ pos = 1)
Holds(r) ==
  \/ \E i \in 1..Len(out) : out[i] = r
  \/ \E i \in FirstHeld..Len(items) : items[i] = r
  \/ Reading /\ r = source.ref

Keys ==
  Alive =>
    /\ \A r \in DOMAIN registry : Holds(r)
    /\ \A r \in 1..nextRef : Holds(r) => r \in DOMAIN registry
    /\ \A r \in DOMAIN registry : r < nextRef
    /\ \A i, j \in 1..Len(items) : items[i] = items[j] => i = j
    /\ \A i, j \in 1..Len(out) : out[i] = out[j] => i = j
    /\ \A i \in 1..Len(items) : items[i] < nextRef
    /\ \A i \in 1..Len(out) : out[i] < nextRef
    /\ \A i \in 1..Len(items), j \in 1..Len(out) :
         items[i] = out[j] => AtNode({"filter"}) /\ i < pos
    /\ Collecting =>
         /\ source.ref < nextRef
         /\ \A i \in 1..Len(items) : items[i] # source.ref
         /\ source.array => \A i \in 1..Len(out) : out[i] # source.ref

(* No value of the batch is among those of the call, unless Lua code kept it. *)
Apart(r) ==
  \A i \in 1..Len(items) : registry[items[i]] = registry[r] => registry[r] \in known \cup {Nil}
Aliases ==
  InCall => /\ \A j \in 1..Len(out) : Apart(out[j])
            /\ Reading => Apart(source.ref)

(* What has become of the batch the node began with. *)
Kept(at) ==
  /\ at \in [1..Len(out) -> 1..(pos - 1)]
  /\ \A i, j \in 1..Len(out) : i < j => at[i] < at[j]
  /\ \A j \in 1..Len(out) : registry[out[j]] = before[at[j]]
Untouched(i) == registry[items[i]] = before[i]
Contents ==
  Alive =>
    /\ Len(items) = Len(before)
    /\ AtNode({"set", "filter", "tap"}) => \A i \in pos..Len(items) : Untouched(i)
    /\ AtNode({"tap"}) \/ node > Len(flow) => \A i \in 1..Len(items) : Untouched(i)
    /\ AtNode({"set"}) => \A i \in 1..(pos - 1) : registry[items[i]] # Nil
    /\ AtNode({"filter"}) => \E at \in [1..Len(out) -> 1..(pos - 1)] : Kept(at)
    /\ AtNode({"callData"}) => \A j \in 1..Len(out) : registry[out[j]] # Nil

Bounds == pos >= 1 /\ nextRef >= 1 /\ IsFiniteSet(known) /\ Cardinality(known) <= MaxKept

RunInv == /\ TypeOK /\ Bounds /\ Unstarted /\ Places /\ Keys /\ Aliases /\ Contents
          /\ RunsWholeOrNotAtAll

(* The values of a sequence of keys are at most as many as the keys. *)
LEMMA ImageIsSmall ==
  ASSUME NEW f, NEW n \in Nat
  PROVE  LET T == {f[i] : i \in 1..n} IN IsFiniteSet(T) /\ Cardinality(T) <= n
  <1> DEFINE T == {f[i] : i \in 1..n}
             g == [i \in 1..n |-> f[i]]
  <1>1. g \in Surjection(1..n, T)
    BY DEF Surjection
  <1>2. IsFiniteSet(1..n) /\ Cardinality(1..n) = n
    BY FS_Interval
  <1> HIDE DEF g, T
  <1>3. IsFiniteSet(T) /\ Cardinality(T) <= n
    BY <1>1, <1>2, FS_Surjection
  <1> QED BY <1>3 DEF T

(* So are those of two sets together.                                         *)
LEMMA UnionIsSmall ==
  ASSUME NEW S, NEW T, IsFiniteSet(S), IsFiniteSet(T),
         NEW m \in Nat, NEW n \in Nat, Cardinality(S) <= m, Cardinality(T) <= n
  PROVE  IsFiniteSet(S \cup T) /\ Cardinality(S \cup T) <= m + n
  <1>1. /\ IsFiniteSet(S \cup T)
        /\ Cardinality(S \cup T) = Cardinality(S) + Cardinality(T) - Cardinality(S \cap T)
    BY FS_Union
  <1>2. IsFiniteSet(S \cap T)
    BY FS_Subset
  <1>3. /\ Cardinality(S) \in Nat /\ Cardinality(T) \in Nat /\ Cardinality(S \cap T) \in Nat
    BY <1>2, FS_CardinalityType
  <1> QED BY <1>1, <1>3

(* The elements of a sequence are of its type.                                *)
LEMMA ElementsOfSeq ==
  ASSUME NEW S, NEW s \in Seq(S)
  PROVE  Len(s) \in Nat /\ \A i \in 1..Len(s) : s[i] \in S
  BY ElementOfSeq

(* The keys of a sequence of keys.                                            *)
LEMMA KeysOfSeq ==
  ASSUME NEW n \in Nat, NEW s \in Seq(1..n)
  PROVE  Len(s) \in Nat /\ \A i \in 1..Len(s) : s[i] \in 1..n /\ s[i] \in Nat
  <1> DEFINE K == 1..n
  <1>1. \A k \in K : k \in Nat
    OBVIOUS
  <1>2. s \in Seq(K)
    OBVIOUS
  <1> HIDE DEF K
  <1>3. Len(s) \in Nat /\ \A i \in 1..Len(s) : s[i] \in K
    BY <1>2, ElementsOfSeq
  <1> QED BY <1>1, <1>3 DEF K

(* What Lua code kept or got at is a Lua value, and it kept few.              *)
KnownOK ==
  /\ known \subseteq Objs /\ reached \subseteq Objs
  /\ IsFiniteSet(known) /\ Cardinality(known) <= MaxKept

(* No key was used that was not given out. *)
RegistryOK ==
  /\ nextRef \in Nat \ {0}
  /\ DOMAIN registry \subseteq 1..nextRef
  /\ \A r \in DOMAIN registry : registry[r] \in Objs \cup {Nil}

(* The types, variable by variable.                                           *)
LEMMA TypesInReach ==
  ASSUME RunInv
  PROVE  /\ KnownOK /\ RegistryOK
         /\ pos \in Nat \ {0} /\ node \in Nat \ {0} /\ Len(flow) \in Nat
         /\ source.ref \in Nat /\ source.len \in Nat /\ source.array \in BOOLEAN
         /\ Len(items) \in Nat /\ Len(out) \in Nat /\ Len(before) \in Nat
         /\ \A i \in 1..Len(items) : items[i] \in 1..nextRef /\ items[i] \in Nat
         /\ \A i \in 1..Len(out) : out[i] \in 1..nextRef /\ out[i] \in Nat
  <1>1. nextRef \in Nat /\ items \in Seq(1..nextRef) /\ out \in Seq(1..nextRef)
    BY DEF RunInv, TypeOK
  <1>2. /\ Len(items) \in Nat
        /\ \A i \in 1..Len(items) : items[i] \in 1..nextRef /\ items[i] \in Nat
        /\ Len(out) \in Nat /\ \A i \in 1..Len(out) : out[i] \in 1..nextRef /\ out[i] \in Nat
    BY <1>1, KeysOfSeq
  <1>3. KnownOK /\ RegistryOK
    BY DEF RunInv, TypeOK, Bounds, KnownOK, RegistryOK
  <1>4. Len(flow) \in Nat /\ Len(before) \in Nat
    BY DEF RunInv, TypeOK
  <1>5. pos \in Nat \ {0} /\ node \in Nat \ {0}
    BY <1>4 DEF RunInv, TypeOK, Bounds
  <1>6. source.ref \in Nat /\ source.len \in Nat /\ source.array \in BOOLEAN
    BY <1>1 DEF RunInv, TypeOK
  <1> QED BY <1>2, <1>3, <1>4, <1>5, <1>6

(* While a node is at work there is a value that is in nothing. *)
LEMMA FreshIsNew ==
  ASSUME RunInv, Running, Len(out) < MaxItems,
         NEW args, args = {} \/ \E o : args = {o}
  PROVE  /\ Fresh(args) \in Objs
         /\ Fresh(args) \notin args \cup known
         /\ \A r \in DOMAIN registry : registry[r] # Fresh(args)
  <1> DEFINE I == {registry[items[i]] : i \in 1..Len(items)}
             O == {registry[out[i]] : i \in 1..Len(out)}
             f == [i \in 1..Len(items) |-> registry[items[i]]]
             g == [i \in 1..Len(out) |-> registry[out[i]]]
             V == {registry[r] : r \in DOMAIN registry}
             used == (args \cup {registry[source.ref]}) \cup (known \cup (I \cup O))
  <1>0. Len(items) \in Nat /\ Len(items) <= MaxItems /\ Len(out) \in Nat /\ pos \in Nat
        /\ MaxItems \in Nat \ {0} /\ MaxKept \in Nat
    <2>1. Len(items) <= MaxItems
      BY DEF RunInv, Places, Alive, Running
    <2> QED BY <2>1, TypesInReach, ExecutorConstants
  <1>1. IsFiniteSet(I) /\ Cardinality(I) <= MaxItems
    <2>1. I = {f[i] : i \in 1..Len(items)}
      OBVIOUS
    <2> HIDE DEF I, f
    <2>2. IsFiniteSet(I) /\ Cardinality(I) <= Len(items)
      BY <1>0, <2>1, ImageIsSmall
    <2>3. Cardinality(I) \in Nat
      BY <2>2, FS_CardinalityType
    <2> QED BY <1>0, <2>2, <2>3
  <1>2. IsFiniteSet(O) /\ Cardinality(O) <= MaxItems - 1
    <2>1. O = {g[i] : i \in 1..Len(out)}
      OBVIOUS
    <2> HIDE DEF O, g
    <2>2. IsFiniteSet(O) /\ Cardinality(O) <= Len(out)
      BY <1>0, <2>1, ImageIsSmall
    <2>3. Cardinality(O) \in Nat
      BY <2>2, FS_CardinalityType
    <2> QED BY <1>0, <2>2, <2>3
  <1>3. IsFiniteSet(args \cup {registry[source.ref]})
        /\ Cardinality(args \cup {registry[source.ref]}) <= 2
    <2>1. IsFiniteSet(args) /\ Cardinality(args) <= 1
      <3>1. CASE args = {}
        BY <3>1, FS_EmptySet
      <3>2. CASE \E o : args = {o}
        <4>1. PICK o : args = {o}
          BY <3>2
        <4>2. IsFiniteSet(args) /\ Cardinality(args) = 1
          BY <4>1, FS_Singleton, Zenon
        <4> QED BY <4>2
      <3> QED BY <3>1, <3>2
    <2> DEFINE S == {registry[source.ref]}
    <2>2. IsFiniteSet(S) /\ Cardinality(S) = 1
      BY FS_Singleton, Zenon
    <2>3. 1 \in Nat /\ 1 <= 1 /\ 1 + 1 = 2
      OBVIOUS
    <2> HIDE DEF S
    <2>4. IsFiniteSet(args \cup S) /\ Cardinality(args \cup S) <= 1 + 1
      BY <2>1, <2>2, <2>3, UnionIsSmall
    <2> QED BY <2>3, <2>4 DEF S
  <1>4. IsFiniteSet(known) /\ Cardinality(known) <= MaxKept
    BY DEF RunInv, Bounds
  <1>5. IsFiniteSet(used) /\ Cardinality(used) <= 2 * MaxItems + MaxKept + 1
    <2> DEFINE A == args \cup {registry[source.ref]}
               IO == I \cup O
               KIO == known \cup IO
    <2>0. MaxItems - 1 \in Nat /\ MaxItems + (MaxItems - 1) \in Nat
          /\ MaxKept + (MaxItems + (MaxItems - 1)) \in Nat
      BY <1>0
    <2> HIDE DEF I, O
    <2>1. IsFiniteSet(IO) /\ Cardinality(IO) <= MaxItems + (MaxItems - 1)
      BY <1>0, <2>0, <1>1, <1>2, UnionIsSmall
    <2> HIDE DEF IO
    <2>2. IsFiniteSet(KIO) /\ Cardinality(KIO) <= MaxKept + (MaxItems + (MaxItems - 1))
      BY <1>0, <2>0, <1>4, <2>1, UnionIsSmall
    <2> HIDE DEF KIO
    <2>3. IsFiniteSet(A) /\ Cardinality(A) <= 2
      BY <1>3
    <2> HIDE DEF A
    <2>4. IsFiniteSet(A \cup KIO)
          /\ Cardinality(A \cup KIO) <= 2 + (MaxKept + (MaxItems + (MaxItems - 1)))
      BY <2>0, <2>2, <2>3, UnionIsSmall
    <2>5. used = A \cup KIO
      BY DEF A, KIO, IO
    <2>6. Cardinality(used) \in Nat
      BY <2>4, <2>5, FS_CardinalityType
    <2> HIDE DEF used
    <2> QED BY <1>0, <2>4, <2>5, <2>6
  <1>6. \A r \in DOMAIN registry : registry[r] \in used
    <2> SUFFICES ASSUME NEW r \in DOMAIN registry PROVE registry[r] \in used
      OBVIOUS
    <2>1. Holds(r)
      BY DEF RunInv, Keys, Alive, Running
    <2>2. FirstHeld \in Nat /\ FirstHeld >= 1
      BY DEF FirstHeld, RunInv, TypeOK, Places, Alive, Running, AtNode
    <2> QED BY <2>1, <2>2 DEF Holds
  <1>7. \E o \in Objs : o \notin used
    <2>1. PICK some \in SUBSET Objs :
            IsFiniteSet(some) /\ Cardinality(some) > 2 * MaxItems + MaxKept + 1
      BY EnoughValues
    <2> HIDE DEF used
    <2>2. ~(some \subseteq used)
      <3> SUFFICES ASSUME some \subseteq used PROVE FALSE
        OBVIOUS
      <3>1. Cardinality(some) <= Cardinality(used)
        BY <1>5, FS_Subset
      <3>2. Cardinality(some) \in Nat /\ Cardinality(used) \in Nat
        BY <1>5, <2>1, FS_CardinalityType
      <3> QED BY <1>0, <1>5, <2>1, <3>1, <3>2
    <2> QED BY <2>2
  <1>8. \E o \in Objs : o \notin args \cup known \cup V
    BY <1>6, <1>7
  <1>9. Fresh(args) \in Objs /\ Fresh(args) \notin args \cup known \cup V
    BY <1>8, Zenon DEF Fresh
  <1> QED BY <1>9

(* InUse, key by key. *)
LEMMA InUseIsHeld ==
  ASSUME TypeOK, Bounds, Places, Alive
  PROVE  \A r : r \in InUse <=> Holds(r)
  <1> DEFINE n == nextRef
  <1>1. /\ items \in Seq(1..n) /\ out \in Seq(1..n) /\ pos \in Nat \ {0}
        /\ Len(items) \in Nat /\ Len(out) \in Nat /\ n \in Nat
    BY DEF TypeOK, Bounds
  <1>2. CASE AtNode({"filter"})
    <2>1. pos \in 1..(Len(items) + 1)
      BY <1>1, <1>2 DEF Places, AtNode
    <2>2. /\ Rest \in Seq(1..n)
          /\ Len(Rest) = Len(items) - pos + 1
          /\ \A i \in 1..Len(Rest) : Rest[i] = items[pos + i - 1]
      <3>1. CASE pos \in 1..Len(items)
        <4> HIDE DEF n
        <4>1. /\ pos \in Int /\ Len(items) \in Int /\ pos <= Len(items)
              /\ \A i \in pos..Len(items) : items[i] \in 1..n
          <5>1. \A i \in pos..Len(items) : i \in 1..Len(items)
            BY <1>1
          <5>2. \A i \in 1..Len(items) : items[i] \in 1..n
            BY <1>1, KeysOfSeq DEF n
          <5> QED BY <1>1, <3>1, <5>1, <5>2
        <4>2. /\ Rest \in Seq(1..n)
              /\ Len(Rest) = IF pos <= Len(items) THEN Len(items) - pos + 1 ELSE 0
              /\ \A i \in 1..(Len(items) - pos + 1) : Rest[i] = items[pos + i - 1]
          BY <4>1, SubSeqProperties DEF Rest
        <4> QED BY <4>1, <4>2
      <3>2. CASE pos = Len(items) + 1
        BY <1>1, <3>2, SubSeqEmpty DEF Rest
      <3> QED BY <2>1, <3>1, <3>2
    <2>3. /\ Len(out \o Rest) = Len(out) + Len(Rest)
          /\ \A i \in 1..Len(out) : (out \o Rest)[i] = out[i]
          /\ \A i \in 1..Len(Rest) : (out \o Rest)[Len(out) + i] = Rest[i]
      <3> HIDE DEF n
      <3>1. out \in Seq(1..n) /\ Rest \in Seq(1..n)
        BY <1>1, <2>2
      <3>2. \A i \in 1..(Len(out) + Len(Rest)) :
              (out \o Rest)[i] = IF i <= Len(out) THEN out[i] ELSE Rest[i - Len(out)]
        BY <3>1, ConcatProperties
      <3>3. Len(out \o Rest) = Len(out) + Len(Rest)
        BY <3>1, ConcatProperties
      <3>4. Len(out) \in Nat /\ Len(Rest) \in Nat
        BY <3>1
      <3> HIDE DEF Rest
      <3>5. ASSUME NEW i \in 1..Len(Rest) PROVE (out \o Rest)[Len(out) + i] = Rest[i]
        <4>1. /\ Len(out) + i \in 1..(Len(out) + Len(Rest)) /\ ~(Len(out) + i <= Len(out))
              /\ Len(out) + i - Len(out) = i
          BY <3>4
        <4> QED BY <3>2, <4>1
      <3>6. ASSUME NEW i \in 1..Len(out) PROVE (out \o Rest)[i] = out[i]
        BY <3>2, <3>4
      <3> QED BY <3>3, <3>5, <3>6
    <2> DEFINE b == out \o Rest
               k == Len(items) - pos + 1
    <2>4. /\ k \in Nat /\ Len(b) = Len(out) + k
          /\ \A i \in 1..Len(out) : b[i] = out[i]
          /\ \A i \in 1..k : b[Len(out) + i] = items[pos + i - 1]
      <3>1. k \in Nat /\ Len(Rest) = k
        BY <1>1, <2>1, <2>2
      <3> QED BY <2>2, <2>3, <3>1
    <2>5. ASSUME NEW r PROVE r \in Elements(b) <=> \/ r \in Elements(out)
                                                  \/ \E i \in pos..Len(items) : items[i] = r
      <3> HIDE DEF b
      <3>1. ASSUME NEW i \in 1..Len(b), b[i] = r
            PROVE  r \in Elements(out) \/ \E j \in pos..Len(items) : items[j] = r
        <4>1. CASE i <= Len(out)
          <5>1. i \in 1..Len(out) /\ out[i] = r
            BY <1>1, <2>4, <3>1, <4>1
          <5> QED BY <5>1 DEF Elements
        <4>2. CASE i > Len(out)
          <5>1. i - Len(out) \in 1..k /\ Len(out) + (i - Len(out)) = i
            BY <1>1, <2>4, <3>1, <4>2
          <5>2. b[i] = items[pos + (i - Len(out)) - 1]
            BY <2>4, <5>1
          <5>3. pos + (i - Len(out)) - 1 \in pos..Len(items)
            BY <1>1, <2>1, <5>1
          <5> QED BY <3>1, <5>2, <5>3
        <4> QED BY <1>1, <4>1, <4>2
      <3>2. ASSUME NEW i \in pos..Len(items), items[i] = r PROVE r \in Elements(b)
        <4>1. i - pos + 1 \in 1..k /\ Len(out) + (i - pos + 1) \in 1..Len(b)
              /\ pos + (i - pos + 1) - 1 = i
          BY <1>1, <2>1, <2>4, <3>2
        <4>2. b[Len(out) + (i - pos + 1)] = items[i]
          BY <2>4, <4>1
        <4> QED BY <3>2, <4>1, <4>2 DEF Elements
      <3>3. r \in Elements(out) => r \in Elements(b)
        <4> SUFFICES ASSUME NEW i \in 1..Len(out), out[i] = r PROVE r \in Elements(b)
          BY DEF Elements
        <4>1. i \in 1..Len(b) /\ b[i] = r
          BY <1>1, <2>4
        <4> QED BY <4>1 DEF Elements
      <3> QED BY <3>1, <3>2, <3>3 DEF Elements
    <2>6. Batch = b /\ FirstHeld = pos /\ ~Collecting
      BY <1>2 DEF Batch, FirstHeld, Collecting, InCall, AtNode
    <2> HIDE DEF b
    <2> QED BY <2>5, <2>6 DEF InUse, Holds, Reading, Elements
  <1>3. CASE ~AtNode({"filter"})
    <2>1. Batch = items /\ FirstHeld = 1
      BY <1>3 DEF Batch, FirstHeld
    <2> QED BY <2>1 DEF InUse, Holds, Reading, Elements
  <1> QED BY <1>2, <1>3

(* What the invariant says of the keys.                                       *)
LEMMA InvariantMeans ==
  ASSUME RunInv
  PROVE  KeysAreOwned /\ NothingAccumulates
  <1>1. KeysAreOwned
    <2> SUFFICES ASSUME Running PROVE KeysAreOwned
      BY DEF KeysAreOwned
    <2>1. Alive
      BY DEF Alive, Running
    <2>2. \A r \in InUse : r \in DOMAIN registry
      <3> SUFFICES ASSUME NEW r \in InUse PROVE r \in DOMAIN registry
        OBVIOUS
      <3>1. Holds(r)
        BY <2>1, InUseIsHeld DEF RunInv
      <3>2. r \in 1..nextRef
        <4>1. CASE \E i \in 1..Len(out) : out[i] = r
          BY <4>1, TypesInReach
        <4>2. CASE \E i \in FirstHeld..Len(items) : items[i] = r
          <5>1. FirstHeld \in Nat \ {0}
            BY DEF RunInv, TypeOK, Bounds, FirstHeld
          <5>2. \A i \in 1..Len(items) : items[i] \in 1..nextRef
            BY KeysOfSeq DEF RunInv, TypeOK
          <5>3. Len(items) \in Nat
            BY DEF RunInv, TypeOK
          <5> QED BY <4>2, <5>1, <5>2, <5>3
        <4>3. CASE Reading /\ r = source.ref
          BY <2>1, <4>3 DEF RunInv, TypeOK, Reading, Places
        <4> QED BY <3>1, <4>1, <4>2, <4>3 DEF Holds
      <3> QED BY <2>1, <3>1, <3>2 DEF RunInv, Keys
    <2> QED BY <2>1, <2>2 DEF KeysAreOwned, RunInv, Keys
  <1>2. NothingAccumulates
    <2>1. CASE Alive
      BY <2>1, InUseIsHeld DEF NothingAccumulates, RunInv, Keys
    <2>2. CASE report.status \in {"loading", "panic"}
      BY <2>2 DEF NothingAccumulates, RunInv, Unstarted
    <2>3. CASE report.status = "error"
      BY <2>3 DEF NothingAccumulates
    <2> QED BY <2>1, <2>2, <2>3 DEF RunInv, TypeOK, Alive
  <1> QED BY <1>1, <1>2

(* A key stays one when more are given out.                                   *)
LEMMA KeysGrow ==
  ASSUME NEW m \in Nat, NEW n \in Nat, m <= n, NEW s \in Seq(1..m)
  PROVE  s \in Seq(1..n)
  <1>1. 1..m \subseteq 1..n
    OBVIOUS
  <1> QED BY <1>1, SeqMonotonic

(* What a call does to what Lua code keeps. *)
LEMMA CallsKeep ==
  ASSUME KnownOK, NEW args, args \subseteq Objs \cup {Nil}, NEW result, result \in Objs \cup {Nil},
         Calls(args, result)
  PROVE  KnownOK' /\ known \subseteq known'
  <1>1. PICK kept \in {{}} \cup {{o} : o \in (args \cup {result}) \ {Nil}} :
          known' = known \cup kept /\ Cardinality(known') <= MaxKept
    BY DEF Calls
  <1>2. IsFiniteSet(kept) /\ kept \subseteq Objs
    <2>1. CASE kept = {}
      BY <2>1, FS_EmptySet
    <2>2. CASE kept # {}
      <3>1. PICK o \in (args \cup {result}) \ {Nil} : kept = {o}
        BY <1>1, <2>2
      <3>2. IsFiniteSet(kept)
        BY <3>1, FS_Singleton, Zenon
      <3> QED BY <3>1, <3>2
    <2> QED BY <2>1, <2>2
  <1>3. IsFiniteSet(known')
    BY <1>1, <1>2, FS_Union DEF KnownOK
  <1>4. reached' \subseteq Objs
    BY DEF Calls, KnownOK
  <1> QED BY <1>1, <1>2, <1>3, <1>4 DEF KnownOK

(* So does a step without a call.                                             *)
LEMMA CallsNothingKeeps ==
  ASSUME KnownOK, CallsNothing
  PROVE  KnownOK' /\ known \subseteq known'
  BY DEF KnownOK, CallsNothing

(* Deleting and creating keys. *)
LEMMA ReleaseKeeps ==
  ASSUME RegistryOK, NEW refs, Release(refs)
  PROVE  /\ RegistryOK' /\ nextRef' = nextRef
         /\ DOMAIN registry' = DOMAIN registry \ refs
         /\ \A r \in DOMAIN registry' : registry'[r] = registry[r]
  <1>1. /\ DOMAIN registry' = DOMAIN registry \ refs /\ nextRef' = nextRef
        /\ \A r \in DOMAIN registry' : registry'[r] = registry[r]
    BY DEF Release
  <1> QED BY <1>1 DEF RegistryOK

(* StoreRef after DeleteRef.                                                  *)
LEMMA ExchangeKeeps ==
  ASSUME RegistryOK, NEW refs, NEW o \in Objs \cup {Nil}, Exchange(refs, o)
  PROVE  /\ RegistryOK' /\ nextRef' = nextRef + 1
         /\ DOMAIN registry' = (DOMAIN registry \ refs) \cup {nextRef}
         /\ registry'[nextRef] = o
         /\ \A r \in DOMAIN registry' : r # nextRef => registry'[r] = registry[r]
  <1>1. /\ DOMAIN registry' = (DOMAIN registry \ refs) \cup {nextRef} /\ nextRef' = nextRef + 1
        /\ \A r \in DOMAIN registry' :
             registry'[r] = IF r = nextRef THEN o ELSE registry[r]
    BY DEF Exchange
  <1>2. /\ nextRef \in DOMAIN registry' /\ registry'[nextRef] = o
        /\ \A r \in DOMAIN registry' : r # nextRef => registry'[r] = registry[r]
    BY <1>1
  <1>3. /\ nextRef + 1 \in Nat \ {0} /\ nextRef \in 1..(nextRef + 1)
        /\ \A r \in 1..nextRef : r \in 1..(nextRef + 1)
    BY DEF RegistryOK
  <1>4. DOMAIN registry' \subseteq 1..nextRef'
    BY <1>1, <1>3 DEF RegistryOK
  <1>5. \A r \in DOMAIN registry' : registry'[r] \in Objs \cup {Nil}
    BY <1>1, <1>2 DEF RegistryOK
  <1> QED BY <1>1, <1>2, <1>3, <1>4, <1>5 DEF RegistryOK

(* A run that ends with an error. *)
LEMMA FailKeeps ==
  ASSUME RunInv, Running, node <= Len(flow), NEW refs, Fail(refs), KnownOK'
  PROVE  RunInv'
  <1>1. RegistryOK' /\ nextRef' = nextRef
    BY ReleaseKeeps, TypesInReach DEF Fail
  <1>2. /\ report' = [report EXCEPT !.status = "error", !.at = node]
        /\ report.at \in 0..Len(Planned)
        /\ report \in [status : {"loading", "running", "ok", "empty", "error", "panic"},
                       at : 0..Len(Planned), itemsIn : Nat, itemsOut : Nat]
    BY DEF Fail, RunInv, TypeOK
  <1>3. report'.status = "error" /\ report'.at = node
    BY <1>2
  <1>4. /\ flow = Planned /\ Planned' = Planned
        /\ node \in 0..Len(Planned)
    <2>1. flow = Planned
      BY DEF RunInv, Places, Alive, Running
    <2>2. node \in 0..Len(flow)
      BY TypesInReach
    <2> QED BY <2>1, <2>2 DEF Fail, Planned
  <1>5. TypeOK'
    <2>1. /\ declared' \in Seq(Declared) /\ flow' \in Seq(Kinds)
          /\ node' \in 1..(Len(flow') + 1) /\ pos' \in Nat
          /\ items' \in Seq(1..nextRef') /\ out' \in Seq(1..nextRef')
          /\ source' \in [ref : 0..nextRef', len : Nat, array : BOOLEAN]
          /\ before' \in Seq(Objs \cup {Nil})
      BY <1>1 DEF Fail, RunInv, TypeOK
    <2>2. report' \in [status : {"loading", "running", "ok", "empty", "error", "panic"},
                       at : 0..Len(Planned'), itemsIn : Nat, itemsOut : Nat]
      BY <1>2, <1>4
    <2> QED BY <1>1, <2>1, <2>2 DEF TypeOK, RegistryOK, KnownOK
  <1>6. Bounds'
    BY <1>1 DEF Bounds, KnownOK, Fail, RunInv
  <1>7. Unstarted' /\ Places' /\ Keys' /\ Aliases' /\ Contents'
    BY <1>3 DEF Unstarted, Places, Keys, Aliases, Contents, Alive, InCall, AtNode, Running
  <1>8. RunsWholeOrNotAtAll'
    BY <1>3, <1>4 DEF RunsWholeOrNotAtAll, Fail, Running, RunInv
  <1> QED BY <1>5, <1>6, <1>7, <1>8 DEF RunInv

(* The flow that Build accepts is the flow that runs. *)
LEMMA LoadedFlow ==
  ASSUME declared \in Seq(Declared)
  PROVE  LET bad == {i \in 1..Len(Planned) : ~Runnable(declared[i])}
         IN /\ Len(Planned) = Len(declared) /\ Len(Planned) \in Nat
            /\ bad = {} => Planned \in Seq(Kinds) /\ Build(declared).error = "none"
            /\ bad # {} => /\ Build(declared).error # "none"
                           /\ Build(declared).position \in bad
                           /\ \A i \in bad : Build(declared).position <= i
  <1>1. declared \in Seq(Nodes)
    <2>1. Declared \subseteq Nodes
      BY ExecutorConstants
    <2> QED BY <2>1, SeqMonotonic
  <1>2. Len(declared) \in Nat /\ \A i \in 1..Len(declared) : declared[i] \in Nodes
    BY <1>1, ElementsOfSeq
  <1>3. Len(Planned) = Len(declared)
    BY <1>2 DEF Planned, KindsOf
  <1>4. (\A i \in 1..Len(declared) : Runnable(declared[i])) => Planned \in Seq(Kinds)
    <2> SUFFICES ASSUME \A i \in 1..Len(declared) : Runnable(declared[i])
                 PROVE  Planned \in Seq(Kinds)
      OBVIOUS
    <2>1. \A i \in 1..Len(declared) : Planned[i] \in Kinds
      BY <1>2 DEF Planned, KindsOf, Kinds, Runnable
    <2>2. Planned = [i \in 1..Len(declared) |-> Planned[i]]
      BY DEF Planned, KindsOf
    <2> QED BY <1>2, <2>1, <2>2
  <1>5. Build(declared).error = "none" <=> {i \in 1..Len(declared) : ~Runnable(declared[i])} = {}
    BY <1>1, BuildAnswers
  <1>6. LET bad == {i \in 1..Len(declared) : ~Runnable(declared[i])}
        IN bad # {} => /\ Build(declared).position \in bad
                       /\ \A i \in bad : Build(declared).position <= i
    BY <1>1, BuildAnswers
  <1> QED BY <1>2, <1>3, <1>4, <1>5, <1>6

(* The load of the flow, whether Build accepts it or not.                     *)
LEMMA LoadKeeps ==
  ASSUME RunInv, Load \/ LoadFails
  PROVE  RunInv'
  <1> DEFINE bad == {i \in 1..Len(Planned) : ~Runnable(declared[i])}
  <1>1. /\ report = [status |-> "loading", at |-> 0, itemsIn |-> 0, itemsOut |-> 0]
        /\ flow = << >> /\ node = 1 /\ pos = 1 /\ items = << >> /\ out = << >>
        /\ source = NoSource /\ DOMAIN registry = {} /\ nextRef = 1 /\ known = {}
        /\ before = << >>
    BY DEF RunInv, Unstarted, Load, LoadFails
  <1>2. /\ known' = {} /\ reached' = {} /\ declared' = declared /\ node' = 1 /\ pos' = 1
        /\ items' = << >> /\ out' = << >> /\ source' = NoSource /\ registry' = registry
        /\ nextRef' = 1 /\ before' = << >> /\ Planned' = Planned
    BY <1>1 DEF Load, LoadFails, Unloaded, CallsNothing, Planned
  <1>3. /\ Len(Planned) = Len(declared) /\ Len(Planned) \in Nat
        /\ bad = {} => Planned \in Seq(Kinds) /\ Build(declared).error = "none"
        /\ bad # {} => /\ Build(declared).error # "none"
                       /\ Build(declared).position \in bad
                       /\ \A i \in bad : Build(declared).position <= i
    BY LoadedFlow DEF RunInv, TypeOK
  <1>4. \/ /\ bad = {} /\ flow' = Planned
           /\ report' = [status |-> "running", at |-> 0, itemsIn |-> 0, itemsOut |-> 0]
        \/ /\ flow' = << >>
           /\ \E s \in {"error", "panic"}, at \in 0..Len(Planned) :
                /\ report' = [status |-> s, at |-> at, itemsIn |-> 0, itemsOut |-> 0]
                /\ at > 0 => at \in bad /\ \A i \in bad : at <= i
    <2>1. CASE LoadFails
      BY <1>1, <1>3, <2>1 DEF LoadFails
    <2>2. CASE Load /\ Build(declared).error = "none"
      BY <1>1, <1>3, <2>2 DEF Load, Planned
    <2>3. CASE Load /\ Build(declared).error # "none"
      <3>1. /\ flow' = << >>
            /\ report' = [status |-> IF Build(declared).error = "panic" THEN "panic" ELSE "error",
                          at |-> Build(declared).position, itemsIn |-> 0, itemsOut |-> 0]
        BY <1>1, <2>3 DEF Load
      <3>2. /\ Build(declared).position \in bad /\ Build(declared).position \in 0..Len(Planned)
            /\ \A i \in bad : Build(declared).position <= i
        BY <1>3, <2>3
      <3> HIDE DEF bad
      <3> QED BY <3>1, <3>2
    <2> QED BY <2>1, <2>2, <2>3
  <1>5. TypeOK'
    <2>1. /\ flow' \in Seq(Kinds) /\ Len(flow') \in Nat
          /\ report' \in [status : {"loading", "running", "ok", "empty", "error", "panic"},
                          at : 0..Len(Planned), itemsIn : Nat, itemsOut : Nat]
      <3>1. CASE bad = {} /\ flow' = Planned
                 /\ report' = [status |-> "running", at |-> 0, itemsIn |-> 0, itemsOut |-> 0]
        BY <1>3, <3>1
      <3>2. CASE flow' = << >> /\ \E s \in {"error", "panic"}, at \in 0..Len(Planned) :
                   report' = [status |-> s, at |-> at, itemsIn |-> 0, itemsOut |-> 0]
        BY <1>3, <3>2
      <3> QED BY <1>4, <3>1, <3>2
    <2>2. source' \in [ref : 0..nextRef', len : Nat, array : BOOLEAN]
      BY <1>2 DEF NoSource
    <2>3. items' \in Seq(1..nextRef') /\ out' \in Seq(1..nextRef')
          /\ before' \in Seq(Objs \cup {Nil})
      BY <1>2
    <2>4. node' \in 1..(Len(flow') + 1)
      BY <1>2, <2>1
    <2> QED BY <1>1, <1>2, <2>1, <2>2, <2>3, <2>4 DEF TypeOK, RunInv
  <1>6. Bounds'
    BY <1>2, FS_EmptySet, ExecutorConstants DEF Bounds
  <1>7. RunsWholeOrNotAtAll'
    BY <1>2, <1>3, <1>4 DEF RunsWholeOrNotAtAll
  <1>8. report'.status # "loading" /\ (Running' <=> Alive') /\ DOMAIN registry' = {}
    BY <1>1, <1>2, <1>4 DEF Alive, Running
  <1>9. Alive' => flow' = Planned'
    BY <1>2, <1>4 DEF Alive
  <1>10. Len(items') = 0 /\ Len(out') = 0 /\ Len(before') = 0 /\ 0 <= MaxItems
    BY <1>2, ExecutorConstants
  <1>11. Unstarted' /\ Places' /\ Aliases'
    <2>1. Unstarted'
      BY <1>8 DEF Unstarted
    <2>2. Places'
      BY <1>2, <1>8, <1>9, <1>10 DEF Places, InCall, Collecting, AtNode
    <2>3. Aliases'
      BY <1>2, <1>10 DEF Aliases, Reading, Collecting
    <2> QED BY <2>1, <2>2, <2>3
  <1>12. Keys'
    <2>1. \A r : ~Holds(r)'
      BY <1>2, <1>10 DEF Holds, FirstHeld, Reading, Collecting
    <2> QED BY <1>2, <1>8, <1>10, <2>1 DEF Keys, Collecting
  <1>13. Contents'
    <2>1. \E at \in [1..Len(out') -> 1..(pos' - 1)] : Kept(at)'
      <3> DEFINE at == [i \in 1..0 |-> 1]
      <3>1. at \in [1..Len(out') -> 1..(pos' - 1)] /\ Kept(at)'
        BY <1>2, <1>10 DEF Kept
      <3> QED BY <3>1
    <2>2. /\ pos'..Len(items') = {} /\ 1..Len(items') = {} /\ 1..(pos' - 1) = {}
          /\ 1..Len(out') = {} /\ Len(items') = Len(before')
      BY <1>2, <1>10
    <2> QED BY <2>1, <2>2 DEF Contents
  <1> QED BY <1>5, <1>6, <1>7, <1>11, <1>12, <1>13 DEF RunInv

(* The end of the run.                                                        *)
LEMMA FinishKeeps ==
  ASSUME RunInv, Finish
  PROVE  RunInv'
  <1>1. /\ report' = [report EXCEPT !.itemsOut = Len(items),
                      !.status = IF flow # << >> /\ items = << >> THEN "empty" ELSE "ok"]
        /\ report \in [status : {"loading", "running", "ok", "empty", "error", "panic"},
                       at : 0..Len(Planned), itemsIn : Nat, itemsOut : Nat]
        /\ Len(items) \in Nat
    BY TypesInReach DEF Finish, RunInv, TypeOK
  <1>2. /\ report'.status \in {"ok", "empty"}
        /\ report' \in [status : {"loading", "running", "ok", "empty", "error", "panic"},
                        at : 0..Len(Planned), itemsIn : Nat, itemsOut : Nat]
    BY <1>1
  <1>3. Running /\ Alive /\ ~Running' /\ Alive' /\ node > Len(flow)
    BY <1>2 DEF Finish, Running, Alive
  <1>4. /\ declared' = declared /\ flow' = flow /\ node' = node /\ pos' = pos /\ items' = items
        /\ out' = out /\ source' = source /\ registry' = registry /\ nextRef' = nextRef
        /\ before' = before /\ known' = known /\ reached' = {} /\ Planned' = Planned
    BY DEF Finish, CallsNothing, Planned
  <1>5. TypeOK'
    BY <1>2, <1>4 DEF TypeOK, RunInv
  <1>6. Bounds' /\ Unstarted'
    BY <1>2, <1>4 DEF Bounds, Unstarted, RunInv
  <1>7. RunsWholeOrNotAtAll'
    BY <1>2, <1>3, <1>4 DEF RunsWholeOrNotAtAll, RunInv, Running
  <1>8. pos = 1 /\ out = << >> /\ source = NoSource /\ Len(out) = 0
    BY <1>3 DEF RunInv, Places
  <1>9. Places'
    BY <1>3, <1>4, <1>8 DEF Places, RunInv, InCall, Collecting, AtNode
  <1>10. \A r : Holds(r)' <=> Holds(r)
    BY <1>3, <1>4, <1>8, TypesInReach DEF Holds, FirstHeld, Reading, Collecting, AtNode, InCall
  <1>11. Keys'
    BY <1>3, <1>4, <1>8, <1>10 DEF Keys, RunInv, Collecting
  <1>12. Aliases' /\ Contents'
    BY <1>3, <1>4, <1>8 DEF Aliases, Contents, RunInv, InCall, AtNode, Untouched
  <1> QED BY <1>5, <1>6, <1>7, <1>9, <1>11, <1>12 DEF RunInv

ReportType == [status : {"loading", "running", "ok", "empty", "error", "panic"},
               at : 0..Len(Planned), itemsIn : Nat, itemsOut : Nat]

(* The next node begins with the batch refs. *)
LEMMA NextNodeKeeps ==
  ASSUME RunInv, Running, node <= Len(flow), KnownOK',
         NEW refs, NEW released, NextNode(refs, released),
         report'.status = "running", report' \in ReportType,
         refs \in Seq(1..nextRef), Len(refs) <= MaxItems,
         \A i, j \in 1..Len(refs) : refs[i] = refs[j] => i = j,
         \A i \in 1..Len(refs) : refs[i] \in DOMAIN registry /\ refs[i] \notin released,
         \A r \in DOMAIN registry : r \notin released => \E i \in 1..Len(refs) : refs[i] = r
  PROVE  RunInv'
  <1>1. /\ RegistryOK' /\ nextRef' = nextRef
        /\ DOMAIN registry' = DOMAIN registry \ released
        /\ \A r \in DOMAIN registry' : registry'[r] = registry[r]
    BY ReleaseKeeps, TypesInReach DEF NextNode
  <1>2. /\ items' = refs /\ before' = Values(refs) /\ node' = node + 1 /\ pos' = 1
        /\ out' = << >> /\ source' = NoSource /\ declared' = declared /\ flow' = flow
        /\ Planned' = Planned /\ Len(out') = 0
    BY DEF NextNode, Planned
  <1>3. /\ Len(refs) \in Nat /\ node \in Nat \ {0} /\ Len(flow) \in Nat /\ nextRef \in Nat \ {0}
        /\ \A i \in 1..Len(refs) : refs[i] \in 1..nextRef /\ refs[i] \in Nat
    <2>1. nextRef \in Nat \ {0}
      BY TypesInReach DEF RegistryOK
    <2>2. Len(refs) \in Nat /\ \A i \in 1..Len(refs) : refs[i] \in 1..nextRef /\ refs[i] \in Nat
      BY <2>1, KeysOfSeq
    <2> QED BY <2>1, <2>2, TypesInReach
  <1>4. /\ before' \in Seq(Objs \cup {Nil}) /\ Len(before') = Len(items')
        /\ \A i \in 1..Len(items') : before'[i] = registry[items'[i]]
    <2>1. \A i \in 1..Len(refs) : registry[refs[i]] \in Objs \cup {Nil}
      BY TypesInReach DEF RegistryOK
    <2> QED BY <1>2, <1>3, <2>1 DEF Values
  <1>5. TypeOK'
    <2>1. source' \in [ref : 0..nextRef', len : Nat, array : BOOLEAN]
      BY <1>1, <1>2, <1>3 DEF NoSource
    <2>2. node' \in 1..(Len(flow') + 1)
      BY <1>2, <1>3
    <2>3. items' \in Seq(1..nextRef') /\ out' \in Seq(1..nextRef')
      BY <1>1, <1>2
    <2>4. report' \in [status : {"loading", "running", "ok", "empty", "error", "panic"},
                       at : 0..Len(Planned'), itemsIn : Nat, itemsOut : Nat]
      BY <1>2 DEF ReportType
    <2> QED BY <1>1, <1>2, <1>4, <2>1, <2>2, <2>3, <2>4
        DEF TypeOK, RunInv, KnownOK, RegistryOK
  <1>6. Bounds' /\ Unstarted'
    BY <1>1, <1>2 DEF Bounds, Unstarted, KnownOK, RegistryOK
  <1>7. Running' /\ Alive' /\ Alive
    BY DEF Running, Alive
  <1>8. Places'
    <2>1. flow' = Planned'
      BY <1>2, <1>7 DEF RunInv, Places
    <2>2. ~Collecting' /\ 0 <= MaxItems
      BY <1>2, ExecutorConstants DEF Collecting
    <2> QED BY <1>2, <1>3, <1>7, <2>1, <2>2 DEF Places, InCall, AtNode
  <1>9. \A r : Holds(r)' <=> \E i \in 1..Len(refs) : refs[i] = r
    <2>1. FirstHeld' = 1 /\ ~Reading'
      BY <1>2 DEF FirstHeld, Reading, Collecting
    <2> QED BY <1>2, <2>1 DEF Holds
  <1>10. Keys'
    <2>1. \A i \in 1..Len(refs) : refs[i] < nextRef
      BY <1>7 DEF RunInv, Keys
    <2>2. \A r \in DOMAIN registry' : r < nextRef
      BY <1>1, <1>7 DEF RunInv, Keys
    <2>3. \A r : r \in DOMAIN registry' <=> \E i \in 1..Len(refs) : refs[i] = r
      BY <1>1
    <2>4. ~Collecting'
      BY <1>2 DEF Collecting
    <2> QED BY <1>1, <1>2, <1>9, <2>1, <2>2, <2>3, <2>4 DEF Keys
  <1>11. Aliases'
    BY <1>2 DEF Aliases, Reading, Collecting
  <1>12. Contents'
    <2>1. \A i \in 1..Len(items') : Untouched(i)'
      <3>1. \A i \in 1..Len(items') : registry'[items'[i]] = registry[items'[i]]
        BY <1>1, <1>2
      <3> QED BY <1>4, <3>1 DEF Untouched
    <2>2. \E at \in [1..Len(out') -> 1..(pos' - 1)] : Kept(at)'
      <3> DEFINE at == [i \in 1..0 |-> 1]
      <3>1. at \in [1..Len(out') -> 1..(pos' - 1)] /\ Kept(at)'
        BY <1>2 DEF Kept
      <3> QED BY <3>1
    <2>3. /\ pos'..Len(items') = 1..Len(items') /\ 1..(pos' - 1) = {} /\ 1..Len(out') = {}
      BY <1>2
    <2> QED BY <1>4, <2>1, <2>2, <2>3 DEF Contents
  <1>13. RunsWholeOrNotAtAll'
    BY <1>2 DEF RunsWholeOrNotAtAll, RunInv, Running
  <1> QED BY <1>5, <1>6, <1>8, <1>10, <1>11, <1>12, <1>13 DEF RunInv

(* What was collected becomes the batch; the one before it, and the array it  *)
(* was collected from, are deleted.                                           *)
LEMMA EndCallKeeps ==
  ASSUME RunInv, EndCall
  PROVE  RunInv'
  <1>1. /\ Running /\ Alive /\ node <= Len(flow) /\ Collecting /\ InCall /\ ~AtNode({"filter"})
        /\ pos > source.len
    BY DEF EndCall, Collecting, InCall, AtNode, Running, Alive
  <1>2. /\ out \in Seq(1..nextRef) /\ Len(out) \in Nat /\ Len(out) <= MaxItems
        /\ report' = [report EXCEPT !.itemsIn = Len(out)]
        /\ report \in ReportType
    BY <1>1 DEF RunInv, TypeOK, Places, EndCall, ReportType
  <1>3. report'.status = "running" /\ report' \in ReportType
    BY <1>1, <1>2 DEF ReportType, Running
  <1>4. KnownOK'
    BY CallsNothingKeeps, TypesInReach DEF EndCall
  <1>5. /\ source.array \/ source.len = 1
        /\ FirstHeld = 1
        /\ Reading <=> source.array
    BY <1>1, TypesInReach DEF RunInv, Places, FirstHeld, Reading
  <1> DEFINE released == Elements(items) \cup SourceRefs
  <1>6. \A i \in 1..Len(out) : out[i] \in DOMAIN registry /\ out[i] \notin released
    <2> SUFFICES ASSUME NEW i \in 1..Len(out)
                 PROVE  out[i] \in DOMAIN registry /\ out[i] \notin released
      OBVIOUS
    <2>1. out[i] \in DOMAIN registry
      BY <1>1, TypesInReach DEF RunInv, Keys, Holds
    <2>2. out[i] \notin Elements(items)
      BY <1>1 DEF RunInv, Keys, Elements
    <2>3. out[i] \notin SourceRefs
      BY <1>1 DEF RunInv, Keys, SourceRefs
    <2> QED BY <2>1, <2>2, <2>3
  <1>7. ASSUME NEW r \in DOMAIN registry, r \notin released
        PROVE  \E i \in 1..Len(out) : out[i] = r
    <2>1. Holds(r)
      BY <1>1 DEF RunInv, Keys
    <2> QED BY <1>5, <1>7, <2>1 DEF Holds, Elements, SourceRefs
  <1>8. \A i, j \in 1..Len(out) : out[i] = out[j] => i = j
    BY <1>1 DEF RunInv, Keys
  <1>9. NextNode(out, released)
    BY DEF EndCall
  <1> HIDE DEF released
  <1> QED BY <1>1, <1>2, <1>3, <1>4, <1>6, <1>7, <1>8, <1>9, NextNodeKeeps

(* The end of a set or a tap leaves the keys of the batch as they are.        *)
LEMMA EndKeeps ==
  ASSUME RunInv, TapNothing \/ EndSet \/ EndTap
  PROVE  RunInv'
  <1>1. /\ Running /\ Alive /\ node <= Len(flow) /\ AtNode({"set", "tap"}) /\ ~InCall
        /\ ~AtNode({"filter"}) /\ report' = report /\ NextNode(items, {})
    BY DEF TapNothing, EndSet, EndTap, InCall, AtNode, Running, Alive
  <1>2. /\ items \in Seq(1..nextRef) /\ Len(items) <= MaxItems
        /\ report' \in ReportType /\ report'.status = "running"
    BY <1>1 DEF RunInv, TypeOK, Places, ReportType, Running
  <1>3. KnownOK'
    <2>1. CASE Calls({}, Nil)
      BY <2>1, CallsKeep, TypesInReach
    <2>2. CASE CallsNothing
      BY <2>2, CallsNothingKeeps, TypesInReach
    <2> QED BY <2>1, <2>2 DEF TapNothing, EndSet, EndTap
  <1>4. FirstHeld = 1 /\ ~Reading /\ Len(out) = 0
    BY <1>1 DEF FirstHeld, Reading, Collecting, RunInv, Places
  <1>5. \A r : Holds(r) <=> \E i \in 1..Len(items) : items[i] = r
    BY <1>4 DEF Holds
  <1>6. \A i \in 1..Len(items) : items[i] \in DOMAIN registry
    BY <1>1, <1>5, TypesInReach DEF RunInv, Keys
  <1>7. \A r \in DOMAIN registry : \E i \in 1..Len(items) : items[i] = r
    BY <1>1, <1>5 DEF RunInv, Keys
  <1>8. \A i, j \in 1..Len(items) : items[i] = items[j] => i = j
    BY <1>1 DEF RunInv, Keys
  <1> QED BY <1>1, <1>2, <1>3, <1>6, <1>7, <1>8, NextNodeKeeps

(* What was filtered becomes the batch: the keys not in it are deleted already.*)
LEMMA EndFilterKeeps ==
  ASSUME RunInv, EndFilter
  PROVE  RunInv'
  <1>1. /\ Running /\ Alive /\ node <= Len(flow) /\ AtNode({"filter"}) /\ ~InCall
        /\ report' = report /\ NextNode(out, {}) /\ pos > Len(items)
    BY DEF EndFilter, InCall, AtNode, Running, Alive
  <1>2. /\ out \in Seq(1..nextRef) /\ Len(out) <= MaxItems
        /\ report' \in ReportType /\ report'.status = "running"
    BY <1>1 DEF RunInv, TypeOK, Places, ReportType, Running
  <1>3. KnownOK'
    BY CallsNothingKeeps, TypesInReach DEF EndFilter
  <1>4. FirstHeld..Len(items) = {} /\ ~Reading
    BY <1>1, TypesInReach DEF FirstHeld, Reading, Collecting
  <1>5. \A r : Holds(r) <=> \E i \in 1..Len(out) : out[i] = r
    BY <1>4 DEF Holds
  <1>6. \A i \in 1..Len(out) : out[i] \in DOMAIN registry
    BY <1>1, <1>5, TypesInReach DEF RunInv, Keys
  <1>7. \A r \in DOMAIN registry : \E i \in 1..Len(out) : out[i] = r
    BY <1>1, <1>5 DEF RunInv, Keys
  <1>8. \A i, j \in 1..Len(out) : out[i] = out[j] => i = j
    BY <1>1 DEF RunInv, Keys
  <1> QED BY <1>1, <1>2, <1>3, <1>6, <1>7, <1>8, NextNodeKeeps

(* The item a loop is at. *)
LEMMA ItemIsValue ==
  ASSUME RunInv, AtItem({"set", "filter", "tap"})
  PROVE  /\ pos \in 1..Len(items) /\ items[pos] \in DOMAIN registry
         /\ registry[items[pos]] \in Objs \cup {Nil}
         /\ Running /\ Alive /\ node <= Len(flow)
  <1>1. pos \in 1..Len(items) /\ Running /\ Alive /\ node <= Len(flow)
    BY TypesInReach DEF AtItem, AtNode, Alive, Running
  <1>2. Holds(items[pos])
    BY <1>1, TypesInReach DEF Holds, FirstHeld
  <1>3. items[pos] \in DOMAIN registry
    BY <1>1, <1>2, TypesInReach DEF RunInv, Keys
  <1> QED BY <1>1, <1>3, TypesInReach DEF RegistryOK

(* Values that are in the batch only if Lua code kept them. *)
Separate(o) ==
  o \in known \cup {Nil} \/ \A i \in 1..Len(items) : registry[items[i]] # o

(* What a call gives without its on_data is separate from the batch.          *)
LEMMA RawIsSeparate ==
  ASSUME RunInv, Collecting, pos <= source.len, NEW raw \in RawValues
  PROVE  raw \in Objs \cup {Nil} /\ Separate(raw)
  <1>1. /\ Running /\ Alive /\ InCall /\ ~AtNode({"filter"}) /\ FirstHeld = 1
    BY DEF Collecting, InCall, AtNode, Running, Alive, FirstHeld
  <1>2. \A i \in 1..Len(items) : items[i] \in DOMAIN registry
    BY <1>1, TypesInReach DEF RunInv, Keys, Holds
  <1>3. ASSUME NEW r, Holds(r), r \in 1..nextRef, Apart(r)
        PROVE  registry[r] \in Objs \cup {Nil} /\ Separate(registry[r])
    <2>1. r \in DOMAIN registry
      BY <1>1, <1>3 DEF RunInv, Keys
    <2>2. registry[r] \in Objs \cup {Nil}
      BY <2>1, TypesInReach DEF RegistryOK
    <2> QED BY <1>3, <2>2 DEF Apart, Separate
  <1>4. CASE ~source.array /\ raw = registry[source.ref]
    <2>1. Reading /\ source.ref \in 1..nextRef
      <3>1. pos = 1 /\ source.ref # 0
        BY <1>1, <1>4, TypesInReach DEF RunInv, Places
      <3>2. source.ref \in 0..nextRef
        BY DEF RunInv, TypeOK
      <3> QED BY <3>1, <3>2 DEF Reading
    <2>2. Holds(source.ref) /\ Apart(source.ref)
      BY <1>1, <2>1 DEF Holds, RunInv, Aliases
    <2> QED BY <1>3, <1>4, <2>1, <2>2
  <1>5. CASE raw \in known \cup {Nil}
    BY <1>5, TypesInReach DEF KnownOK, Separate
  <1>6. CASE raw = Fresh({})
    <2>1. Len(out) < MaxItems
      BY <1>1, TypesInReach, ExecutorConstants DEF RunInv, Places
    <2> QED BY <1>1, <1>2, <1>6, <2>1, FreshIsNew DEF Separate
  <1>7. CASE raw \in Elements(Values(out))
    <2>1. PICK j \in 1..Len(out) : raw = registry[out[j]]
      <3>1. Len(out) \in Nat
        BY TypesInReach
      <3>2. Len(Values(out)) = Len(out)
        BY <3>1 DEF Values
      <3>3. \A j \in 1..Len(out) : Values(out)[j] = registry[out[j]]
        BY DEF Values
      <3> QED BY <1>7, <3>2, <3>3 DEF Elements
    <2>2. Holds(out[j]) /\ Apart(out[j]) /\ out[j] \in 1..nextRef
      BY <1>1, <2>1, TypesInReach DEF Holds, RunInv, Aliases
    <2> QED BY <1>3, <2>1, <2>2
  <1> QED BY <1>4, <1>5, <1>6, <1>7 DEF RawValues

(* A function can return only what it was given, what was kept, or a new value.*)
LEMMA ResultIsSeparate ==
  ASSUME RunInv, InCall, Len(out) < MaxItems,
         NEW args, args = {} \/ \E o \in Objs \cup {Nil} : args = {o} /\ Separate(o),
         NEW result \in Results(args)
  PROVE  result \in Objs /\ result # Nil /\ Separate(result)
  <1>1. /\ Running /\ Alive /\ ~AtNode({"filter"}) /\ FirstHeld = 1
    BY DEF InCall, AtNode, Running, Alive, FirstHeld
  <1>2. \A i \in 1..Len(items) : items[i] \in DOMAIN registry
    BY <1>1, TypesInReach DEF RunInv, Keys, Holds
  <1>3. /\ Fresh(args) \in Objs
        /\ \A r \in DOMAIN registry : registry[r] # Fresh(args)
    BY <1>1, FreshIsNew
  <1>4. result # Nil /\ result \in args \cup known \cup {Fresh(args)}
    BY DEF Results
  <1>5. known \subseteq Objs
    BY TypesInReach DEF KnownOK
  <1> QED BY <1>2, <1>3, <1>4, <1>5 DEF Separate

(* A sequence of keys with one more.                                          *)
LEMMA AppendKeys ==
  ASSUME NEW n \in Nat, NEW s \in Seq(1..n), NEW r \in 1..n
  PROVE  /\ Append(s, r) \in Seq(1..n) /\ Len(Append(s, r)) = Len(s) + 1
         /\ Len(s) \in Nat
         /\ \A i \in 1..Len(s) : Append(s, r)[i] = s[i]
         /\ Append(s, r)[Len(s) + 1] = r
  <1> DEFINE K == 1..n
  <1>1. s \in Seq(K) /\ r \in K
    OBVIOUS
  <1> HIDE DEF K
  <1> QED BY <1>1, AppendProperties DEF K

(* One more item of a call: a new key, or that of the value of exec itself.   *)
LEMMA CollectKeeps ==
  ASSUME RunInv, Collecting, pos <= source.len, KnownOK', known \subseteq known',
         NEW ref, out' = Append(out, ref), pos' = pos + 1,
         UNCHANGED <<declared, flow, node, items, source, report, before>>,
         NEW gone, NEW o \in Objs \cup {Nil}, Separate(o),
         flow[node] = "callData" => o # Nil,
         \/ /\ ref = nextRef /\ Exchange(gone, o)
            /\ gone = IF source.array THEN {} ELSE {source.ref}
         \/ /\ ref = source.ref /\ ~source.array /\ flow[node] = "call"
            /\ UNCHANGED <<registry, nextRef>> /\ o = registry[source.ref]
  PROVE  RunInv'
  <1>1. /\ Running /\ Alive /\ InCall /\ node <= Len(flow) /\ FirstHeld = 1
        /\ flow[node] \in {"call", "callData"} /\ source # NoSource
        /\ report.status = "running"
    BY DEF Collecting, InCall, AtNode, Running, Alive, FirstHeld
  <1>2. /\ declared' = declared /\ flow' = flow /\ node' = node /\ items' = items
        /\ source' = source /\ report' = report /\ before' = before /\ Planned' = Planned
    BY DEF Planned
  <1>3. /\ Running' /\ Alive' /\ InCall' /\ Collecting' /\ FirstHeld' = 1
        /\ \A kinds : AtNode(kinds)' <=> flow[node] \in kinds
        /\ \A kinds : AtNode(kinds) <=> flow[node] \in kinds
    BY <1>1, <1>2 DEF Collecting, InCall, AtNode, Running, Alive, FirstHeld
  <1>4. /\ Len(out) = pos - 1 /\ Len(out) < MaxItems /\ source.len <= MaxItems
        /\ source.ref # 0 /\ source.ref < nextRef
        /\ source.array \/ (source.len = 1 /\ pos = 1 /\ Len(out) = 0)
        /\ Reading
    BY SMTT(30), <1>1, TypesInReach, ExecutorConstants DEF RunInv, Places, Keys, Reading
  <1>5. /\ RegistryOK' /\ nextRef <= nextRef' /\ nextRef' \in Nat \ {0}
        /\ ref \in 1..nextRef' /\ ref < nextRef'
        /\ ref \in DOMAIN registry' /\ registry'[ref] = o
        /\ \A r : r \in DOMAIN registry' <=>
                    r = ref \/ (r \in DOMAIN registry /\ (r # source.ref \/ source.array))
        /\ \A r \in DOMAIN registry : r \in DOMAIN registry' => registry'[r] = registry[r]
        /\ \A r \in DOMAIN registry' : r < nextRef'
        /\ ref = nextRef \/ (ref = source.ref /\ ~source.array)
    <2>1. \A r \in DOMAIN registry : r < nextRef
      BY <1>1 DEF RunInv, Keys
    <2>2. source.ref \in DOMAIN registry /\ source.ref \in Nat
      <3>1. source.ref \in 1..nextRef
        BY <1>4, TypesInReach DEF RegistryOK
      <3> QED BY <1>1, <1>4, <3>1, TypesInReach DEF RunInv, Keys, Holds
    <2>3. RegistryOK
      BY TypesInReach
    <2>4. CASE /\ ref = nextRef /\ Exchange(gone, o)
               /\ gone = IF source.array THEN {} ELSE {source.ref}
      <3>1. /\ RegistryOK' /\ nextRef' = nextRef + 1
            /\ DOMAIN registry' = (DOMAIN registry \ gone) \cup {nextRef}
            /\ registry'[nextRef] = o
            /\ \A r \in DOMAIN registry' : r # nextRef => registry'[r] = registry[r]
        BY <2>3, <2>4, ExchangeKeeps
      <3>2. nextRef \in Nat \ {0} /\ \A r \in DOMAIN registry : r \in Nat
        BY <2>3 DEF RegistryOK
      <3>3. \A r \in DOMAIN registry' : r < nextRef'
        BY <2>1, <3>1, <3>2
      <3>4. \A r \in DOMAIN registry : r # nextRef
        BY <2>1, <3>2
      <3>5. \A r \in DOMAIN registry : r \in DOMAIN registry' => registry'[r] = registry[r]
        BY <3>1, <3>4
      <3>6. \A r : r \in DOMAIN registry' <=>
                     r = ref \/ (r \in DOMAIN registry /\ (r # source.ref \/ source.array))
        BY <2>4, <3>1
      <3>7. /\ nextRef + 1 \in Nat \ {0} /\ nextRef \in 1..(nextRef + 1)
            /\ nextRef < nextRef + 1 /\ nextRef <= nextRef + 1
        BY <3>2
      <3> QED BY <2>4, <3>1, <3>3, <3>5, <3>6, <3>7
    <2>5. CASE ref = source.ref /\ ~source.array /\ UNCHANGED <<registry, nextRef>>
               /\ o = registry[source.ref]
      <3>1. ref \in 1..nextRef
        BY <1>4, <2>2, <2>3, <2>5 DEF RegistryOK
      <3> QED BY <1>4, <2>1, <2>2, <2>3, <2>5, <3>1 DEF RegistryOK
    <2> QED BY <2>4, <2>5
  <1>6. /\ out' \in Seq(1..nextRef') /\ Len(out') = Len(out) + 1 /\ Len(out) \in Nat
        /\ \A i \in 1..Len(out) : out'[i] = out[i]
        /\ out'[Len(out) + 1] = ref
        /\ \A i \in 1..Len(out') : i \in 1..Len(out) \/ i = Len(out) + 1
    <2>1. out \in Seq(1..nextRef')
      BY <1>5, KeysGrow DEF RunInv, TypeOK
    <2>2. /\ out' \in Seq(1..nextRef') /\ Len(out') = Len(out) + 1 /\ Len(out) \in Nat
          /\ \A i \in 1..Len(out) : out'[i] = out[i]
          /\ out'[Len(out) + 1] = ref
      BY <1>5, <2>1, AppendKeys
    <2> QED BY <2>2
  <1>7. TypeOK'
    <2>1. items' \in Seq(1..nextRef')
      BY <1>2, <1>5, KeysGrow DEF RunInv, TypeOK
    <2>2. source' \in [ref : 0..nextRef', len : Nat, array : BOOLEAN]
      <3>1. source \in [ref : 0..nextRef, len : Nat, array : BOOLEAN] /\ nextRef \in Nat
        BY DEF RunInv, TypeOK
      <3>2. \A r \in 0..nextRef : r \in 0..nextRef'
        BY <1>5, <3>1
      <3> QED BY <1>2, <3>1, <3>2
    <2>3. pos' \in Nat
      BY TypesInReach
    <2>4. /\ declared' \in Seq(Declared) /\ flow' \in Seq(Kinds)
          /\ node' \in 1..(Len(flow') + 1) /\ before' \in Seq(Objs \cup {Nil})
          /\ report' \in [status : {"loading", "running", "ok", "empty", "error", "panic"},
                          at : 0..Len(Planned'), itemsIn : Nat, itemsOut : Nat]
      BY <1>2 DEF RunInv, TypeOK
    <2> QED BY <1>5, <1>6, <2>1, <2>2, <2>3, <2>4 DEF TypeOK, KnownOK, RegistryOK
  <1>8. Bounds' /\ Unstarted'
    BY <1>1, <1>2, <1>5, TypesInReach DEF Bounds, Unstarted, KnownOK
  <1>9. Places'
    <2>1. /\ pos' = pos + 1 /\ pos + 1 <= source.len + 1
          /\ Len(out') = pos' - 1 /\ Len(out') <= MaxItems
      <3>1. pos \in Nat /\ source.len \in Nat /\ MaxItems \in Nat /\ pos' = pos + 1
        BY TypesInReach, ExecutorConstants
      <3> QED BY <1>4, <1>6, <3>1
    <2>2. flow = Planned /\ Len(items) <= MaxItems /\ (source.array \/ source.len = 1)
          /\ source.ref # 0
      BY <1>1, <1>4 DEF RunInv, Places
    <2>3. node <= Len(flow) /\ ~(node > Len(flow))
      BY <1>1, TypesInReach
    <2> QED BY <1>1, <1>2, <1>3, <1>4, <2>1, <2>2, <2>3 DEF Places
  <1>10. \A r : Holds(r)' <=> \/ r = ref \/ \E i \in 1..Len(out) : out[i] = r
                              \/ \E i \in 1..Len(items) : items[i] = r
                              \/ source.array /\ r = source.ref
    <2>1. Reading' <=> source.array
      BY <1>2, <1>3, <1>4, TypesInReach DEF Reading
    <2>2. \A r : (\E i \in 1..Len(out') : out'[i] = r)
                   <=> r = ref \/ \E i \in 1..Len(out) : out[i] = r
      BY <1>6
    <2> QED BY <1>2, <1>3, <2>1, <2>2 DEF Holds
  <1>11. Keys'
    <2>1. \A r : Holds(r) <=> \/ r = source.ref \/ \E i \in 1..Len(out) : out[i] = r
                              \/ \E i \in 1..Len(items) : items[i] = r
      BY <1>1, <1>4 DEF Holds
    <2>2. \A r : r \in DOMAIN registry <=> Holds(r)
      <3>1. source.ref \in 1..nextRef
        BY <1>4, TypesInReach DEF RegistryOK
      <3>2. \A r : Holds(r) => r \in 1..nextRef
        BY <2>1, <3>1, TypesInReach
      <3> QED BY <1>1, <3>2 DEF RunInv, Keys
    <2>3. /\ \A i, j \in 1..Len(items) : items[i] = items[j] => i = j
          /\ \A i, j \in 1..Len(out) : out[i] = out[j] => i = j
          /\ \A i \in 1..Len(items) : items[i] < nextRef /\ items[i] # source.ref
          /\ \A i \in 1..Len(out) : out[i] < nextRef
          /\ source.array => \A i \in 1..Len(out) : out[i] # source.ref
      BY <1>1 DEF RunInv, Keys
    <2>4. \A i \in 1..Len(items), j \in 1..Len(out) : items[i] # out[j]
      BY <1>3, <1>1 DEF RunInv, Keys
    <2>5. ~source.array => Len(out) = 0
      BY <1>4
    <2>6. \A r : r \in DOMAIN registry' <=> Holds(r)'
      BY <1>5, <1>10, <2>1, <2>2, <2>3, <2>5
    <2>7. \A i \in 1..Len(items) : items[i] # ref /\ items[i] < nextRef'
      BY SMTT(30), <1>5, <2>3, TypesInReach DEF RegistryOK
    <2>8. \A i \in 1..Len(out) : out[i] # ref /\ out[i] < nextRef'
      BY SMTT(30), <1>5, <2>3, <2>5, TypesInReach DEF RegistryOK
    <2>9. source.array => ref # source.ref
      BY <1>4, <1>5, TypesInReach
    <2>10. source.ref < nextRef'
      BY <1>4, <1>5, TypesInReach DEF RegistryOK
    <2>11. \A i, j \in 1..Len(out') : out'[i] = out'[j] => i = j
      BY <1>6, <2>3, <2>8
    <2>12. \A i \in 1..Len(out') : out'[i] < nextRef'
      BY <1>5, <1>6, <2>8
    <2>13. \A i \in 1..Len(items'), j \in 1..Len(out') : items'[i] # out'[j]
      BY <1>2, <1>6, <2>4, <2>7
    <2>14. source.array => \A i \in 1..Len(out') : out'[i] # source.ref
      BY <1>6, <2>3, <2>9
    <2> QED BY <1>2, <1>5, <2>3, <2>6, <2>7, <2>10, <2>11, <2>12, <2>13, <2>14 DEF Keys
  <1>12. /\ \A i \in 1..Len(items) : registry'[items[i]] = registry[items[i]]
         /\ \A j \in 1..Len(out) : registry'[out[j]] = registry[out[j]]
         /\ source.array => registry'[source.ref] = registry[source.ref]
    <2>1. \A i \in 1..Len(items) : items[i] \in DOMAIN registry /\ items[i] # source.ref
      BY <1>1, TypesInReach DEF RunInv, Keys, Holds
    <2>2. \A j \in 1..Len(out) : out[j] \in DOMAIN registry /\ (source.array \/ out[j] # source.ref)
      BY <1>1, <1>4, TypesInReach DEF RunInv, Keys, Holds
    <2>3. source.ref \in DOMAIN registry
      <3>1. source.ref \in 1..nextRef
        BY <1>4, TypesInReach DEF RegistryOK
      <3> QED BY <1>1, <1>4, <3>1 DEF RunInv, Keys, Holds
    <2> QED BY <1>5, <2>1, <2>2, <2>3
  <1>13. Aliases'
    <2>1. ASSUME NEW j \in 1..Len(out'), NEW i \in 1..Len(items'),
                 registry'[items'[i]] = registry'[out'[j]]
          PROVE  registry'[out'[j]] \in known' \cup {Nil}
      <3>1. CASE out'[j] = ref
        BY <1>2, <1>5, <1>12, <2>1, <3>1 DEF Separate
      <3>2. CASE j \in 1..Len(out)
        <4>1. Apart(out[j]) /\ out'[j] = out[j] /\ registry'[out[j]] = registry[out[j]]
          BY <1>1, <1>6, <1>12, <3>2 DEF RunInv, Aliases
        <4>2. registry[items[i]] = registry[out[j]] /\ i \in 1..Len(items)
          BY <1>2, <1>12, <2>1, <4>1
        <4> QED BY <4>1, <4>2 DEF Apart
      <3> QED BY <1>6, <3>1, <3>2
    <2>2. ASSUME Reading', NEW i \in 1..Len(items'),
                 registry'[items'[i]] = registry'[source'.ref]
          PROVE  registry'[source'.ref] \in known' \cup {Nil}
      <3>1. source.array
        BY <1>2, <1>3, <1>4, <2>2, TypesInReach DEF Reading
      <3>2. Apart(source.ref)
        BY <1>1, <1>4 DEF RunInv, Aliases
      <3> QED BY <1>2, <1>12, <2>2, <3>1, <3>2 DEF Apart
    <2> QED BY <2>1, <2>2 DEF Aliases, Apart
  <1>15. Contents'
    <2>1. Len(items) = Len(before)
      BY <1>1 DEF RunInv, Contents
    <2>2. ASSUME flow[node] = "callData", NEW j \in 1..Len(out')
          PROVE  registry'[out'[j]] # Nil
      <3>1. CASE out'[j] = ref
        BY <1>5, <2>2, <3>1
      <3>2. CASE j \in 1..Len(out)
        <4>1. registry[out[j]] # Nil
          BY <1>1, <1>3, <2>2, <3>2 DEF RunInv, Contents
        <4> QED BY <1>6, <1>12, <3>2, <4>1
      <3> QED BY <1>6, <3>1, <3>2
    <2>3. ~(node' > Len(flow'))
      BY <1>1, <1>2, TypesInReach
    <2> QED BY <1>1, <1>2, <1>3, <2>1, <2>2, <2>3 DEF Contents
  <1>14. RunsWholeOrNotAtAll'
    BY <1>1, <1>2 DEF RunsWholeOrNotAtAll, RunInv
  <1> QED BY <1>7, <1>8, <1>9, <1>11, <1>13, <1>14, <1>15 DEF RunInv

(* The call of exec.                                                          *)
LEMMA CallKeeps ==
  ASSUME RunInv, Call
  PROVE  RunInv'
  <1>1. /\ Running /\ Alive /\ InCall /\ node <= Len(flow) /\ FirstHeld = 1 /\ source = NoSource
        /\ pos = 1 /\ out = << >> /\ Len(out) = 0 /\ ~Reading /\ ~AtNode({"filter"})
        /\ report.status = "running" /\ flow[node] \in {"call", "callData"}
    <2>1. /\ Running /\ Alive /\ InCall /\ node <= Len(flow)
          /\ source = NoSource /\ ~AtNode({"filter"})
          /\ flow[node] \in {"call", "callData"}
      BY DEF Call, InCall, AtNode, Running, Alive
    <2>2. pos = 1 /\ out = << >>
      BY <2>1 DEF RunInv, Places
    <2> QED BY <2>1, <2>2 DEF FirstHeld, Reading, Collecting, Running
  <1>2. PICK o \in Objs \cup {Nil}, len \in Nat, array \in BOOLEAN :
          /\ Separate(o) /\ Exchange({}, o) /\ Calls({}, o)
          /\ source' = [ref |-> nextRef, len |-> len, array |-> array]
          /\ len <= MaxItems /\ (array \/ len = 1)
    <2>1. Len(out) < MaxItems /\ MaxItems \in Nat /\ 1 <= MaxItems
      BY <1>1, ExecutorConstants
    <2>2. \A o \in Results({}) : o \in Objs /\ Separate(o)
      BY <1>1, <2>1, ResultIsSeparate
    <2>3. Separate(Nil)
      BY DEF Separate
    <2>4. CASE \E o \in Results({}), len \in 0..MaxItems :
                 /\ Calls({}, o) /\ Exchange({}, o)
                 /\ source' = [ref |-> nextRef, len |-> len, array |-> TRUE]
      <3>1. PICK o \in Results({}), len \in 0..MaxItems :
              /\ Calls({}, o) /\ Exchange({}, o)
              /\ source' = [ref |-> nextRef, len |-> len, array |-> TRUE]
        BY <2>4
      <3>2. o \in Objs \cup {Nil} /\ Separate(o) /\ len \in Nat /\ len <= MaxItems
        BY <2>1, <2>2
      <3> QED BY <3>1, <3>2
    <2>5. CASE \E o \in Results({}) \cup {Nil} :
                 /\ Calls({}, o) /\ Exchange({}, o)
                 /\ source' = [ref |-> nextRef, len |-> 1, array |-> FALSE]
      BY <2>1, <2>2, <2>3, <2>5
    <2> QED BY <2>4, <2>5 DEF Call
  <1>3. KnownOK' /\ known \subseteq known'
    BY <1>2, CallsKeep, TypesInReach
  <1>4. /\ declared' = declared /\ flow' = flow /\ node' = node /\ items' = items /\ pos' = pos
        /\ out' = out /\ report' = report /\ before' = before /\ Planned' = Planned
    BY DEF Call, Planned
  <1>5. /\ RegistryOK' /\ nextRef' = nextRef + 1
        /\ DOMAIN registry' = DOMAIN registry \cup {nextRef}
        /\ registry'[nextRef] = o
        /\ \A r \in DOMAIN registry' : r # nextRef => registry'[r] = registry[r]
    <2>1. DOMAIN registry \ {} = DOMAIN registry
      OBVIOUS
    <2> QED BY <1>2, <2>1, ExchangeKeeps, TypesInReach
  <1>6. nextRef \in Nat \ {0} /\ \A r \in DOMAIN registry : r < nextRef /\ r \in Nat
    BY <1>1, TypesInReach DEF RunInv, Keys, RegistryOK
  <1>7. TypeOK'
    <2>1. nextRef <= nextRef + 1 /\ nextRef + 1 \in Nat /\ nextRef \in 0..(nextRef + 1)
      BY <1>6
    <2>2. items' \in Seq(1..nextRef') /\ out' \in Seq(1..nextRef')
      BY <1>4, <1>5, <1>6, <2>1, KeysGrow DEF RunInv, TypeOK
    <2>3. source' \in [ref : 0..nextRef', len : Nat, array : BOOLEAN]
      BY <1>2, <1>5, <2>1
    <2>4. /\ declared' \in Seq(Declared) /\ flow' \in Seq(Kinds)
          /\ node' \in 1..(Len(flow') + 1) /\ before' \in Seq(Objs \cup {Nil}) /\ pos' \in Nat
          /\ report' \in [status : {"loading", "running", "ok", "empty", "error", "panic"},
                          at : 0..Len(Planned'), itemsIn : Nat, itemsOut : Nat]
      BY <1>4 DEF RunInv, TypeOK
    <2> QED BY <1>3, <1>5, <2>2, <2>3, <2>4 DEF TypeOK, KnownOK, RegistryOK
  <1>8. Bounds' /\ Unstarted'
    BY <1>1, <1>3, <1>4, <1>5 DEF Bounds, Unstarted, KnownOK, RegistryOK
  <1>9. /\ Running' /\ Alive' /\ InCall' /\ Collecting' /\ FirstHeld' = 1 /\ Reading'
        /\ \A kinds : AtNode(kinds)' <=> flow[node] \in kinds
        /\ source'.ref = nextRef /\ source'.ref # 0 /\ source'.len <= MaxItems
        /\ source'.array \/ source'.len = 1
        /\ source'.len \in Nat
    <2>1. source' # NoSource /\ source'.ref = nextRef /\ source'.len = len /\ source'.array = array
      BY <1>2, <1>6 DEF NoSource
    <2>2. Running' /\ Alive' /\ InCall' /\ FirstHeld' = 1
          /\ \A kinds : AtNode(kinds)' <=> flow[node] \in kinds
      BY <1>1, <1>4 DEF InCall, AtNode, Running, Alive, FirstHeld
    <2> QED BY <1>1, <1>2, <1>4, <1>6, <2>1, <2>2 DEF Collecting, Reading
  <1>10. Places'
    <2>1. flow = Planned /\ Len(items) <= MaxItems /\ ~(node > Len(flow))
      BY <1>1, TypesInReach DEF RunInv, Places
    <2>2. Len(out') = pos' - 1 /\ pos' <= source'.len + 1 /\ Len(out') <= MaxItems
      BY <1>1, <1>4, <1>9, ExecutorConstants
    <2>3. ~AtNode({"set", "filter", "tap"})' /\ ~AtNode({"set", "tap"})' /\ ~AtNode({"filter"})'
      BY <1>1, <1>9
    <2>4. source' # NoSource
      BY <1>9 DEF Collecting
    <2> QED BY <1>4, <1>9, <2>1, <2>2, <2>3, <2>4 DEF Places
  <1>11. \A i \in 1..Len(items) : items[i] \in DOMAIN registry
    BY <1>1, TypesInReach DEF RunInv, Keys, Holds
  <1>12. Keys'
    <2>1. \A r : Holds(r)' <=> r = nextRef \/ \E i \in 1..Len(items) : items[i] = r
      BY <1>1, <1>4, <1>9 DEF Holds
    <2>2. \A r \in DOMAIN registry : \E i \in 1..Len(items) : items[i] = r
      BY <1>1 DEF RunInv, Keys, Holds
    <2>3. \A r : r \in DOMAIN registry' <=> Holds(r)'
      BY <1>5, <1>11, <2>1, <2>2
    <2>4. \A r \in DOMAIN registry' : r < nextRef'
      BY <1>5, <1>6
    <2>5. \A i \in 1..Len(items) : items[i] < nextRef' /\ items[i] # nextRef
      BY <1>5, <1>6, <1>11
    <2>6. \A i, j \in 1..Len(items) : items[i] = items[j] => i = j
      BY <1>1 DEF RunInv, Keys
    <2>7. nextRef < nextRef' /\ 1..Len(out') = {}
      BY <1>1, <1>4, <1>5, <1>6
    <2> QED BY <1>4, <1>9, <2>3, <2>4, <2>5, <2>6, <2>7 DEF Keys
  <1>13. \A i \in 1..Len(items) : registry'[items[i]] = registry[items[i]]
    BY <1>5, <1>6, <1>11
  <1>14. Aliases'
    <2>1. ASSUME NEW i \in 1..Len(items'), registry'[items'[i]] = registry'[source'.ref]
          PROVE  registry'[source'.ref] \in known' \cup {Nil}
      BY <1>2, <1>3, <1>4, <1>5, <1>9, <1>13, <2>1 DEF Separate
    <2>2. 1..Len(out') = {}
      BY <1>1, <1>4
    <2> QED BY <2>1, <2>2 DEF Aliases, Apart
  <1>15. Contents'
    <2>1. Len(items) = Len(before) /\ 1..Len(out') = {} /\ ~(node > Len(flow))
      BY <1>1, <1>4, TypesInReach DEF RunInv, Contents
    <2> QED BY <1>1, <1>4, <1>9, <2>1 DEF Contents
  <1>16. RunsWholeOrNotAtAll'
    BY <1>1, <1>4 DEF RunsWholeOrNotAtAll, RunInv
  <1> QED BY <1>7, <1>8, <1>10, <1>12, <1>14, <1>15, <1>16 DEF RunInv

(* The collection of its values, without on_data, ...                         *)
LEMMA CollectRawKeeps ==
  ASSUME RunInv, CollectRaw
  PROVE  RunInv'
  <1>1. Collecting /\ pos <= source.len /\ flow[node] = "call"
    BY DEF CollectRaw
  <1>2. KnownOK' /\ known \subseteq known'
    BY CallsNothingKeeps, TypesInReach DEF CollectRaw
  <1>3. CASE source.array
    <2>1. PICK raw \in RawValues : Exchange({}, raw)
      BY <1>3 DEF CollectRaw
    <2>2. raw \in Objs \cup {Nil} /\ Separate(raw)
      BY <1>1, RawIsSeparate
    <2>3. out' = Append(out, nextRef) /\ pos' = pos + 1
          /\ UNCHANGED <<declared, flow, node, items, source, report, before>>
      BY <1>3 DEF CollectRaw, Collected
    <2> QED BY <1>1, <1>2, <1>3, <2>1, <2>2, <2>3, CollectKeeps
  <1>4. CASE ~source.array
    <2>1. registry[source.ref] \in Objs \cup {Nil} /\ Separate(registry[source.ref])
      BY <1>1, <1>4, RawIsSeparate DEF RawValues
    <2>2. out' = Append(out, source.ref) /\ pos' = pos + 1 /\ UNCHANGED <<registry, nextRef>>
          /\ UNCHANGED <<declared, flow, node, items, source, report, before>>
      BY <1>4 DEF CollectRaw, Collected
    <2> QED BY <1>1, <1>2, <1>4, <2>1, <2>2, CollectKeeps
  <1> QED BY <1>3, <1>4

(* ... and with it.                                                           *)
LEMMA CollectDataKeeps ==
  ASSUME RunInv, CollectData
  PROVE  RunInv'
  <1>1. Collecting /\ pos <= source.len /\ flow[node] = "callData" /\ InCall
    BY DEF CollectData, Collecting
  <1>0. PICK raw \in RawValues : \E o \in Results({raw}) :
          Calls({raw}, o) /\ Exchange(IF source.array THEN {} ELSE {source.ref}, o)
    BY DEF CollectData
  <1>2. PICK o \in Results({raw}) :
          Calls({raw}, o) /\ Exchange(IF source.array THEN {} ELSE {source.ref}, o)
    BY <1>0
  <1>3. raw \in Objs \cup {Nil} /\ Separate(raw)
    BY <1>0, <1>1, RawIsSeparate
  <1>4. Len(out) < MaxItems
    BY <1>1, TypesInReach, ExecutorConstants DEF RunInv, Places, Alive, InCall, AtNode, Running
  <1>5. o \in Objs /\ o # Nil /\ Separate(o)
    BY <1>1, <1>2, <1>3, <1>4, ResultIsSeparate
  <1>6. KnownOK' /\ known \subseteq known'
    BY <1>2, <1>3, <1>5, CallsKeep, TypesInReach
  <1>7. out' = Append(out, nextRef) /\ pos' = pos + 1
        /\ UNCHANGED <<declared, flow, node, items, source, report, before>>
    BY DEF CollectData, Collected
  <1> QED BY <1>1, <1>2, <1>5, <1>6, <1>7, CollectKeeps

(* Every failure of a node.                                                   *)
LEMMA FailsKeep ==
  ASSUME RunInv, CollectFails \/ ItemFails \/ CloneFails \/ CallFails
  PROVE  RunInv'
  <1>1. CASE CollectFails
    <2>1. Collecting /\ pos <= source.len /\ Running /\ node <= Len(flow)
      BY <1>1 DEF CollectFails, Collecting, InCall, AtNode
    <2>2. PICK raw \in RawValues : Calls({raw}, Nil)
      BY <1>1 DEF CollectFails
    <2>3. raw \in Objs \cup {Nil}
      BY <2>1, RawIsSeparate
    <2>4. KnownOK'
      BY <2>2, <2>3, CallsKeep, TypesInReach
    <2> QED BY <1>1, <2>1, <2>4, FailKeeps DEF CollectFails
  <1>2. CASE ItemFails
    <2> DEFINE o == registry[items[pos]]
               args == {IF flow[node] = "tap" THEN Clone(o) ELSE o}
    <2>1. AtItem({"set", "filter", "tap"}) /\ Calls(args, Nil) /\ Fail({})
      BY <1>2 DEF ItemFails
    <2>2. o \in Objs \cup {Nil} /\ Running /\ Alive /\ node <= Len(flow)
      BY <2>1, ItemIsValue
    <2>3. flow[node] = "tap" => Clone(o) \in Objs \cup {Nil}
      <3> SUFFICES ASSUME flow[node] = "tap" PROVE Fresh({}) \in Objs
        BY DEF Clone
      <3>1. Len(out) < MaxItems
        BY <2>2, ExecutorConstants DEF RunInv, Places, AtNode
      <3> QED BY <2>2, <3>1, FreshIsNew
    <2>4. KnownOK'
      BY <2>1, <2>2, <2>3, CallsKeep, TypesInReach
    <2> QED BY <2>1, <2>2, <2>4, FailKeeps
  <1>3. CASE CloneFails
    <2>1. KnownOK' /\ Running /\ node <= Len(flow) /\ Fail({})
      BY <1>3, CallsNothingKeeps, TypesInReach DEF CloneFails, AtItem, AtNode
    <2> QED BY <2>1, FailKeeps
  <1>4. CASE CallFails
    <2>1. Running /\ node <= Len(flow) /\ Fail({}) /\ Calls({}, Nil)
      BY <1>4 DEF CallFails, InCall, AtNode
    <2>2. KnownOK'
      BY <2>1, CallsKeep, TypesInReach
    <2> QED BY <2>1, <2>2, FailKeeps
  <1> QED BY <1>1, <1>2, <1>3, <1>4

(* set puts its result, under a new key, in the place of the item.            *)
LEMMA SetItemKeeps ==
  ASSUME RunInv, SetItem
  PROVE  RunInv'
  <1>1. /\ AtItem({"set"}) /\ AtItem({"set", "filter", "tap"}) /\ AtNode({"set"})
        /\ report.status = "running" /\ flow[node] = "set"
    BY DEF SetItem, AtItem, AtNode, Running
  <1>2. /\ pos \in 1..Len(items) /\ items[pos] \in DOMAIN registry
        /\ registry[items[pos]] \in Objs \cup {Nil}
        /\ Running /\ Alive /\ node <= Len(flow)
    BY <1>1, ItemIsValue
  <1>3. /\ FirstHeld = 1 /\ source = NoSource /\ ~Reading /\ out = << >> /\ Len(out) = 0
        /\ ~InCall /\ ~Collecting /\ Len(items) <= MaxItems /\ flow = Planned
    BY <1>1, <1>2 DEF FirstHeld, Reading, Collecting, InCall, AtNode, RunInv, Places
  <1>4. PICK o \in Results({registry[items[pos]]}) :
          Calls({registry[items[pos]]}, o) /\ Exchange({items[pos]}, o)
    BY DEF SetItem
  <1>5. o \in Objs /\ o # Nil
    <2>1. Len(out) < MaxItems
      BY <1>3, ExecutorConstants
    <2>2. Fresh({registry[items[pos]]}) \in Objs
      BY <1>2, <2>1, FreshIsNew
    <2> QED BY <1>2, <1>4, <2>2, TypesInReach DEF Results, KnownOK
  <1>6. KnownOK'
    BY <1>2, <1>4, <1>5, CallsKeep, TypesInReach
  <1>7. /\ declared' = declared /\ flow' = flow /\ node' = node /\ out' = out
        /\ source' = source /\ report' = report /\ before' = before /\ Planned' = Planned
        /\ items' = [items EXCEPT ![pos] = nextRef] /\ pos' = pos + 1
    BY DEF SetItem, Planned
  <1>8. /\ RegistryOK' /\ nextRef' = nextRef + 1
        /\ DOMAIN registry' = (DOMAIN registry \ {items[pos]}) \cup {nextRef}
        /\ registry'[nextRef] = o
        /\ \A r \in DOMAIN registry' : r # nextRef => registry'[r] = registry[r]
    BY <1>4, <1>5, ExchangeKeeps, TypesInReach
  <1>9. /\ nextRef \in Nat \ {0} /\ \A r \in DOMAIN registry : r < nextRef /\ r \in Nat
        /\ pos \in Nat \ {0} /\ Len(items) \in Nat
    BY <1>2, TypesInReach DEF RunInv, Keys, RegistryOK
  <1>10. /\ items' \in Seq(1..nextRef') /\ Len(items') = Len(items)
         /\ items'[pos] = nextRef
         /\ \A i \in 1..Len(items) : i # pos => items'[i] = items[i]
    <2>1. nextRef <= nextRef + 1 /\ nextRef + 1 \in Nat /\ nextRef \in 1..(nextRef + 1)
      BY <1>9
    <2>2. items \in Seq(1..(nextRef + 1))
      BY <1>9, <2>1, KeysGrow DEF RunInv, TypeOK
    <2> DEFINE K == 1..(nextRef + 1)
    <2>3. items \in Seq(K) /\ nextRef \in K
      BY <2>1, <2>2
    <2> HIDE DEF K
    <2>4. items' \in Seq(K) /\ Len(items') = Len(items)
          /\ \A i \in 1..Len(items) : items'[i] = IF i = pos THEN nextRef ELSE items[i]
      BY <1>2, <1>7, <2>3, ExceptSeq
    <2> QED BY <1>2, <1>8, <2>4 DEF K
  <1>11. TypeOK'
    <2>1. out' \in Seq(1..nextRef')
      BY <1>3, <1>7
    <2>2. source' \in [ref : 0..nextRef', len : Nat, array : BOOLEAN]
      BY <1>3, <1>7, <1>8, <1>9 DEF NoSource
    <2>3. /\ declared' \in Seq(Declared) /\ flow' \in Seq(Kinds)
          /\ node' \in 1..(Len(flow') + 1) /\ before' \in Seq(Objs \cup {Nil})
          /\ report' \in [status : {"loading", "running", "ok", "empty", "error", "panic"},
                          at : 0..Len(Planned'), itemsIn : Nat, itemsOut : Nat]
      BY <1>7 DEF RunInv, TypeOK
    <2>4. /\ nextRef' \in Nat /\ DOMAIN registry' \subseteq 1..nextRef'
          /\ \A r \in DOMAIN registry' : registry'[r] \in Objs \cup {Nil}
      BY <1>8 DEF RegistryOK
    <2>5. known' \subseteq Objs /\ reached' \subseteq Objs
      BY <1>6 DEF KnownOK
    <2>6. pos' \in Nat /\ items' \in Seq(1..nextRef')
      BY <1>7, <1>9, <1>10
    <2> QED BY <2>1, <2>2, <2>3, <2>4, <2>5, <2>6 DEF TypeOK
  <1>12. Bounds' /\ Unstarted'
    BY <1>1, <1>6, <1>7, <1>8, <1>9 DEF Bounds, Unstarted, KnownOK, RegistryOK
  <1>13. /\ Running' /\ Alive' /\ ~InCall' /\ ~Collecting' /\ FirstHeld' = 1 /\ ~Reading'
         /\ \A kinds : AtNode(kinds)' <=> flow[node] \in kinds
    BY <1>1, <1>2, <1>3, <1>7
       DEF InCall, AtNode, Running, Alive, FirstHeld, Collecting, Reading
  <1>14. Places'
    <2>1. pos + 1 <= Len(items) + 1 /\ ~(node > Len(flow)) /\ Len(out) <= MaxItems
      BY <1>2, <1>3, <1>9, TypesInReach, ExecutorConstants
    <2> QED BY <1>1, <1>3, <1>7, <1>10, <1>13, <2>1 DEF Places
  <1>15. \A i \in 1..Len(items) : items[i] \in DOMAIN registry
    BY <1>2, <1>3, TypesInReach DEF RunInv, Keys, Holds
  <1>16. \A i, j \in 1..Len(items) : items[i] = items[j] => i = j
    BY <1>2 DEF RunInv, Keys
  <1>21. \A i \in 1..Len(items) : i # pos => items[i] \in DOMAIN registry' /\ items[i] # nextRef
    <2>1. \A i \in 1..Len(items) : i # pos => items[i] # items[pos]
      BY <1>2, <1>16
    <2>2. \A i \in 1..Len(items) : items[i] # nextRef
      BY <1>9, <1>15
    <2> QED BY <1>8, <1>15, <2>1, <2>2
  <1>17. Keys'
    <2>1. \A r : Holds(r)' <=> \E i \in 1..Len(items) : items'[i] = r
      BY <1>3, <1>7, <1>10, <1>13 DEF Holds
    <2>2. \A r \in DOMAIN registry : \E i \in 1..Len(items) : items[i] = r
      BY <1>2, <1>3 DEF RunInv, Keys, Holds
    <2>3. \A r : r \in DOMAIN registry' <=> Holds(r)'
      <3>1. ASSUME NEW r, r \in DOMAIN registry' PROVE \E i \in 1..Len(items) : items'[i] = r
        <4>1. CASE r = nextRef
          BY <1>2, <1>10, <4>1
        <4>2. CASE r \in DOMAIN registry /\ r # items[pos]
          <5>1. PICK i \in 1..Len(items) : items[i] = r
            BY <2>2, <4>2
          <5> QED BY <1>10, <4>2, <5>1
        <4> QED BY <1>8, <3>1, <4>1, <4>2
      <3>2. ASSUME NEW i \in 1..Len(items) PROVE items'[i] \in DOMAIN registry'
        BY <1>8, <1>10, <1>21
      <3> QED BY <2>1, <3>1, <3>2
    <2>4. \A r \in DOMAIN registry' : r < nextRef'
      BY <1>8, <1>9
    <2>5. \A i \in 1..Len(items) : items'[i] < nextRef'
      BY <1>8, <1>9, <1>10, <1>15
    <2>6. \A i, j \in 1..Len(items) : items'[i] = items'[j] => i = j
      BY <1>9, <1>10, <1>15, <1>16
    <2>7. 1..Len(out') = {}
      BY <1>3, <1>7
    <2> QED BY <1>10, <1>13, <2>3, <2>4, <2>5, <2>6, <2>7 DEF Keys
  <1>18. Aliases'
    BY <1>13 DEF Aliases
  <1>19. Contents'
    <2>1. /\ Len(items) = Len(before) /\ ~(node > Len(flow))
          /\ \A i \in pos..Len(items) : registry[items[i]] = before[i]
          /\ \A i \in 1..(pos - 1) : registry[items[i]] # Nil
      BY <1>1, <1>2, TypesInReach DEF RunInv, Contents, Untouched, AtItem, AtNode
    <2>2. \A i \in 1..Len(items) : i # pos => registry'[items'[i]] = registry[items[i]]
      <3>1. \A i \in 1..Len(items) : i # pos => items'[i] = items[i]
        BY <1>10
      <3> QED BY <1>8, <1>21, <3>1
    <2>3. registry'[items'[pos]] # Nil
      BY <1>5, <1>8, <1>10
    <2>4. \A i \in pos'..Len(items') : registry'[items'[i]] = before'[i]
      <3>1. \A i \in pos'..Len(items') : i \in pos..Len(items) /\ i # pos /\ i \in 1..Len(items)
        BY <1>7, <1>9, <1>10
      <3> QED BY <1>7, <2>1, <2>2, <3>1
    <2>5. \A i \in 1..(pos' - 1) : registry'[items'[i]] # Nil
      <3>1. \A i \in 1..(pos' - 1) :
              i = pos \/ (i \in 1..(pos - 1) /\ i # pos /\ i \in 1..Len(items))
        BY <1>2, <1>7, <1>9
      <3> QED BY <2>1, <2>2, <2>3, <3>1
    <2>6. flow[node] \notin {"filter", "tap", "callData"}
      BY <1>1
    <2> QED BY <1>7, <1>10, <1>13, <2>1, <2>4, <2>5, <2>6 DEF Contents, Untouched
  <1>20. RunsWholeOrNotAtAll'
    BY <1>1, <1>7 DEF RunsWholeOrNotAtAll, RunInv
  <1> QED BY <1>11, <1>12, <1>14, <1>17, <1>18, <1>19, <1>20 DEF RunInv

(* tap leaves the batch and its keys as they are.                             *)
LEMMA TapItemKeeps ==
  ASSUME RunInv, TapItem
  PROVE  RunInv'
  <1>1. /\ AtItem({"tap"}) /\ AtItem({"set", "filter", "tap"}) /\ AtNode({"tap"})
        /\ report.status = "running" /\ flow[node] = "tap"
    BY DEF TapItem, AtItem, AtNode, Running
  <1>2. /\ pos \in 1..Len(items) /\ items[pos] \in DOMAIN registry
        /\ registry[items[pos]] \in Objs \cup {Nil}
        /\ Running /\ Alive /\ node <= Len(flow)
    BY <1>1, ItemIsValue
  <1>3. /\ FirstHeld = 1 /\ source = NoSource /\ ~Reading /\ out = << >> /\ Len(out) = 0
        /\ ~InCall /\ ~Collecting /\ Len(items) <= MaxItems /\ flow = Planned
    BY <1>1, <1>2 DEF FirstHeld, Reading, Collecting, InCall, AtNode, RunInv, Places
  <1>4. KnownOK'
    <2>1. Len(out) < MaxItems
      BY <1>3, ExecutorConstants
    <2>2. Clone(registry[items[pos]]) \in Objs \cup {Nil}
      BY <1>2, <2>1, FreshIsNew DEF Clone
    <2> QED BY <2>2, CallsKeep, TypesInReach DEF TapItem
  <1>5. /\ declared' = declared /\ flow' = flow /\ node' = node /\ out' = out /\ items' = items
        /\ source' = source /\ report' = report /\ before' = before /\ Planned' = Planned
        /\ pos' = pos + 1
    BY DEF TapItem, Planned
  <1>6. /\ RegistryOK' /\ nextRef' = nextRef /\ DOMAIN registry' = DOMAIN registry
        /\ \A r \in DOMAIN registry : registry'[r] = registry[r]
    <2>1. DOMAIN registry \ {} = DOMAIN registry
      OBVIOUS
    <2> QED BY <2>1, ReleaseKeeps, TypesInReach DEF TapItem
  <1>7. TypeOK'
    BY <1>4, <1>5, <1>6, TypesInReach DEF TypeOK, KnownOK, RegistryOK, RunInv
  <1>8. Bounds' /\ Unstarted'
    BY <1>1, <1>4, <1>5, <1>6, TypesInReach DEF Bounds, Unstarted, KnownOK, RegistryOK
  <1>9. /\ Running' /\ Alive' /\ ~InCall' /\ ~Collecting' /\ FirstHeld' = 1 /\ ~Reading'
        /\ \A kinds : AtNode(kinds)' <=> flow[node] \in kinds
    BY <1>1, <1>2, <1>3, <1>5
       DEF InCall, AtNode, Running, Alive, FirstHeld, Collecting, Reading
  <1>10. Places'
    <2>1. pos + 1 <= Len(items) + 1 /\ ~(node > Len(flow)) /\ Len(out) <= MaxItems
      BY <1>2, <1>3, TypesInReach, ExecutorConstants
    <2> QED BY <1>1, <1>3, <1>5, <1>9, <2>1 DEF Places
  <1>11. Keys'
    <2>1. \A r : Holds(r)' <=> Holds(r)
      BY <1>3, <1>5, <1>9 DEF Holds
    <2>2. 1..Len(out) = {}
      BY <1>3
    <2> QED BY <1>2, <1>3, <1>5, <1>6, <1>9, <2>1, <2>2 DEF Keys, RunInv
  <1>12. Aliases'
    BY <1>9 DEF Aliases
  <1>13. Contents'
    <2>1. /\ Len(items) = Len(before) /\ ~(node > Len(flow))
          /\ \A i \in 1..Len(items) : registry[items[i]] = before[i]
      BY <1>1, <1>2, TypesInReach DEF RunInv, Contents, Untouched
    <2>2. \A i \in 1..Len(items) : items[i] \in DOMAIN registry
      BY <1>2, <1>3, TypesInReach DEF RunInv, Keys, Holds
    <2>3. \A i \in 1..Len(items) : Untouched(i)'
      BY <1>5, <1>6, <2>1, <2>2 DEF Untouched
    <2>4. \A i \in pos'..Len(items') : i \in 1..Len(items)
      BY <1>5, TypesInReach
    <2> QED BY <1>1, <1>5, <1>9, <2>1, <2>3, <2>4 DEF Contents
  <1>14. RunsWholeOrNotAtAll'
    BY <1>1, <1>5 DEF RunsWholeOrNotAtAll, RunInv
  <1> QED BY <1>7, <1>8, <1>10, <1>11, <1>12, <1>13, <1>14 DEF RunInv

(* filter moves the item on, or deletes it: what is kept comes in its order.  *)
LEMMA FilterKeeps ==
  ASSUME RunInv, FilterItem
  PROVE  RunInv'
  <1>1. /\ AtItem({"filter"}) /\ AtItem({"set", "filter", "tap"}) /\ AtNode({"filter"})
        /\ report.status = "running" /\ flow[node] = "filter"
    BY DEF FilterItem, AtItem, AtNode, Running
  <1>2. /\ pos \in 1..Len(items) /\ items[pos] \in DOMAIN registry
        /\ registry[items[pos]] \in Objs \cup {Nil}
        /\ Running /\ Alive /\ node <= Len(flow)
    BY <1>1, ItemIsValue
  <1>3. /\ FirstHeld = pos /\ source = NoSource /\ ~Reading /\ Len(out) < pos
        /\ ~InCall /\ ~Collecting /\ Len(items) <= MaxItems /\ flow = Planned
    BY <1>1, <1>2 DEF FirstHeld, Reading, Collecting, InCall, AtNode, RunInv, Places
  <1>4. KnownOK'
    BY <1>2, CallsKeep, TypesInReach DEF FilterItem
  <1>5. /\ declared' = declared /\ flow' = flow /\ node' = node /\ items' = items
        /\ source' = source /\ report' = report /\ before' = before /\ Planned' = Planned
        /\ pos' = pos + 1
    BY DEF FilterItem, Planned
  <1>6. /\ nextRef \in Nat \ {0} /\ \A r \in DOMAIN registry : r < nextRef
        /\ pos \in Nat \ {0} /\ Len(items) \in Nat /\ Len(out) \in Nat /\ MaxItems \in Nat
    BY <1>2, TypesInReach, ExecutorConstants DEF RunInv, Keys, RegistryOK
  <1>7. /\ RegistryOK' /\ nextRef' = nextRef
        /\ \A r \in DOMAIN registry' : r \in DOMAIN registry /\ registry'[r] = registry[r]
        /\ \/ out' = Append(out, items[pos]) /\ DOMAIN registry' = DOMAIN registry
           \/ out' = out /\ DOMAIN registry' = DOMAIN registry \ {items[pos]}
    <2>1. DOMAIN registry \ {} = DOMAIN registry
      OBVIOUS
    <2>2. CASE out' = Append(out, items[pos]) /\ Release({})
      BY <2>1, <2>2, ReleaseKeeps, TypesInReach
    <2>3. CASE out' = out /\ Release({items[pos]})
      BY <2>3, ReleaseKeeps, TypesInReach
    <2> QED BY <2>2, <2>3 DEF FilterItem
  <1>8. /\ out' \in Seq(1..nextRef) /\ Len(out') \in Nat
        /\ \A i \in 1..Len(out) : i \in 1..Len(out') /\ out'[i] = out[i]
        /\ Len(out') <= Len(out) + 1
        /\ \/ /\ Len(out') = Len(out) + 1 /\ out'[Len(out) + 1] = items[pos]
              /\ DOMAIN registry' = DOMAIN registry
           \/ Len(out') = Len(out) /\ DOMAIN registry' = DOMAIN registry \ {items[pos]}
    <2>1. items[pos] \in 1..nextRef /\ out \in Seq(1..nextRef) /\ nextRef \in Nat
      BY <1>2, <1>6, TypesInReach DEF RunInv, TypeOK
    <2>2. CASE out' = Append(out, items[pos]) /\ DOMAIN registry' = DOMAIN registry
      <3>1. /\ out' \in Seq(1..nextRef) /\ Len(out') = Len(out) + 1
            /\ \A i \in 1..Len(out) : out'[i] = out[i]
            /\ out'[Len(out) + 1] = items[pos]
        BY <2>1, <2>2, AppendKeys
      <3> QED BY <1>6, <2>2, <3>1
    <2>3. CASE out' = out /\ DOMAIN registry' = DOMAIN registry \ {items[pos]}
      BY <1>6, <2>1, <2>3
    <2> QED BY <1>7, <2>2, <2>3
  <1>9. \A i \in 1..Len(out') : i \in 1..Len(out) \/ (i = Len(out) + 1 /\ Len(out') = Len(out) + 1)
    BY <1>6, <1>8
  <1>10. TypeOK'
    BY SMTT(30), <1>4, <1>5, <1>6, <1>7, <1>8 DEF TypeOK, KnownOK, RegistryOK, RunInv
  <1>11. Bounds' /\ Unstarted'
    BY <1>1, <1>4, <1>5, <1>6, <1>7 DEF Bounds, Unstarted, KnownOK, RegistryOK
  <1>12. /\ Running' /\ Alive' /\ ~InCall' /\ ~Collecting' /\ FirstHeld' = pos + 1 /\ ~Reading'
         /\ \A kinds : AtNode(kinds)' <=> flow[node] \in kinds
    BY <1>1, <1>2, <1>3, <1>5
       DEF InCall, AtNode, Running, Alive, FirstHeld, Collecting, Reading
  <1>13. Places'
    <2>1. /\ pos + 1 <= Len(items) + 1 /\ ~(node > Len(flow)) /\ Len(out') <= MaxItems
          /\ Len(out') < pos + 1
      BY <1>2, <1>3, <1>6, <1>8, TypesInReach
    <2> QED BY <1>1, <1>3, <1>5, <1>12, <2>1 DEF Places
  <1>14. \A i \in pos..Len(items) : items[i] \in DOMAIN registry
    BY <1>2, <1>3, TypesInReach DEF RunInv, Keys, Holds
  <1>15. \A i \in 1..Len(out) : out[i] \in DOMAIN registry /\ out[i] # items[pos]
    <2>1. \A i \in 1..Len(out) : out[i] \in DOMAIN registry
      BY <1>2, TypesInReach DEF RunInv, Keys, Holds
    <2>2. \A i \in 1..Len(out) : out[i] # items[pos]
      <3>1. ~(pos < pos)
        BY <1>6
      <3> QED BY <1>2, <3>1 DEF RunInv, Keys
    <2> QED BY <2>1, <2>2
  <1>16. Keys'
    <2>1. \A r : Holds(r)' <=> \/ \E i \in 1..Len(out') : out'[i] = r
                               \/ \E i \in (pos + 1)..Len(items) : items[i] = r
      BY <1>5, <1>12 DEF Holds
    <2>2. \A r : r \in DOMAIN registry => \/ \E i \in 1..Len(out) : out[i] = r
                                          \/ \E i \in pos..Len(items) : items[i] = r
      BY <1>2, <1>3 DEF RunInv, Keys, Holds
    <2>3. \A i, j \in 1..Len(items) : items[i] = items[j] => i = j
      BY <1>2 DEF RunInv, Keys
    <2>4. \A i \in (pos + 1)..Len(items) : items[i] \in DOMAIN registry /\ items[i] # items[pos]
      <3>1. \A i \in (pos + 1)..Len(items) : i \in pos..Len(items) /\ i \in 1..Len(items) /\ i # pos
        BY <1>6
      <3> QED BY <1>2, <1>14, <2>3, <3>1
    <2>5. ASSUME NEW r \in DOMAIN registry' PROVE Holds(r)'
      <3>1. CASE \E i \in 1..Len(out) : out[i] = r
        BY <1>8, <2>1, <3>1
      <3>2. CASE \E i \in pos..Len(items) : items[i] = r
        <4>1. PICK i \in pos..Len(items) : items[i] = r
          BY <3>2
        <4>2. CASE i = pos
          <5>1. Len(out') = Len(out) + 1 /\ out'[Len(out) + 1] = items[pos]
            BY <1>8, <2>5, <4>1, <4>2
          <5>2. Len(out) + 1 \in 1..Len(out')
            BY <1>6, <5>1
          <5> QED BY <2>1, <4>1, <4>2, <5>1, <5>2
        <4>3. CASE i # pos
          <5>1. i \in (pos + 1)..Len(items)
            BY <1>6, <4>3
          <5> QED BY <2>1, <4>1, <5>1
        <4> QED BY <4>2, <4>3
      <3> QED BY <1>7, <2>2, <2>5, <3>1, <3>2
    <2>6. ASSUME NEW r, Holds(r)' PROVE r \in DOMAIN registry'
      <3>1. CASE \E i \in 1..Len(out') : out'[i] = r
        <4>1. PICK i \in 1..Len(out') : out'[i] = r
          BY <3>1
        <4>2. CASE i \in 1..Len(out)
          BY <1>8, <1>15, <4>1, <4>2
        <4>3. CASE i = Len(out) + 1 /\ Len(out') = Len(out) + 1
          BY <1>2, <1>6, <1>8, <4>1, <4>3
        <4> QED BY <1>9, <4>2, <4>3
      <3>2. CASE \E i \in (pos + 1)..Len(items) : items[i] = r
        BY <1>8, <2>4, <3>2
      <3> QED BY <2>1, <2>6, <3>1, <3>2
    <2>7. \A r \in DOMAIN registry' : r < nextRef'
      BY <1>6, <1>7
    <2>8. \A i, j \in 1..Len(out') : out'[i] = out'[j] => i = j
      <3>1. \A i, j \in 1..Len(out) : out[i] = out[j] => i = j
        BY <1>2 DEF RunInv, Keys
      <3> QED BY <1>8, <1>9, <1>15, <3>1
    <2>9. \A i \in 1..Len(items) : items[i] < nextRef
      BY <1>2 DEF RunInv, Keys
    <2>10. \A i \in 1..Len(out') : out'[i] < nextRef
      <3>1. \A i \in 1..Len(out) : out[i] < nextRef
        BY <1>2 DEF RunInv, Keys
      <3> QED BY <1>2, <1>8, <1>9, <2>9, <3>1
    <2>11. \A i \in 1..Len(items), j \in 1..Len(out') : items[i] = out'[j] => i < pos + 1
      <3> SUFFICES ASSUME NEW i \in 1..Len(items), NEW j \in 1..Len(out'), items[i] = out'[j]
                   PROVE  i < pos + 1
        OBVIOUS
      <3>1. CASE j \in 1..Len(out)
        <4>1. items[i] = out[j]
          BY <1>8, <3>1
        <4>2. i < pos
          BY <1>2, <3>1, <4>1 DEF RunInv, Keys
        <4> QED BY <1>6, <4>2
      <3>2. CASE j = Len(out) + 1 /\ Len(out') = Len(out) + 1
        <4>1. items[i] = items[pos]
          BY <1>6, <1>8, <3>2
        <4>2. i = pos
          BY <1>2, <2>3, <4>1
        <4> QED BY <1>6, <4>2
      <3> QED BY <1>9, <3>1, <3>2
    <2>12. AtNode({"filter"})'
      BY <1>1, <1>12
    <2> QED BY <1>5, <1>7, <1>12, <2>3, <2>5, <2>6, <2>7, <2>8, <2>9, <2>10, <2>11, <2>12 DEF Keys
  <1>17. Aliases'
    BY <1>12 DEF Aliases
  <1>18. Contents'
    <2>1. /\ Len(items) = Len(before) /\ ~(node > Len(flow))
          /\ \A i \in pos..Len(items) : registry[items[i]] = before[i]
      BY <1>1, <1>2, TypesInReach DEF RunInv, Contents, Untouched, AtItem, AtNode
    <2>2. PICK at \in [1..Len(out) -> 1..(pos - 1)] : Kept(at)
      BY <1>1, <1>2 DEF RunInv, Contents
    <2>3. \A r \in DOMAIN registry' : registry'[r] = registry[r]
      BY <1>7
    <2>4. \A i \in 1..Len(out) : registry'[out[i]] = before[at[i]]
      <3>1. \A i \in 1..Len(out) : out[i] \in DOMAIN registry'
        BY <1>8, <1>15
      <3> QED BY <2>2, <2>3, <3>1 DEF Kept
    <2>5. \A i \in (pos + 1)..Len(items) : registry'[items[i]] = before[i]
      <3>1. \A i, j \in 1..Len(items) : items[i] = items[j] => i = j
        BY <1>2 DEF RunInv, Keys
      <3>2. \A i \in (pos + 1)..Len(items) : i \in pos..Len(items) /\ i \in 1..Len(items) /\ i # pos
        BY <1>6
      <3>3. \A i \in (pos + 1)..Len(items) : items[i] \in DOMAIN registry'
        BY <1>2, <1>8, <1>14, <3>1, <3>2
      <3> QED BY <2>1, <2>3, <3>2, <3>3
    <2> DEFINE at2 == [i \in 1..Len(out') |-> IF i <= Len(out) THEN at[i] ELSE pos]
    <2>6. at2 \in [1..Len(out') -> 1..(pos' - 1)]
      <3>1. pos' - 1 = pos /\ pos \in 1..pos /\ \A k \in 1..(pos - 1) : k \in 1..pos
        BY <1>5, <1>6
      <3>2. \A i \in 1..Len(out') : i <= Len(out) => i \in 1..Len(out)
        BY <1>6, <1>9
      <3> QED BY <2>2, <3>1, <3>2
    <2>7. \A i, j \in 1..Len(out') : i < j => at2[i] < at2[j]
      <3> SUFFICES ASSUME NEW i \in 1..Len(out'), NEW j \in 1..Len(out'), i < j
                   PROVE  at2[i] < at2[j]
        OBVIOUS
      <3>1. i \in 1..Len(out) /\ i <= Len(out) /\ at2[i] = at[i]
        BY <1>6, <1>9
      <3>2. CASE j \in 1..Len(out)
        <4>1. at2[j] = at[j] /\ at[i] < at[j]
          BY <1>6, <2>2, <3>1, <3>2 DEF Kept
        <4> QED BY <3>1, <4>1
      <3>3. CASE j = Len(out) + 1
        <4>1. at2[j] = pos
          BY <1>6, <3>3
        <4>2. at[i] \in 1..(pos - 1)
          BY <2>2, <3>1
        <4> QED BY <1>6, <3>1, <4>1, <4>2
      <3> QED BY <1>9, <3>2, <3>3
    <2>8. ASSUME NEW j \in 1..Len(out') PROVE registry'[out'[j]] = before[at2[j]]
      <3>1. CASE j \in 1..Len(out)
        <4>1. at2[j] = at[j] /\ out'[j] = out[j]
          BY <1>6, <1>8, <3>1
        <4> QED BY <2>4, <3>1, <4>1
      <3>2. CASE j = Len(out) + 1 /\ Len(out') = Len(out) + 1
        <4>1. at2[j] = pos /\ out'[j] = items[pos] /\ items[pos] \in DOMAIN registry'
          BY <1>2, <1>6, <1>8, <3>2
        <4>2. registry[items[pos]] = before[pos]
          BY <1>2, <1>6, <2>1
        <4> QED BY <2>3, <4>1, <4>2
      <3> QED BY <1>9, <3>1, <3>2
    <2> HIDE DEF at2
    <2>9. \E f \in [1..Len(out') -> 1..(pos' - 1)] : Kept(f)'
      BY <1>5, <2>6, <2>7, <2>8 DEF Kept
    <2>10. \A i \in pos'..Len(items') : Untouched(i)'
      BY <1>5, <2>5 DEF Untouched
    <2>11. flow[node] \notin {"set", "tap", "callData"}
      BY <1>1
    <2> QED BY <1>5, <1>12, <2>1, <2>9, <2>10, <2>11 DEF Contents
  <1>19. RunsWholeOrNotAtAll'
    BY <1>1, <1>5 DEF RunsWholeOrNotAtAll, RunInv
  <1> QED BY <1>10, <1>11, <1>13, <1>16, <1>17, <1>18, <1>19 DEF RunInv

(* Every step keeps the invariant, ...                                        *)
LEMMA NextKeepsRun ==
  ASSUME RunInv, [Next]_vars
  PROVE  RunInv'
  <1>1. CASE Load \/ LoadFails
    BY <1>1, LoadKeeps
  <1>2. CASE Call
    BY <1>2, CallKeeps
  <1>3. CASE CollectRaw
    BY <1>3, CollectRawKeeps
  <1>4. CASE CollectData
    BY <1>4, CollectDataKeeps
  <1>5. CASE CollectFails \/ ItemFails \/ CloneFails \/ CallFails
    BY <1>5, FailsKeep
  <1>6. CASE EndCall
    BY <1>6, EndCallKeeps
  <1>7. CASE SetItem
    BY <1>7, SetItemKeeps
  <1>8. CASE FilterItem
    BY <1>8, FilterKeeps
  <1>9. CASE TapItem
    BY <1>9, TapItemKeeps
  <1>10. CASE TapNothing \/ EndSet \/ EndTap
    BY <1>10, EndKeeps
  <1>11. CASE EndFilter
    BY <1>11, EndFilterKeeps
  <1>12. CASE Finish
    BY <1>12, FinishKeeps
  <1>13. CASE UNCHANGED vars
    <2>1. /\ declared' = declared /\ flow' = flow /\ node' = node /\ pos' = pos /\ items' = items
          /\ out' = out /\ source' = source /\ registry' = registry /\ nextRef' = nextRef
          /\ known' = known /\ report' = report /\ before' = before /\ reached' = reached
      BY <1>13 DEF vars
    <2>2. TypeOK'
      BY <2>1 DEF RunInv, TypeOK, Planned
    <2>3. Bounds' /\ Unstarted'
      BY <2>1 DEF RunInv, Bounds, Unstarted
    <2>4. /\ Running' <=> Running
          /\ Alive' <=> Alive
          /\ InCall' <=> InCall
          /\ Collecting' <=> Collecting
          /\ Reading' <=> Reading
          /\ FirstHeld' = FirstHeld /\ Planned' = Planned
          /\ \A kinds : AtNode(kinds)' <=> AtNode(kinds)
      BY <2>1 DEF Running, Alive, InCall, Collecting, Reading, FirstHeld, AtNode, Planned
    <2>5. \A r : Holds(r)' <=> Holds(r)
      BY <2>1, <2>4 DEF Holds
    <2>6. Places' /\ Keys'
      BY <2>1, <2>4, <2>5 DEF RunInv, Places, Keys
    <2>7. Aliases'
      BY <2>1, <2>4 DEF RunInv, Aliases, Apart
    <2>8. Contents'
      BY <2>1, <2>4 DEF RunInv, Contents, Untouched, Kept
    <2>9. RunsWholeOrNotAtAll'
      BY <2>1, <2>4 DEF RunInv, RunsWholeOrNotAtAll
    <2> QED BY <2>2, <2>3, <2>6, <2>7, <2>8, <2>9 DEF RunInv
  <1> QED BY <1>1, <1>2, <1>3, <1>4, <1>5, <1>6, <1>7, <1>8, <1>9, <1>10, <1>11, <1>12, <1>13
      DEF Next

(* ... which holds of a run that begins, ...                                  *)
LEMMA RunBegins ==
  ASSUME Init
  PROVE  RunInv
  <1>1. /\ declared \in Seq(Declared) /\ flow = << >> /\ node = 1 /\ pos = 1 /\ items = << >>
        /\ out = << >> /\ source = NoSource /\ DOMAIN registry = {} /\ nextRef = 1 /\ known = {}
        /\ report = [status |-> "loading", at |-> 0, itemsIn |-> 0, itemsOut |-> 0]
        /\ before = << >> /\ reached = {}
    <2>1. PICK n \in 0..MaxNodes : declared \in [1..n -> Declared]
      BY DEF Init
    <2>2. n \in Nat
      BY ExecutorConstants
    <2>3. declared \in Seq(Declared)
      BY <2>1, <2>2
    <2> QED BY <2>3 DEF Init
  <1>2. Len(Planned) \in Nat
    BY <1>1, LoadedFlow
  <1>3. TypeOK
    <2>1. report \in [status : {"loading", "running", "ok", "empty", "error", "panic"},
                      at : 0..Len(Planned), itemsIn : Nat, itemsOut : Nat]
      BY <1>1, <1>2
    <2>2. source \in [ref : 0..nextRef, len : Nat, array : BOOLEAN]
      BY <1>1 DEF NoSource
    <2> QED BY <1>1, <2>1, <2>2 DEF TypeOK
  <1>4. Bounds
    BY <1>1, FS_EmptySet, ExecutorConstants DEF Bounds
  <1>5. Unstarted
    BY <1>1 DEF Unstarted
  <1>6. ~Alive /\ ~Running
    BY <1>1 DEF Alive, Running
  <1>7. Places /\ Keys /\ Aliases /\ Contents
    BY <1>6 DEF Places, Keys, Aliases, Contents, InCall, AtNode
  <1>8. RunsWholeOrNotAtAll
    BY <1>1 DEF RunsWholeOrNotAtAll
  <1> QED BY <1>3, <1>4, <1>5, <1>7, <1>8 DEF RunInv

(* ... so that it holds throughout.                                           *)
LEMMA RunInvariant == Spec => []RunInv
  BY RunBegins, NextKeepsRun, PTL DEF Spec

(* Every variable has its type throughout: no key is used that was not given  *)
(* out, and what Lua code gets at is a Lua value.                             *)
THEOREM RunTypeCorrect == Spec => []TypeOK
  <1>1. RunInv => TypeOK
    BY DEF RunInv
  <1> QED BY <1>1, RunInvariant, PTL

(* No key is used after it was deleted and each is held once, for flows and   *)
(* batches of any length (executor.go:59-208).                                *)
THEOREM KeysAreOwnedHolds == Spec => []KeysAreOwned
  BY InvariantMeans, RunInvariant, PTL

(* As long as nothing fails, the registry of references holds no more than the*)
(* batch in progress (executor.go:68, 91, 133, 177, 206).                     *)
THEOREM NothingAccumulatesHolds == Spec => []NothingAccumulates
  BY InvariantMeans, RunInvariant, PTL

(* A flow of any length runs whole or not at all, and a report of an error has*)
(* the position of the first node that is at fault (dag.go:28).               *)
THEOREM RunsWhole == Spec => []RunsWholeOrNotAtAll
  <1>1. RunInv => RunsWholeOrNotAtAll
    BY DEF RunInv
  <1> QED BY <1>1, RunInvariant, PTL

(* Isolation of one step. *)
LEMMA StepIsIsolated ==
  ASSUME RunInv, Next, AtNode({"call", "callData", "tap"})
  PROVE  reached' \cap Elements(Values(items)) \subseteq known
  <1>1. \A v \in Elements(Values(items)) : \E i \in 1..Len(items) : v = registry[items[i]]
    <2>1. Len(items) \in Nat
      BY TypesInReach
    <2>2. Len(Values(items)) = Len(items)
      BY <2>1 DEF Values
    <2>3. \A i \in 1..Len(items) : Values(items)[i] = registry[items[i]]
      BY DEF Values
    <2> QED BY <2>2, <2>3 DEF Elements
  <1>2. Running /\ Alive /\ node <= Len(flow) /\ flow[node] \in {"call", "callData", "tap"}
    BY DEF AtNode, Running, Alive
  <1>3. known \subseteq Objs /\ Nil \notin Objs
    BY TypesInReach, ExecutorConstants DEF KnownOK
  <1>4. ASSUME NEW o, Calls({o}, Nil) \/ \E q : Calls({o}, q),
               o = Nil \/ Separate(o)
        PROVE  reached' \cap Elements(Values(items)) \subseteq known
    <2>1. reached' = ({o} \cup known) \ {Nil}
      BY <1>4 DEF Calls
    <2> QED BY <1>1, <1>4, <2>1 DEF Separate
  <1>5. CASE reached' = known \ {Nil} \/ reached' = {}
    BY <1>5
  <1>6. CASE Collecting /\ pos <= source.len /\ \E raw \in RawValues : \E q : Calls({raw}, q)
    BY <1>4, <1>6, RawIsSeparate
  <1>7. CASE AtItem({"tap"}) /\ Calls({Clone(registry[items[pos]])}, Nil)
    <2> DEFINE o == Clone(registry[items[pos]])
    <2>1. o = Nil \/ o = Fresh({})
      BY DEF Clone
    <2>2. Len(out) < MaxItems
      <3>1. out = << >>
        BY <1>2, <1>7 DEF RunInv, Places, AtItem, AtNode
      <3> QED BY <3>1, ExecutorConstants
    <2>3. \A i \in 1..Len(items) : items[i] \in DOMAIN registry
      BY <1>2, <1>7, TypesInReach
         DEF RunInv, Keys, Holds, FirstHeld, AtItem, AtNode
    <2>4. \A i \in 1..Len(items) : registry[items[i]] # Fresh({})
      BY <1>2, <2>2, <2>3, FreshIsNew
    <2>5. o = Nil \/ Separate(o)
      BY <2>1, <2>4 DEF Separate
    <2> HIDE DEF o
    <2>6. Calls({o}, Nil)
      BY <1>7 DEF o
    <2> QED BY <1>4, <2>5, <2>6
  <1>8. CASE Load \/ LoadFails \/ Finish
    BY <1>2, <1>8, TypesInReach DEF Load, LoadFails, Finish, Running
  <1>9. CASE Call \/ CallFails \/ TapNothing
    BY <1>5, <1>9 DEF Call, CallFails, TapNothing, Calls
  <1>10. CASE CollectRaw \/ EndCall \/ CloneFails \/ EndSet \/ EndFilter \/ EndTap
    BY <1>5, <1>10 DEF CollectRaw, EndCall, CloneFails, EndSet, EndFilter, EndTap, CallsNothing
  <1>11. CASE CollectData
    BY <1>6, <1>11 DEF CollectData
  <1>12. CASE CollectFails
    BY <1>6, <1>12 DEF CollectFails
  <1>13. CASE TapItem
    BY <1>7, <1>13 DEF TapItem
  <1>14. CASE ItemFails
    <2>1. flow[node] = "tap"
      BY <1>2, <1>14 DEF ItemFails, AtItem, AtNode
    <2>2. AtItem({"tap"}) /\ Calls({Clone(registry[items[pos]])}, Nil)
      BY <1>2, <1>14, <2>1 DEF ItemFails, AtItem, AtNode
    <2> QED BY <1>7, <2>2
  <1>15. CASE SetItem \/ FilterItem
    BY <1>2, <1>15 DEF SetItem, FilterItem, AtItem, AtNode
  <1> QED BY <1>8, <1>9, <1>10, <1>11, <1>12, <1>13, <1>14, <1>15 DEF Next

(* Whatever Lua code keeps and changes, a call, its on_data and a tap never get*)
(* at an item of the batch that Lua code had not kept before (runtime.go CloneRef).*)
THEOREM IsolationHolds == Spec => Isolation
  <1>1. RunInv /\ [Next]_vars =>
          [AtNode({"call", "callData", "tap"}) =>
             reached' \cap Elements(Values(items)) \subseteq known]_vars
    BY StepIsIsolated
  <1>2. Spec => [][Next]_vars
    BY PTL DEF Spec
  <1> QED BY <1>1, <1>2, RunInvariant, PTL DEF Isolation

PipelineStep == Pipeline!Step \/ Pipeline!Finish \/ Pipeline!Fail
Seen == <<Planned, node, before, Outcome>>

(* A report is the record of its fields.                                      *)
LEMMA ReportHasFields ==
  ASSUME RunInv
  PROVE  report = [status |-> report.status, at |-> report.at,
                   itemsIn |-> report.itemsIn, itemsOut |-> report.itemsOut]
  BY DEF RunInv, TypeOK

(* The status of a run as the pipeline knows it.                              *)
LEMMA OutcomeOf ==
  /\ report.status \in {"running", "loading"} =>
       Outcome = [status |-> "running", itemsIn |-> report.itemsIn, itemsOut |-> report.itemsOut]
  /\ report.status \in {"error", "panic"} =>
       Outcome = [status |-> "error", itemsIn |-> report.itemsIn, itemsOut |-> report.itemsOut]
  /\ report.status \in {"ok", "empty"} =>
       Outcome = [status |-> report.status, itemsIn |-> report.itemsIn,
                  itemsOut |-> report.itemsOut]
  BY DEF Outcome

(* The end of a node is a step of the pipeline, and nothing within it is. *)
LEMMA NodeEnds ==
  ASSUME RunInv, Running, node <= Len(flow), NEW refs, NEW released, NextNode(refs, released),
         report'.status = "running",
         \E count : report' = [report EXCEPT !.itemsIn = count],
         Pipeline!After(flow[node], report'.itemsIn)
  PROVE  PipelineStep
  <1>1. flow = Planned /\ Planned' = Planned /\ node' = node + 1
    BY DEF NextNode, Planned, RunInv, Places, Alive, Running
  <1>2. /\ Outcome.status = "running" /\ Outcome'.itemsIn = report'.itemsIn
        /\ Outcome' = [Outcome EXCEPT !.itemsIn = report'.itemsIn]
    <2>1. report'.itemsOut = report.itemsOut
      BY ReportHasFields
    <2>2. report.status = "running"
      BY DEF Running
    <2>3. Outcome = [status |-> "running", itemsIn |-> report.itemsIn,
                     itemsOut |-> report.itemsOut]
      BY <2>2, OutcomeOf
    <2>4. Outcome' = [status |-> "running", itemsIn |-> report'.itemsIn,
                      itemsOut |-> report.itemsOut]
      BY <2>1 DEF Outcome
    <2> QED BY <2>3, <2>4
  <1>3. Pipeline!Step
    BY <1>1, <1>2 DEF Pipeline!Step
  <1> QED BY <1>3 DEF PipelineStep

(* Every step of the executor is a step of the pipeline or none.              *)
LEMMA StepOfPipeline ==
  ASSUME RunInv, RunInv', [Next]_vars
  PROVE  PipelineStep \/ UNCHANGED Seen
  <1>1. CASE UNCHANGED vars
    BY <1>1 DEF vars, Seen, Planned, Outcome
  <1>2. CASE Load \/ LoadFails
    <2>1. /\ report.status = "loading" /\ Outcome.status = "running"
          /\ Planned' = Planned /\ node' = node /\ before' = before
      BY <1>2 DEF Load, LoadFails, Unloaded, Outcome, Planned
    <2>2. Outcome' = Outcome \/ Outcome' = [Outcome EXCEPT !.status = "error"]
      <3>1. \E s \in {"running", "error", "panic"} : \E at :
              report' = [report EXCEPT !.status = s, !.at = at]
        <4>1. report = [report EXCEPT !.status = "loading", !.at = report.at]
          BY <2>1, ReportHasFields
        <4>2. CASE LoadFails
          <5>1. report' = [report EXCEPT !.status = "error", !.at = report.at]
            BY <4>2, ReportHasFields DEF LoadFails
          <5> QED BY <5>1
        <4>3. CASE Load /\ Build(declared).error = "none"
          <5>1. report' = [report EXCEPT !.status = "running", !.at = report.at]
            BY <4>3, ReportHasFields DEF Load
          <5> QED BY <5>1
        <4>4. CASE Load /\ Build(declared).error # "none"
          <5>1. report' = [report EXCEPT !.at = Build(declared).position,
                  !.status = IF Build(declared).error = "panic" THEN "panic" ELSE "error"]
            BY <4>4 DEF Load
          <5>2. report' = [report EXCEPT
                  !.status = IF Build(declared).error = "panic" THEN "panic" ELSE "error",
                  !.at = Build(declared).position]
            BY <5>1, ReportHasFields
          <5> QED BY <5>2
        <4> QED BY <1>2, <4>2, <4>3, <4>4
      <3>2. PICK s \in {"running", "error", "panic"} : \E at :
              report' = [report EXCEPT !.status = s, !.at = at]
        BY <3>1
      <3>3. /\ report'.status = s /\ report'.itemsIn = report.itemsIn
            /\ report'.itemsOut = report.itemsOut
        BY <3>2, ReportHasFields
      <3>4. Outcome = [status |-> "running", itemsIn |-> report.itemsIn,
                       itemsOut |-> report.itemsOut]
        BY <2>1, OutcomeOf
      <3>5. Outcome' = [status |-> IF s = "running" THEN "running" ELSE "error",
                        itemsIn |-> report.itemsIn, itemsOut |-> report.itemsOut]
        BY <3>3 DEF Outcome
      <3> QED BY SMTT(30), <3>4, <3>5
    <2> QED BY <2>1, <2>2 DEF PipelineStep, Pipeline!Fail, Seen
  <1>3. CASE Call \/ CollectRaw \/ CollectData \/ SetItem \/ FilterItem \/ TapItem
    BY <1>3 DEF Call, CollectRaw, CollectData, Collected, SetItem, FilterItem, TapItem,
                Seen, Planned, Outcome
  <1>4. ASSUME NEW refs, Fail(refs), Running PROVE PipelineStep
    <2>1. /\ Outcome.status = "running"
          /\ Planned' = Planned /\ node' = node /\ before' = before
          /\ Outcome' = [Outcome EXCEPT !.status = "error"]
      <3>1. report' = [report EXCEPT !.status = "error", !.at = node]
        BY <1>4 DEF Fail
      <3>2. /\ report'.status = "error" /\ report'.itemsIn = report.itemsIn
            /\ report'.itemsOut = report.itemsOut
        BY <3>1, ReportHasFields
      <3>3. Outcome = [status |-> "running", itemsIn |-> report.itemsIn,
                       itemsOut |-> report.itemsOut]
        BY <1>4, OutcomeOf DEF Running
      <3>4. Outcome' = [status |-> "error", itemsIn |-> report.itemsIn,
                        itemsOut |-> report.itemsOut]
        BY <3>2 DEF Outcome
      <3> QED BY <1>4, <3>3, <3>4 DEF Fail, Planned
    <2> QED BY <2>1 DEF PipelineStep, Pipeline!Fail
  <1>5. CASE CollectFails \/ ItemFails \/ CloneFails \/ CallFails
    BY <1>4, <1>5 DEF CollectFails, ItemFails, CloneFails, CallFails,
                      Collecting, InCall, AtItem, AtNode
  <1>6. CASE Finish
    <2>1. /\ flow = Planned /\ Len(before) = Len(items) /\ Len(items) \in Nat
          /\ report.status = "running" /\ node > Len(flow)
      BY <1>6, TypesInReach DEF Finish, RunInv, Places, Contents, Alive, Running
    <2>2. items = << >> <=> before = << >>
      <3>1. items \in Seq(1..nextRef) /\ before \in Seq(Objs \cup {Nil})
        BY DEF RunInv, TypeOK
      <3>2. (items = << >> <=> Len(items) = 0) /\ (before = << >> <=> Len(before) = 0)
        BY <3>1, EmptySeq
      <3> QED BY <2>1, <3>2
    <2>3. /\ Planned' = Planned /\ node' = node /\ before' = before
          /\ Outcome.status = "running"
          /\ Outcome' = [Outcome EXCEPT !.itemsOut = Len(before),
               !.status = IF Planned # << >> /\ before = << >> THEN "empty" ELSE "ok"]
      <3> DEFINE s == IF flow # << >> /\ items = << >> THEN "empty" ELSE "ok"
      <3>1. report' = [report EXCEPT !.itemsOut = Len(items), !.status = s]
        BY <1>6 DEF Finish
      <3>2. s \in {"ok", "empty"}
        OBVIOUS
      <3>3. s = IF Planned # << >> /\ before = << >> THEN "empty" ELSE "ok"
        BY <2>1, <2>2
      <3> HIDE DEF s
      <3>4. /\ report'.status = s /\ report'.itemsIn = report.itemsIn
            /\ report'.itemsOut = Len(before)
        BY <2>1, <3>1, ReportHasFields
      <3>5. Outcome = [status |-> "running", itemsIn |-> report.itemsIn,
                       itemsOut |-> report.itemsOut]
        BY <2>1, OutcomeOf
      <3>6. Outcome' = [status |-> s, itemsIn |-> report.itemsIn, itemsOut |-> Len(before)]
        BY <3>2, <3>4 DEF Outcome
      <3>7. Planned' = Planned /\ node' = node /\ before' = before
        BY <1>6 DEF Finish, Planned
      <3>8. Outcome' = [Outcome EXCEPT !.itemsOut = Len(before), !.status = s]
        <4>1. [Outcome EXCEPT !.itemsOut = Len(before), !.status = s] =
                [status |-> s, itemsIn |-> report.itemsIn, itemsOut |-> Len(before)]
          <5> DEFINE q == [Outcome EXCEPT !.itemsOut = Len(before)]
          <5>1. [Outcome EXCEPT !.itemsOut = Len(before), !.status = s] = [q EXCEPT !.status = s]
            BY Zenon
          <5>2. q = [status |-> "running", itemsIn |-> report.itemsIn, itemsOut |-> Len(before)]
            BY <3>5
          <5> HIDE DEF q
          <5>3. [q EXCEPT !.status = s] =
                  [status |-> s, itemsIn |-> report.itemsIn, itemsOut |-> Len(before)]
            BY <5>2
          <5> QED BY <5>1, <5>3, Zenon
        <4> QED BY <3>6, <4>1, Zenon
      <3> QED BY <2>1, <3>3, <3>7, <3>8, OutcomeOf
    <2> QED BY <2>1, <2>3 DEF PipelineStep, Pipeline!Finish
  <1>7. CASE EndCall
    <2>1. /\ Collecting /\ InCall /\ Running /\ Alive /\ node <= Len(flow)
          /\ flow[node] \in {"call", "callData"} /\ report.status = "running"
          /\ NextNode(out, Elements(items) \cup SourceRefs)
          /\ report' = [report EXCEPT !.itemsIn = Len(out)] /\ before' = Values(out)
      BY <1>7 DEF EndCall, Collecting, InCall, AtNode, Alive, Running, NextNode
    <2>2. report'.status = "running" /\ report'.itemsIn = Len(out)
      BY <2>1, ReportHasFields
    <2>3. /\ Len(before') = Len(out)
          /\ \A i \in 1..Len(out) : before'[i] = registry[out[i]]
      BY <2>1, TypesInReach DEF Values
    <2>4. flow[node] = "callData" => \A i \in 1..Len(before') : before'[i] # Nil
      <3> SUFFICES ASSUME flow[node] = "callData"
                   PROVE  \A j \in 1..Len(out) : registry[out[j]] # Nil
        BY <2>3
      <3>1. AtNode({"callData"})
        BY <2>1 DEF AtNode
      <3> QED BY <2>1, <3>1 DEF RunInv, Contents
    <2>5. before' \in Seq(Objs \cup {Nil})
      BY DEF RunInv, TypeOK
    <2>6. Pipeline!After(flow[node], report'.itemsIn)
      BY <2>1, <2>2, <2>3, <2>4, <2>5 DEF Pipeline!After
    <2> QED BY <2>1, <2>2, <2>6, NodeEnds
  <1>8. CASE EndSet
    <2>1. /\ AtNode({"set"}) /\ Running /\ Alive /\ node <= Len(flow) /\ flow[node] = "set"
          /\ report' = report /\ NextNode(items, {}) /\ before' = Values(items)
          /\ pos > Len(items) /\ report.status = "running"
      BY <1>8 DEF EndSet, AtNode, Alive, Running, NextNode
    <2>2. \A i \in 1..Len(items) : registry[items[i]] # Nil
      <3>1. \A i \in 1..Len(items) : i \in 1..(pos - 1)
        BY <2>1, TypesInReach
      <3> QED BY <2>1, <3>1 DEF RunInv, Contents
    <2>3. Len(before') = Len(items) /\ \A i \in 1..Len(items) : before'[i] = registry[items[i]]
      BY <2>1, TypesInReach DEF Values
    <2>4. Len(before) = Len(items) /\ Outcome.itemsIn = report.itemsIn
      BY <2>1 DEF RunInv, Contents, Outcome
    <2>5. Pipeline!After(flow[node], report'.itemsIn)
      BY <2>1, <2>2, <2>3, <2>4 DEF Pipeline!After
    <2>6. report' = [report EXCEPT !.itemsIn = report.itemsIn] /\ report'.status = "running"
      BY <2>1, ReportHasFields
    <2> QED BY <2>1, <2>5, <2>6, NodeEnds
  <1>9. CASE EndTap \/ TapNothing
    <2>1. /\ AtNode({"tap"}) /\ Running /\ Alive /\ node <= Len(flow) /\ flow[node] = "tap"
          /\ report' = report /\ NextNode(items, {}) /\ before' = Values(items)
          /\ report.status = "running"
      BY <1>9 DEF EndTap, TapNothing, AtNode, Alive, Running, NextNode
    <2>2. Len(before) = Len(items) /\ \A i \in 1..Len(items) : registry[items[i]] = before[i]
      BY <2>1 DEF RunInv, Contents, Untouched
    <2>3. Len(before') = Len(items) /\ \A i \in 1..Len(items) : before'[i] = registry[items[i]]
      BY <2>1, TypesInReach DEF Values
    <2>4. before' = before
      <3>1. before \in Seq(Objs \cup {Nil}) /\ before' \in Seq(Objs \cup {Nil})
        BY DEF RunInv, TypeOK
      <3>2. Len(before') = Len(before) /\ \A i \in 1..Len(before) : before'[i] = before[i]
        BY <2>2, <2>3
      <3> QED BY <3>1, <3>2, SeqEqual
    <2>5. Pipeline!After(flow[node], report'.itemsIn)
      <3>1. Outcome.itemsIn = report.itemsIn
        BY DEF Outcome
      <3> QED BY <2>1, <2>4, <3>1 DEF Pipeline!After
    <2>6. report' = [report EXCEPT !.itemsIn = report.itemsIn] /\ report'.status = "running"
      BY <2>1, ReportHasFields
    <2> QED BY <2>1, <2>5, <2>6, NodeEnds
  <1>10. CASE EndFilter
    <2>1. /\ AtNode({"filter"}) /\ Running /\ Alive /\ node <= Len(flow) /\ flow[node] = "filter"
          /\ report' = report /\ NextNode(out, {}) /\ before' = Values(out)
          /\ pos > Len(items) /\ report.status = "running"
      BY <1>10 DEF EndFilter, AtNode, Alive, Running, NextNode
    <2>2. PICK at \in [1..Len(out) -> 1..(pos - 1)] : Kept(at)
      BY <2>1 DEF RunInv, Contents
    <2>3. pos - 1 = Len(before) /\ Len(out) \in Nat
      <3>1. AtNode({"set", "filter", "tap"})
        BY <2>1 DEF AtNode
      <3>2. pos <= Len(items) + 1 /\ Len(items) = Len(before)
        BY <2>1, <3>1 DEF RunInv, Places, Contents
      <3> QED BY <2>1, <3>2, TypesInReach
    <2>4. Len(before') = Len(out) /\ \A i \in 1..Len(out) : before'[i] = registry[out[i]]
      BY <2>1, TypesInReach DEF Values
    <2>5. /\ at \in [1..Len(before') -> 1..Len(before)]
          /\ \A i, j \in 1..Len(before') : i < j => at[i] < at[j]
          /\ \A i \in 1..Len(before') : before'[i] = before[at[i]]
      BY <2>2, <2>3, <2>4 DEF Kept
    <2>6. Pipeline!IsSubsequence(before', before)
      BY <2>5 DEF Pipeline!IsSubsequence
    <2>7. Pipeline!After(flow[node], report'.itemsIn)
      <3>1. Outcome.itemsIn = report.itemsIn
        BY DEF Outcome
      <3> QED BY <2>1, <2>6, <3>1 DEF Pipeline!After
    <2>8. report' = [report EXCEPT !.itemsIn = report.itemsIn] /\ report'.status = "running"
      BY <2>1, ReportHasFields
    <2> QED BY <2>1, <2>7, <2>8, NodeEnds
  <1> QED BY <1>1, <1>2, <1>3, <1>5, <1>6, <1>7, <1>8, <1>9, <1>10 DEF Next

(* Node by node the executor does what BatchPipeline says of a flow, for      *)
(* flows and batches of any length: also of a call that is not the first node *)
(* and of what follows an emptied batch (Run of executor.go).                 *)
THEOREM ExecutorImplementsPipeline == Spec => PipelineSpec
  <1>1. Init => Pipeline!Init
    BY DEF Init, Pipeline!Init, Outcome
  <1>2. RunInv /\ RunInv' /\ [Next]_vars => [PipelineStep]_Seen
    BY StepOfPipeline
  <1> QED BY <1>1, <1>2, RunInvariant, PTL DEF Spec, PipelineSpec, Pipeline!Spec, PipelineStep, Seen
=============================================================================
