------------------------------ MODULE Executor ------------------------------
(***************************************************************************)
(* internal/executor/executor.go: Run, the loop over the nodes of a flow,  *)
(* with the operations of internal/lua/runtime.go it uses, after the load  *)
(* of the flow (RunTargetWithOptions of internal/engine/engine.go).  A     *)
(* step is the load, or one iteration of a loop of Run or buildCallItems:  *)
(* at most one Lua function is called in it, and what that function does   *)
(* is chosen freely among what it can do with the values it can get at.    *)
(*                                                                         *)
(* Go holds a Lua value by a key of the registry (StoreRef, DeleteRef);    *)
(* several keys may hold one table.  Values are their identity here: what  *)
(* a function may change is the values it reaches, not how.  Keys that a   *)
(* step creates and deletes again (the result of a tap or of a filter, the *)
(* copy a tap is given) are left out, and so is the key of the table of    *)
(* lumn.get and lumn.set, deleted by the deferred call at the end.         *)
(***************************************************************************)
EXTENDS DagBuilder, Sequences, FiniteSets

CONSTANTS Declared,  \* what a file can write as a node
          Objs,      \* Lua values other than nil
          Nil,
          MaxNodes,  \* bound: nodes of a flow
          MaxItems,  \* bound: items a call returns
          MaxKept    \* bound: values Lua code keeps between calls

ASSUME ExecutorConstants ==
  /\ Declared \subseteq Nodes
  /\ Nil \notin Objs
  /\ MaxNodes \in Nat /\ MaxItems \in Nat \ {0} /\ MaxKept \in Nat

(* Lua never runs out of new values: there are more than a batch, the items   *)
(* and the result of a call in progress and what the code keeps.              *)
ASSUME EnoughValues ==
  \E some \in SUBSET Objs :
    IsFiniteSet(some) /\ Cardinality(some) > 2 * MaxItems + MaxKept + 1

(* callData is a call with on_data. *)
Kinds == {"call", "callData", "set", "filter", "tap"}

VARIABLES
  declared,   \* the nodes the file writes
  flow,       \* the kinds of the nodes, once they are loaded
  node, pos,  \* the node, and the index of the loop over its items
  items,      \* the items, by key
  out,        \* filtered, or the items of the call in progress
  source,     \* what exec of a call returned: key, length, whether an array
  registry,   \* the values of the keys in use
  nextRef,    \* Runtime.nextRef
  known,      \* values the Lua code keeps: in the state, globals or upvalues
  report,
  before,     \* history: the values of the batch when the node began
  reached     \* history: the values the last Lua function could get at

vars == <<declared, flow, node, pos, items, out, source, registry, nextRef, known, report,
          before, reached>>

NoSource == [ref |-> 0, len |-> 0, array |-> FALSE]
Elements(seq) == {seq[i] : i \in 1..Len(seq)}
Values(refs) == [i \in 1..Len(refs) |-> registry[refs[i]]]

Init ==
  /\ \E n \in 0..MaxNodes : declared \in [1..n -> Declared]
  /\ flow = << >>
  /\ node = 1 /\ pos = 1
  /\ items = << >> /\ out = << >> /\ source = NoSource
  /\ registry = << >> /\ nextRef = 1
  /\ known = {}
  /\ report = [status |-> "loading", at |-> 0, itemsIn |-> 0, itemsOut |-> 0]
  /\ before = << >> /\ reached = {}
-----------------------------------------------------------------------------
(* DeleteRef of the keys refs; StoreRef of value o under the next key.        *)
Release(refs) ==
  /\ registry' = [r \in DOMAIN registry \ refs |-> registry[r]]
  /\ nextRef' = nextRef
Exchange(refs, o) ==
  /\ registry' = [r \in (DOMAIN registry \ refs) \cup {nextRef} |->
                    IF r = nextRef THEN o ELSE registry[r]]
  /\ nextRef' = nextRef + 1

(* A value that nothing, or only a caller with args, refers to yet. *)
Fresh(args) ==
  CHOOSE o \in Objs : o \notin args \cup known \cup {registry[r] : r \in DOMAIN registry}

(* What a function given args can return, and the call of it: it may change   *)
(* all it reaches, and keep one of these values, in the state or elsewhere    *)
(* (one it had from the start counts as kept when it is first used, and what  *)
(* a kept value holds as kept itself).                                        *)
Results(args) == (args \cup known \cup {Fresh(args)}) \ {Nil}
Calls(args, result) ==
  /\ reached' = (args \cup known) \ {Nil}
  /\ \E kept \in {{}} \cup {{o} : o \in (args \cup {result}) \ {Nil}} :
       known' = known \cup kept /\ Cardinality(known') <= MaxKept
CallsNothing == reached' = {} /\ UNCHANGED known

Running == report.status = "running"
AtNode(kinds) == Running /\ node <= Len(flow) /\ flow[node] \in kinds
AtItem(kinds) == AtNode(kinds) /\ pos <= Len(items)

(* On to the next node, with batch refs. *)
NextNode(refs, released) ==
  /\ items' = refs
  /\ before' = Values(refs)
  /\ node' = node + 1 /\ pos' = 1
  /\ out' = << >> /\ source' = NoSource
  /\ Release(released)
  /\ UNCHANGED <<declared, flow>>

(* Run returns an error, with the position of the node, and                   *)
(* RunTargetWithOptions makes the report of it.  The deferred deleteItemRefs  *)
(* was given the slice of the start: it deletes none.                         *)
Fail(released) ==
  /\ report' = [report EXCEPT !.status = "error", !.at = node]
  /\ Release(released)
  /\ UNCHANGED <<declared, flow, node, pos, items, out, source, before>>
-----------------------------------------------------------------------------
(* LoadTarget: the file is found, runs and gives a table with a flow, which   *)
(* Build accepts.  A refusal is a report at once, a panic ends the process.   *)
Unloaded ==
  /\ CallsNothing
  /\ UNCHANGED <<declared, node, pos, items, out, source, registry, nextRef, before>>
Load ==
  /\ report.status = "loading" /\ Unloaded
  /\ LET built == Build(declared)
     IN IF built.error = "none"
        THEN /\ flow' = KindsOf(declared)
             /\ report' = [report EXCEPT !.status = "running"]
        ELSE /\ UNCHANGED flow
             /\ report' = [report EXCEPT !.at = built.position,
                  !.status = IF built.error = "panic" THEN "panic" ELSE "error"]
LoadFails ==
  /\ report.status = "loading" /\ Unloaded /\ UNCHANGED flow
  /\ report' = [report EXCEPT !.status = "error"]
-----------------------------------------------------------------------------
InCall == AtNode({"call", "callData"})
Collecting == InCall /\ source # NoSource
SourceRefs == IF source.array THEN {source.ref} ELSE {}

(* CallCallable of exec: an array of len values, or one value, or nil.        *)
Call ==
  /\ InCall /\ source = NoSource
  /\ \/ \E o \in Results({}), len \in 0..MaxItems :
          /\ Calls({}, o) /\ Exchange({}, o)
          /\ source' = [ref |-> nextRef, len |-> len, array |-> TRUE]
     \/ \E o \in Results({}) \cup {Nil} :
          /\ Calls({}, o) /\ Exchange({}, o)
          /\ source' = [ref |-> nextRef, len |-> 1, array |-> FALSE]
  /\ UNCHANGED <<declared, flow, node, pos, items, out, report, before>>

(* The value at pos: of an array, any value Lua code could put there; on_data *)
(* of an earlier one may have removed it since the length was taken.          *)
RawValues ==
  IF ~source.array THEN {registry[source.ref]}
  ELSE known \cup Elements(Values(out)) \cup {Fresh({})}
         \cup (IF flow[node] = "callData" /\ pos > 1 THEN {Nil} ELSE {})

Collected(ref) ==
  /\ out' = Append(out, ref)
  /\ pos' = pos + 1
  /\ UNCHANGED <<declared, flow, node, items, source, report, before>>

(* callResultToItem without on_data. *)
CollectRaw ==
  /\ Collecting /\ flow[node] = "call" /\ pos <= source.len
  /\ CallsNothing
  /\ IF source.array
       THEN (\E raw \in RawValues : Exchange({}, raw)) /\ Collected(nextRef)
       ELSE UNCHANGED <<registry, nextRef>> /\ Collected(source.ref)

(* callResultToItem with on_data: what it was given is deleted.               *)
CollectData ==
  /\ Collecting /\ flow[node] = "callData" /\ pos <= source.len
  /\ \E raw \in RawValues : \E o \in Results({raw}) :
       Calls({raw}, o) /\ Exchange(IF source.array THEN {} ELSE {source.ref}, o)
  /\ Collected(nextRef)

(* It raises an error or returns nil: the items collected are deleted too.    *)
CollectFails ==
  /\ Collecting /\ flow[node] = "callData" /\ pos <= source.len
  /\ \E raw \in RawValues : Calls({raw}, Nil)
  /\ Fail({source.ref} \cup Elements(out))

(* Mutant of EndCall: the array is deleted also where it is the item.         *)
EndCallReleasesItems ==
  /\ Collecting /\ pos > source.len
  /\ NextNode(out, Elements(items) \cup {source.ref})
  /\ report' = [report EXCEPT !.itemsIn = Len(out)]
  /\ CallsNothing

(* Mutant of EndCall: the count is off by one.                                *)
EndCallCountsShort ==
  /\ Collecting /\ pos > source.len
  /\ NextNode(out, Elements(items) \cup SourceRefs)
  /\ report' = [report EXCEPT !.itemsIn = Len(out) - 1]
  /\ CallsNothing

(* What was collected replaces the batch.                                     *)
EndCall ==
  /\ Collecting /\ pos > source.len
  /\ NextNode(out, Elements(items) \cup SourceRefs)
  /\ report' = [report EXCEPT !.itemsIn = Len(out)]
  /\ CallsNothing
-----------------------------------------------------------------------------
SetItem ==
  /\ AtItem({"set"})
  /\ \E o \in Results({registry[items[pos]]}) :
       Calls({registry[items[pos]]}, o) /\ Exchange({items[pos]}, o)
  /\ items' = [items EXCEPT ![pos] = nextRef]
  /\ pos' = pos + 1
  /\ UNCHANGED <<declared, flow, node, out, source, report, before>>

(* Mutants of FilterItem: a dropped item is not deleted, ...                  *)
FilterItemKeeps ==
  /\ AtItem({"filter"})
  /\ Calls({registry[items[pos]]}, Nil)
  /\ out' \in {out, Append(out, items[pos])}
  /\ Release({})
  /\ pos' = pos + 1
  /\ UNCHANGED <<declared, flow, node, items, source, report, before>>

(* ... those kept come out in reverse.                                        *)
FilterItemReverses ==
  /\ AtItem({"filter"})
  /\ Calls({registry[items[pos]]}, Nil)
  /\ \/ out' = <<items[pos]>> \o out /\ Release({})
     \/ out' = out /\ Release({items[pos]})
  /\ pos' = pos + 1
  /\ UNCHANGED <<declared, flow, node, items, source, report, before>>

(* filter.condition decides on the item at pos; one it drops is deleted.      *)
FilterItem ==
  /\ AtItem({"filter"})
  /\ Calls({registry[items[pos]]}, Nil)
  /\ \/ out' = Append(out, items[pos]) /\ Release({})
     \/ out' = out /\ Release({items[pos]})
  /\ pos' = pos + 1
  /\ UNCHANGED <<declared, flow, node, items, source, report, before>>

(* Mutant of Clone: the value itself.                                         *)
CloneShares(o) == o

(* The value the callable of a tap is given (CloneRef).                       *)
Clone(o) == IF o = Nil THEN Nil ELSE Fresh({})
TapItem ==
  /\ AtItem({"tap"})
  /\ Calls({Clone(registry[items[pos]])}, Nil)
  /\ Release({})
  /\ pos' = pos + 1
  /\ UNCHANGED <<declared, flow, node, items, out, source, report, before>>

(* Set, filter or tap returns an error, or what the node does not accept.     *)
ItemFails ==
  /\ AtItem({"set", "filter", "tap"})
  /\ LET o == registry[items[pos]]
     IN Calls({IF flow[node] = "tap" THEN Clone(o) ELSE o}, Nil)
  /\ Fail({})

(* CloneRef refuses a value with a function or a cycle in it.                 *)
CloneFails ==
  /\ AtItem({"tap"}) /\ registry[items[pos]] # Nil
  /\ CallsNothing
  /\ Fail({})

(* The callable of a call or, without items, of a tap raises an error.        *)
CallFails ==
  /\ \/ InCall /\ source = NoSource
     \/ AtNode({"tap"}) /\ items = << >>
  /\ Calls({}, Nil)
  /\ Fail({})

(* Without items a tap runs once, and set and filter are skipped.             *)
TapNothing ==
  /\ AtNode({"tap"}) /\ items = << >>
  /\ Calls({}, Nil)
  /\ NextNode(items, {})
  /\ UNCHANGED report

EndSet ==
  /\ AtNode({"set"}) /\ pos > Len(items)
  /\ NextNode(items, {})
  /\ CallsNothing /\ UNCHANGED report

EndFilter ==
  /\ AtNode({"filter"}) /\ pos > Len(items)
  /\ NextNode(out, {})
  /\ CallsNothing /\ UNCHANGED report

EndTap ==
  /\ AtNode({"tap"}) /\ items # << >> /\ pos > Len(items)
  /\ NextNode(items, {})
  /\ CallsNothing /\ UNCHANGED report

Finish ==
  /\ Running /\ node > Len(flow)
  /\ report' = [report EXCEPT !.itemsOut = Len(items),
                 !.status = IF flow # << >> /\ items = << >> THEN "empty" ELSE "ok"]
  /\ CallsNothing
  /\ UNCHANGED <<declared, flow, node, pos, items, out, source, registry, nextRef,
                 before>>

Next ==
  \/ Load \/ LoadFails
  \/ Call \/ CollectRaw \/ CollectData \/ CollectFails \/ EndCall
  \/ SetItem \/ FilterItem \/ TapItem \/ ItemFails \/ CloneFails \/ CallFails
  \/ TapNothing \/ EndSet \/ EndFilter \/ EndTap \/ Finish

Spec == Init /\ [][Next]_vars
-----------------------------------------------------------------------------
(* The keys Run still has a use for: the items not dropped, those collected,  *)
(* and an array being read.                                                   *)
Rest == SubSeq(items, pos, Len(items))
Batch == IF AtNode({"filter"}) THEN out \o Rest ELSE items
InUse ==
  Elements(Batch) \cup Elements(out)
  \cup (IF Collecting /\ (source.array \/ pos = 1) THEN {source.ref} ELSE {})

(* The flow as the file writes it. *)
Planned == KindsOf(declared)

(* Every variable has its type: a key is a number already given out, a value  *)
(* is a Lua value or nil, and a report has a status and counts.               *)
TypeOK ==
  /\ declared \in Seq(Declared)
  /\ flow \in Seq(Kinds)
  /\ node \in 1..(Len(flow) + 1) /\ pos \in Nat /\ nextRef \in Nat
  /\ items \in Seq(1..nextRef) /\ out \in Seq(1..nextRef)
  /\ source \in [ref : 0..nextRef, len : Nat, array : BOOLEAN]
  /\ DOMAIN registry \subseteq 1..nextRef
  /\ \A r \in DOMAIN registry : registry[r] \in Objs \cup {Nil}
  /\ known \subseteq Objs /\ reached \subseteq Objs
  /\ report \in [status : {"loading", "running", "ok", "empty", "error", "panic"},
                 at : 0..Len(Planned), itemsIn : Nat, itemsOut : Nat]
  /\ before \in Seq(Objs \cup {Nil})

(* No key is used after it was deleted, and each is held once: deleting an    *)
(* item leaves the others alone, on every path through the loops.             *)
KeysAreOwned ==
  Running =>
    /\ InUse \subseteq DOMAIN registry
    /\ \A i, j \in 1..Len(items) : items[i] = items[j] => i = j
    /\ \A i \in 1..Len(items), j \in 1..Len(out) :
         items[i] = out[j] => AtNode({"filter"}) /\ i < pos

(* Every key is deleted once it has no use: as long as nothing fails, the     *)
(* registry holds the batch in progress and nothing of the batches before it  *)
(* (deleteItemRefs and DeleteRef, executor.go:68, 91, 133, 177, 206).         *)
NothingAccumulates == report.status # "error" => DOMAIN registry \subseteq InUse

(* What the executor calls at a node, of which it checks nothing itself. *)
Runnable(n) ==
  \/ n.kind = "call" /\ n.field = "callable" /\ n.onData # "other"
  \/ n.kind = "tap" /\ n.field = "callable"
  \/ n.kind \in {"set", "filter"} /\ n.field = "function"

(* A flow runs whole or not at all: nothing is called before every node is    *)
(* known to have what it calls, and the position in a report of an error is   *)
(* that of the first node that has not, or of the node that failed            *)
(* (dag.go:28, errkind.go WithContext, executor.go:46-170).                   *)
RunsWholeOrNotAtAll ==
  LET bad == {i \in 1..Len(Planned) : ~Runnable(declared[i])}
  IN /\ report.status \in {"running", "ok", "empty"} \/ nextRef > 1 \/ known # {} => bad = {}
     /\ report.status = "error" /\ report.at > 0 =>
          IF bad = {} THEN report.at = node
          ELSE report.at \in bad /\ \A i \in bad : report.at <= i

(* A tap, a call and its on_data are given no item of the batch in progress,  *)
(* a tap only a copy of one: they cannot change the batch, except for what    *)
(* Lua code has kept of it.  (set.to and filter.condition are given the item  *)
(* itself.)                                                                   *)
Isolation ==
  [][AtNode({"call", "callData", "tap"}) =>
       reached' \cap Elements(Values(items)) \subseteq known]_vars

(* Node by node, the executor does what BatchPipeline says, and a flow that   *)
(* does not load fails there.  A call may stand anywhere, and what follows an *)
(* emptied batch is executed (BatchPipeline says which documents differ).     *)
Outcome == [status |-> IF report.status = "loading" THEN "running"
                       ELSE IF report.status = "panic" THEN "error" ELSE report.status,
            itemsIn |-> report.itemsIn, itemsOut |-> report.itemsOut]
Pipeline == INSTANCE BatchPipeline WITH batch <- before, flow <- Planned, report <- Outcome
PipelineSpec == Pipeline!Spec
=============================================================================
