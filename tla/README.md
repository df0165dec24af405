# TLA+ verification of maya-usd

maya-usd joins two Maya plug-ins for USD: Animal Logic's `AL_USDMaya`
(`plugin/al`) and Pixar's `pxrUsd` (`plugin/pxr`). Most of it converts data or
calls Maya, USD and Hydra. The part with a logic of its own, that runs for the
length of a Maya session and is entered by many clients in any order, is in the
AL plug-in: its event system, its undoable commands, and the way proxy shapes,
layers and the Maya scene file are kept in step. That part is what this project
models, model-checks with TLC and proves with TLAPS.

Paths below are relative to the repository; `EventHandler`, `MayaEventManager`,
`EventCommand`, `LayerManager`, `ProxyShape`, `Global` stand for the files of
those names under `plugin/al`.

## 1. The system

| part | state | operations | used by | correct when |
|---|---|---|---|---|
| event dispatcher (`EventHandler`) | one event: id, name, type, owner, parent, vector of callbacks | register, build, put back, take out a callback; trigger | scheduler | callbacks ascend by weight; one per tag and data; ids unique |
| event scheduler (`EventHandler`) | vector of dispatchers sorted by id; custom handlers by type | register, promote, unregister events; route callback calls by the event id inside a callback id | everything | sorted, no id twice, no two events of one name, owner, parent; every stored callback can be found |
| node events (`EventHandler.h`) | a node's map from name to event id | register, unregister, destructor | `ProxyShape` | the map and the scheduler agree |
| Maya event manager (`MayaEventManager`) | reference count and MMessage callback for each Maya event | callback created, callback destroyed | told by the scheduler | the count never wraps; a callback is installed with Maya exactly while somebody listens |
| callback and event commands (`EventCommand`) | two lists per command, on Maya's undo queue | `Callback`, `DeleteCallbacks`, `Event`; undo, redo | scripts | undo restores what was there |
| layer database (`LayerManager`) | two maps, layer to identifiers and identifier to layer | add, remove, find, iterate over dirty layers | layer manager node | the maps are inverse; what is found is what is iterated |
| layer tracking (`ProxyShape`) | stage, session layer, edit target, previous edit target, stored session layer name | load stage, edit target changed, serialize | layer commands, USD notices, file callbacks | every edited layer is among those saved; a reloaded stage gets its session layer back |
| layer manager node (`LayerManager`) | the database, two mutexes, serialised attributes | find or create the node, fill, clear and load the attributes | file callbacks | one node per scene; what was saved is what is loaded |
| Maya file callbacks (`Global`) | read depth, stored selection, unloaded proxies | before and after new, open, import, save, export | Maya, through the event manager | work done once per top-level read; each proxy has its attribute callback back |
| proxy shape: selection (`ProxyShapeSelection`) | transform references and their counts, selected paths | select, deselect, undo, change of hierarchy | selection commands | a transform exists while something needs it |
| translator context (`TranslatorContext`, `PrimFilter`) | mapping of prims to translators and nodes | variant switch, resync, load, unload | proxy shape | no prim imported twice, none forgotten |
| selectability database | two sorted vectors of paths | add, remove, query by prefix | proxy shape | the query agrees with the set |
| diagnostic delegate (Pixar) | batch count, two collecting delegates | start, end a batch; diagnostics from any thread | import, export, reference assemblies | no diagnostic lost or shown twice |

**How they interact.** Everything in the AL plug-in happens on Maya's main
thread; Pixar's diagnostics come from any thread.
What makes the order of steps open is that all parts share one scheduler and one
layer manager and are called back: by Maya (file, selection and attribute
messages), by USD (edit target and object notices, synchronously), by scripts
(commands, undo, redo) and by nodes that come and go. Any client may make any
call at any time with an id it kept from earlier. So the specifications of the
shared components are the closure of their public interface, and those of the
clients say which calls they make.

**What is hard here.** Ids that are used again after their event is gone; a
promotion that rewrites an event in place; callbacks refused silently; undo that
carries holes in its lists; two maps that must change together; a layer that two
stages share; callbacks that change the vector that is being iterated; a file
read nested in a file read. `PROJECT.json` lists these at their lines.

## 2. The modules

```
EventDispatcher           callbacks, ids, the vector of one event (operators)
  MayaEventHandler        reference counts of Maya events (operators)
    EventScheduler        the state machine of the event system
      EventScheduler_proof    theorems
      EventTrigger        triggers that run while clients call the scheduler
      NodeEvents          nodes that keep events, other clients
        CallbackCommands  undoable commands on Maya's undo queue
      EventClients_proof  theorems about triggers and commands
LayerMap                  abstract: a map with several keys per layer
LayerDatabase             the two std::maps; implements LayerMap
  LayerDatabase_proof     theorems
  LayerTracking           proxy shapes that keep the database up to date
    LayerCommands         undoable commands that create and target layers
    SceneFiles            saving and reading scenes, the layer manager node
      LayerClients_proof  theorems about tracking, commands and scenes
TransformRefs             transforms for selected and required prims, with undo
  TransformRefs_proof     theorems
PrimTranslation           translated prims and variant switches
  PrimTranslation_proof   theorems
DiagnosticBatch           Pixar's diagnostic delegate, threads and batches
  DiagnosticBatch_proof   theorems
SequenceLemmas            lemmas used by the proofs: InsertAt, RemoveAt, SelectSeq,
                            counted elements, folds over sets and sequences
MC*.tla, MC*.cfg          small instances
```

### Event system

`events` is `m_registeredEvents`, a sequence in the order of the vector. The
lookups are what the code does, not what it means: `LowerBound` is the position
`std::lower_bound` would return on a sorted vector, `FirstNamed` the linear
search. `RegisterEvent` computes which event stands in the way, as the loop of
`EventScheduler::registerEvent` does, and then promotes it, refuses, or inserts a
new dispatcher in the first gap of the ids. A `CallbackId` is the triple it
packs into 64 bits; while the fields fit (20, 4 and 40 bits) the packed values
are equal and compare as the triples do, and no run comes near those widths.

`maya` is the array of `MayaCallbackInfo` with `m_eventMapping`; `installed`
counts what Maya holds, so that a callback installed twice or left behind shows.
The count is unsigned in the code: decrementing zero goes to `MaxRef`.

`infos` is the set of `Callback` objects clients hold between `buildCallback` or
`unregisterCallback(id, info)` and `registerCallback(info)`. It is what makes
id reuse matter: a callback built for one event may be put back when the id
belongs to another.

A call that the code refuses and that changes nothing is a stuttering step and
has no action.

`NodeEvents` adds `nodeEvents`, the `m_events` of every node that is alive.
`unregisterEvent` reads an iterator it has erased; `FreedReads` is the set of
values this undefined read may yield besides the value that was there.

`CallbackCommands` adds Maya's undo queue. `RedoItImplementation` is the one
function that `doIt`, `undoIt` and `redoIt` share: take out what is on the
delete list, put in what is on the insert list, swap the lists. A command
record also carries the callbacks stored before and after it, for the property
`UndoRestores` only; the code has no such fields.

`EventTrigger` composes the scheduler with the triggers that are running.
`triggerEvent` is a range-based `for` over the vector of callbacks: two
iterators, fixed when it begins. `loops` is the stack of these loops, since what
a callback calls may trigger again. `RunCallback` is one turn. Between two turns
`Client`, a step of `EventScheduler`, stands for what the callback does; it may
change any event. A loop's iterators are good while its buffer is (`kept`): the
buffer moves along when dispatchers are moved by an insertion or erasure in the
scheduler's vector, which is why a loop is known by the id of its event; it is
freed with the event and, when a callback is added, whenever there is no capacity
left (`moved`, a choice). `this` is a place in the scheduler's vector and is only
read to run a script or to report one that failed (`Sees`, `ReportStale`).
`RunStale` is a turn on memory that holds no callback any more: undefined
behaviour, so the program crashes or goes on. `Trigger` is also the trigger of a
node (`NodeEvents::triggerEvent` looks the id up) and of the command
`AL_usdmaya_TriggerEvent`. The fields `ran`, `due` and `alone` are history: what
was called, what was stored all the time and not called, and whether clients left
the event alone, that is, kept its callbacks and, when it has scripts, added no
event and left `this` a place to be.

### Layers

`LayerDatabase` has the two maps. `AddKey` is `_addLayer`, `AddCanonical` the
call of it that `addLayer` always makes, `Removed` the effect of `removeLayer`.
Identifiers and dirtiness belong to USD and change on their own
(`SetIdentifier`, `Edit`, `Clean`). `LayerMap` is the map that the doc comments
of `LayerManager.h` describe, one map from identifiers to layers and a set of
managed layers; `ImplementsMap` is the refinement.

`LayerTracking` is a composition: the proxy shapes act on the database of
`LayerDatabase`. `LoadStage` has the order of `ProxyShape::loadStage`: track the
old stage, drop it, look the session layer up, open, set the edit target to the
session layer, track. `LoadFails` is the branch in which the file does not open.
Which layers a stage is made of is the constant `Used`.

`LayerCommands` puts `AL_usdmaya_LayerCreateLayer` and
`AL_usdmaya_LayerCurrentEditTarget` on Maya's undo queue, over the shapes of
`LayerTracking`. A command record has the fields of the command object: the
layer, whether the manager took it (`m_layerWasInserted`), the edit target before
(`previous`). Both commands keep the stage they found; `onStage` turns false when
the shape loads another, and from then on undo and redo act on a stage nobody
shows. Redoing the creation of an anonymous layer makes another one, and the
records that hold the first are left with a handle that has expired
(`Forgotten`). The sublayers of the root layer are edited by the command, not
through the stage, so those edits are no edits of an edit target: the ghost
`silent` has the layers with such edits alone.

### Scenes

`SceneFiles` is the composition of `LayerTracking` with `Global`'s file callbacks
and the layer manager node. `reads` is Maya's own stack of reads in progress;
`PreFileRead` and `PostFileRead` are the callbacks, and both count the depth only
if they are called: a plug-in that Maya loads in the middle of a read has missed
the first. `attrs` is the `layers` attribute of the manager node, filled by
`populateSerialisationAttributes` for the length of a save (so that `SaveScene`
leaves it cleared), filled again by reading the node, and read by
`LoadAllLayers`. `postFileRead` goes on to load the stages of
`m_unloadedProxyShapes` one at a time (`PullStage`). `file` is the scene on disk,
which survives `Restart`, the end of Maya at any moment. The field `found` of the
file is history: what the session layer name of each shape led to when it was
saved. `text` and `disk` are what layers say, two values suffice to tell an edit
that came back from one that did not.

### Proxy shapes

`TransformRefs` has the reference counts of `m_requiredPaths` and the four modes
of `ProxyShape::doSelect`. A selection is worked out on a copy of the counts and
then carried out by `SelectionUndoHelper::doIt`; `undoIt` inserts what was removed
and removes what was inserted. Maya brings back the very nodes that were deleted
when it undoes, which is why a node has a number beside its path. `Require` and
`Unrequire` are the calls of the translators.

`PrimTranslation` is the life of translated prims. `Switch` is what happens when
variants change: `variantSelectionListener` notes one path and the entries below
it, USD recomposes to any of the given `Compositions`, and `onObjectsChanged` runs
`onPrimResync`, `PrimFilter`, tear down, import and `updatePrimTypes`, all of it
`TranslatePrims`. `SwitchElsewhere` is a switch in another stage, which the
listener takes for its own; `ChangeUnheard` a change while Maya reads a file;
`TranslatePrim` the command that imports and tears down what a script asks for.

### Diagnostics

`DiagnosticBatch` is the one part with threads. The steps that the main thread
takes to start or end a batch, or to install or remove the delegate, are a list
(`todo`) that it works off while other threads post. A post calls the delegates
the manager had when it began, one step each; adding or removing a delegate
excludes posts, as the lock of `TfDiagnosticMgr` does. `TakeDiagnostics`, which
empties a collector, excludes nothing.

## 3. The runs

| run | checks | instance | shows |
|---|---|---|---|
| `Events` | `TypeOK`, `IdsAscending`, `EventsDistinct`, `CallbacksReachable`, `CountCovers` | 1 name (a Maya event's), 2 owners, 2 tags, at most 2 callbacks numbered per event, 1 held callback | any interleaving of clients keeps the scheduler's index sound and the Maya count from wrapping |
| `Commands` | `CommandTypeOK`, `NodeEventsAgree`, `WeightsAscending`, `SitesUnique`, `PlainUnique`, `PlainExact`, `UndoRestores` | a node, 2 names, 3 events, queue of 4 for plain histories, 2 for others, 1 after the node died | events and nodes survive commands that go wrong; without two flags for one event, undo and redo are exact |
| `LayerDatabase` | `TypeOK`, `OneRelation`, `FoundIsVisible`, `ImplementsMap` | 3 layers, 4 identifiers | the maps are inverse under renames and shared identifiers, and implement `LayerMap` |
| `LayerCommands` | `QueueTypeOK`, `SavesTargets`, `UndoRestoresTarget`, `SessionKept` | 2 proxies with a root layer of their own each, 3 anonymous layers, queue of 2 | a save writes every edited layer, undo gives a stage its edit target back, a reloaded stage its session layer |
| `Triggers` | `TriggerTypeOK`, `NothingStale`, `WholeBroadcast` | 2 events of one name, at most 2 callbacks each, scripts and functions with data, triggers nested 2 deep | a trigger whose event is left alone is whole and safe |
| `Diagnostics` | `TypeOK`, `CountMatches`, `ManagerMatches`, `ShownOnce`, `CalmIsShown` | 2 threads, a status, a warning and an error, 2 delegates, 2 contexts | the count is that of the live contexts, no collector stays behind, a message that overlaps no change is shown, once |
| `Selection` | `RefTypeOK`, `CountsMatch`, `RequiredKept`, `OneNodePerPath` | a prim with two children, one of them required, queue of 2 | counts and transforms are those of the selected and required prims through undo and redo |
| `Scene` | `SceneTypeOK`, `ReadsSettle`, `RoundTrip`, `EditsSurviveReads` | 2 shapes, one of them referenced, 2 anonymous layers and one with a file, reads nested 2 deep | edits come back with the scene they were saved in, every read ends settled |
| `Translators` | `TranslationTypeOK`, `RequiredCovers`, `EntriesHaveNodes`, `Resynced` | a chain of 3 prims, 3 types of translators (with and without update, imported by default or not, with a parent or not) | transforms outlast the nodes on them, and a switch brings what is below it up to date |
| `SharedTarget` | `SavesEdits` | the proxies and layers of `LayerCommands` without commands, the two stages share the layer `a` | violated: finding 1 |
| `SelfRemoval` | `DispatchesToAll` | as `Triggers`, one event, no nesting | violated: finding 2 |
| `NotReimported` | `Reimported` | as `Translators` | violated: finding 3 |

The configuration of a run is `MC<run>.cfg`; `PROJECT.json` names its module.

**Bounds and why they are enough.** Promotion, reuse of an id and a held
callback that meets another event under its id need two events, of one name and
two owners, and one held callback (`Events`); a gap in the middle of the ids
needs three, which `Commands` has, under two names. `MaxNum` bounds callback
numbers and `MaxRef` reference counts; two callbacks of one event are enough for
a count to drift from the truth by one. `Commands` follows histories of plain
commands to a queue of four, more than the longest known counterexample needs,
so that commands pushed after an undo are there; histories with two flags for
one event, in which undo is not exact, to two, and those after the death of the
node to one (`MCBound`). Four identifiers for three layers allow a layer to be
renamed, to be listed under its old and its new identifier, and to lose its last
one to another layer. Two events and triggers two deep (`Triggers`) give a
trigger inside another of its own event and of another event, each with
callbacks before and after the one that is running. `CalledByWeight` needs
different weights, which make that run too long: it is proved.

`LayerCommands` covers two instances at once. As long as no command was given it
is two shapes with three anonymous layers, without further bound; three allow an
old session layer that is kept by the database while both shapes have new ones.
Commands are given to one shape, before there is another and before the scene is
saved, with at most one layer that has edits, one sublayer and two layers in the
database: enough for a layer that is created, targeted, edited, left and brought
back by undo, and for an anonymous layer that redo replaces. States after an undo
that is not `Sound` are not followed (section 5).

`Selection` does not switch variants while selections can be undone
(`Switching = FALSE`), and does not follow selections that are not `Sound`. A
parent and two children are the smallest chain two prims share. `Scene` has one
shape of the scene's own and one that a reference brings, at most two stages
waiting to be loaded and two layers with edits; imports do not reference, and the
stage of the referenced shape opens and is not edited. `Translators` has a prim,
its child and the unmerged shape of the child, so that a node stands on the
transform of its parent; three reasons per transform (`MaxRequired`) are one for
each prim. `Diagnostics` constructs each object once: two delegates and two
contexts are what it takes for a context to outlive its delegate and meet the
next one in a batch of its own.

**Bounded actions.** `MaxEvents`, `MaxNum`, `MaxInfos`, `MaxRef`, `MaxQueue`,
`MaxDepth`, `MaxNodes` and `MaxRequired` appear in guards only; a step past a
bound is not taken. `CHECK_DEADLOCK FALSE` is set because at these bounds, and
whenever the user does nothing, there may be no step to take.

**MC constants.** `MCLayerTracking`, `MCLayerCommands` and `MCSceneFiles` take
every layer as its own identifier, so that symmetry renames the two together;
that identifiers change is checked by `LayerDatabase`. `Triggers` has a `VIEW`
that leaves out `due`, which no action and none of its properties read.

**Fairness.** `DiagnosticBatch` has it, for `CalmIsShown`: a thread that has begun
a step goes on with it (`MainStep`, `IssueShared`, `IssueCollector`), and a batch
context that was made is destroyed (`LeaveContext`). The code justifies both:
the steps wait for locks that are held for one call only, and contexts are local
variables of import, export and assembly functions, or the one the batch renderer
keeps until the viewport is drawn (`batchRenderer.cpp:1387-1405`). Nothing is assumed
of installing and removing delegates or of posting. The other parts act only when
somebody calls them, and nothing in them has to happen eventually that does not
happen in the call: they state invariants, action properties and a refinement of
safety.

## 4. Findings

1. `ProxyShape::trackEditTargetLayer` (ProxyShape.cpp:880-885) takes a clean
   layer out of the layer manager when one stage's edit target leaves it, even if
   it is the edit target of another stage. Edits made there afterwards are not
   written when the scene is saved, against LayerManager.h:132-134.
2. `EventDispatcher::triggerEvent` (EventHandler.h:578-640) iterates over the
   vector its callbacks may change. A callback that unregisters itself makes the
   loop skip the next one and read past the end, against EventHandler.h:543.
3. `PrimFilter` (PrimFilter.cpp:40-54) takes a prim that has not changed and whose
   translator has no update out of the prims to import and leaves it among those
   to tear down: the node goes and does not come back, against
   docs_translator_plugins.h:309-310.

Other places where the models follow the code to something it hardly means to do.
No run shows them; properties that they would break say in their conditions what
they leave out, and the list of hazards has them at their lines.

- Events: two flags for one event in `AL_usdmaya_Callback`, a global one and a
  node's among them, get one callback id (EventCommand.cpp:236-427), and a callback that was refused is counted by the
  Maya handler all the same (EventHandler.h:1008-1027). `PlainUnique`,
  `PlainExact` and `UndoRestores` hold for histories without such a command.
  `NodeEvents::unregisterEvent` reads through an iterator it erased (1146-1147).
- Layers: undoing `LayerCreateLayer` takes the layer out of the manager although
  it is edited, targeted or the last edit target that was tracked, and off the
  sublayers although it was there before (LayerCommands.cpp:436-447). Edits the
  command makes to the root layer's sublayers are not saved with the scene unless
  the root layer is an edit target too. Redo of an anonymous creation makes a
  layer that the commands after it do not know (469). Both commands act on the
  stage they were given after the shape has loaded another. `LayerSetMuted::undoIt`
  sets the value that `doIt` set (953).
- Scenes: the layers in the manager of an imported scene are lost, as `layers.md`
  says, and so are those of a scene when a reference makes Maya load the plug-in;
  after an import the shapes that were there before no longer hear of changes of
  their attributes (Global.cpp:318).
- Selection: removing and toggling record the last node of Maya's selection list
  instead of the one they looked for (ProxyShapeSelection.cpp:1188), and toggling
  one prim out and its sibling in deletes the transform of their parent (1237).
- Translation: two switches in one change repopulate what is below the first
  path only (ProxyShape.cpp:1253).

## 5. What is proved

The proofs hold for every value of the constants under the assumptions named in
the modules (`DataAssumption`, `OwnerAssumption`, `BoundAssumption`, ...), which
say what sets the constants are, for two of them (`ArgsAssumption`,
`PathsAssumption`) that what is enumerated is what a command can be given, for
`ChainAssumption` that paths form a tree, and for `OtherAssumption` that a prim
of another stage is none of this one's.

`EventScheduler_proof`. The conjuncts of the inductive invariant need each
other. `lower_bound` finds an event only in a sorted vector, so every routed call
rests on `IdsAscending`; the gap search returns a position that is also the id
to insert, which keeps the order; `EventsDistinct` needs that at most one event
of a name is of unknown type, since a promotion rewrites owner and parent
without looking at the others; `CallbacksReachable` needs that a held callback
is put back under the event its id names. The module proves `Invariance` once,
one step per action, and draws `TypeCorrect`, `IdsStayAscending`,
`EventsStayDistinct`, `WeightsStayAscending`, `SitesStayUnique` and
`CallbacksStayReachable` from it. `CountsCover` says that the count of a Maya
event is never below the callbacks stored for it, whatever clients hold or put
back: every change of the scheduler's vector is an insertion, a removal or the
replacement of one dispatcher, and the counting lemmas of `SequenceLemmas` say by
how much each changes a sum.

`EventClients_proof`, triggers. The scheduler's invariant is kept as it is (`InvNext` is
cited for the steps of clients). What is added, `Attached`, relates each running
trigger whose event is left alone to the events as they are now: its range is
that of the vector of callbacks, and what it has called is the part before
`next`. Any client step keeps this, because an event that is left alone has the
same callbacks wherever its dispatcher went. `NothingStaleIsRead`,
`BroadcastsAreWhole` and `CallsAreByWeight` follow for any number of events,
callbacks and nested triggers, the last with the order of `WeightsAscending`.

`EventClients_proof`, commands. `ClientsInv` joins the scheduler's invariant with
the types of tables, commands and queue. A command runs its two lists one element
at a time, so the proof does too: a fold is a last element of a chain of
intermediate results (`FoldExists`, `FoldKeeps`), and every link of the chain
keeps what a single `registerCallback` or `unregisterCallback` keeps. It yields
`CommandsTypeCorrect`, `CommandsKeepWeights` and `CommandsKeepSites` for any
lists on the queue, those with holes included. `TablesAgree` needs a history:
that a node's table names the event in the scheduler is kept by a call only if no
entry of another node names the same event, and an entry whose event somebody
else unregistered must not come to name a new event with the same id. The
theorem's hypothesis `FreedReads = {}` is that the read through an erased iterator
yields what was there; the theorem is about `CommandSpec`, whose clients register
a name with one owner and parent. Under `NodeSpec` alone a second registration
of a name leaves the first entry's event without a table.

That undo is exact needs both. The vectors are seen as the set of the callbacks in
them (`Cbs`), the lists of a command as an exchange of two such sets (`Exchange`):
what it takes out is what the ids name, what it puts in clashes with nothing that
stays, in id or in site, so that nothing is refused on the way. `RunExchange` then
says that running it leaves the lists of the opposite exchange. `PlainInv` carries the
sets there were after each command on the queue (`Past`), and that what `doIt`
builds clashes with nothing stored (`BuiltApart`) starts it. From it
follow `PlainIdsUnique`, `PlainCountsExact`, as the handler is told of each callback once, and
`UndoIsExact`. The hypothesis is the model's `plain`: with two flags for
one event the ids of two callbacks are the same, and event commands remove events,
whose callbacks are gone.

`LayerDatabase_proof`. `OneRelation` is inductive with `TypeOK`: each listed
identifier is a key to its layer, each key is listed once, no list is empty. The
last part is what the test `size() <= 1` needs, and between the two calls of
`_addLayer` in `addLayer` it does not hold, so the lemmas about `AddKey` carry
the invariant with one layer excepted. `MapsAgree`, `LookupIsVisible` and
`Refinement` (`Spec => ImplementsMap`) follow.

`DiagnosticBatch_proof`. `DiagnosticTypes` is inductive once it also says that
`calls` has something exactly for a thread that posts. `DiagnosticCount` adds that
only delegates that were made occur in contexts and that those never made have
count zero, so that a delegate that is installed starts from no contexts; the
rest is the arithmetic of cardinalities when one context enters or leaves.
`ManagerInOrder` and `ShownAtMostOnce` need to know what `todo` may hold: its
possible values are the suffixes of four lists, and to each belongs what the
manager has then. A message is shown once because, from the moment it was
posted, it is in exactly one of the calls that are left, a collector, or what was
shown. Both hold for any numbers of threads, messages, delegates and contexts.

`PrimTranslation_proof`. A node that stands on a transform goes with it, and the
transform goes with its count. So entries keep their nodes (`EntriesKeepNodes`)
only if every count covers the chained entries that stand on its transform
(`TransformsOutlastNodes`) and the other entries have a node outside the DAG;
`TranslationInvariance` carries both. Counting is done for the ancestors of a prim's
holder and counting off for all of the prim's own: they differ by an unmerged prim
that nothing stands on, which `ChainAssumption` gives. The rest is cardinality when
one prim starts or stops standing on a transform. `SwitchResyncs` follows the one
long step of a switch prim by prim from that invariant. All hold for any finite tree of
prims, any types and any compositions a variant switch or an edit may lead to.

`TransformRefs_proof`. That counts are those of the selected and required prims
(`CountsCorrect`) is an invariant only of histories: undo inserts and removes what
its record says, so the proof carries, for each place in the queue, which
selection and which nodes the record leads from and to (`Leads`, `History`), and
what the counts of a set of prims are (`RefsOf`). A removal counts off along the
parents of each prim; a transform goes when its count reaches zero, which is when no
prim below it is left. `RequiredStays` and `OneNode` follow, and so do the types
as long as the history is `Sound` (`TypesWhileSound`). They hold
for any tree of prims and any queue under the hypothesis `~Switching`: a variant
switched while selections can be undone makes records that name prims which are
not there any more.

`LayerClients_proof`, commands. The clients of the database add each layer under its
own identifier only, so that a layer added never takes a key from another: a
`Kept` database has no key but the identifier of the layer it leads to, and
`TrackKept` gives what a change of target adds and takes off. `serializeAll` is a
fold over the stages; `FoldExists` gives the chain of databases between them.
`CommandInv` is what each step keeps: the database is `Kept`; a session layer
belongs to one stage (`OwnerInv`), to the stage whose saved name leads to it
(`NamesInv`); and what a command in the queue remembers is its stage's
(`FineCommand`). `CommandsTyped` and `SessionStays` follow. `UndoGivesBack` needs
the queue as a history (`DoneFine`, `UndoneFine`): the target that undoing will set
must be a layer of the stage when its turn comes, though creations are undone on
the way, so each creation that took a layer in must come after no command that
wants it, unless the layer was in the stage before. `TargetsAreSaved` follows from
`HeldInv`: a layer that is a target, was one, or has edits that were announced is
in the database, or in no stage. Its hypothesis `Apart` is that no two stages use
or open the same file; without it saving misses edits even when there are no
commands (run `SharedTarget`).
Both are about histories in which no undo let go of a layer that somebody had
taken up (`sound`). The proofs assume that proxies and layers are finite in
number (`FiniteAssumption`), as the nodes of a scene and the layers of a session
are: the fold over the stages is defined for nothing else.

`LayerClients_proof`, scenes. `ReadsComeToAnEnd` needs that the depth is never more than
the reads in progress, and zero without the plug-in, so that the last read is
taken for the outermost whichever were announced; and that an attribute with
entries means there is a manager, without which `postFileRead` would not look at
it. For `KeptEditsSurvive`: the attribute has entries only in a scene whose
manager keeps no layer, since a second manager is refused and a save clears the
attribute. A save without shapes must then leave the database alone, so that
stages have to belong to shapes (`ShapesInv`), those that wait in `unloaded` too.
It holds for any shapes, layers and texts and any depth of nesting.

`SavedInv` is about what was saved, from the save to the end of the read that
brings it back. A layer that was loaded has two keys in the database, its own
identifier and the one it was saved under, so the database is not `Kept` as
under the commands; it is `Kinded`: a key is an identifier of a session layer
exactly if it leads to one. That is enough for a shape's session layer name to
lead to no layer that has a file, hence for `ScenesTyped`. A save then writes
entries with distinct identifiers, in which the name of each shape with a stage
leads to what it led to in the database (`FileInv`): `serializeAll` adds the
layer of each stage under its own identifier, and no layer it adds later takes
that key (`SerializeAllKinded`). What is read is all of the file or nothing
(`EntriesInv`). While a scene is being opened, and until a `postFileRead` takes
the last read for over, the entries are in one of two places, the attribute of
the manager or the part of the file that is still to be read, and each shape
that was read has its name (`OpenInv`); the reads of references in between have
neither. `loadAllLayers` is a fold over the entries, whose every step leaves the
earlier ones where they lead (`LedToMore`), as the new layers have identifiers
of their own (`Placed`). `EditsReturn` puts these together. Its hypothesis
`~early` excludes a plug-in that Maya loaded for a reference of the scene: that
read is then taken for the outermost.

**Only model-checked:** the types outside `Sound` in `TransformRefs`, and
`CalmIsShown` (liveness). Liveness and recursive definitions stay with TLC in
any case.

## 6. Plan

Done: the event system, its commands and triggers; the layer database, tracking,
layer commands and scene files; selections; translation and variant switches;
diagnostics. What is left, in order:

1. `TransformRefs` and `PrimTranslation` composed, with variants switched while
   selections can be undone (`Switching`).
2. `Global`'s callbacks around export and the selection stored over a save.
3. The two mutexes of the layer manager, if the plug-in comes to open layers on
   other threads.

The suite is kept to a dozen runs, each within two or three minutes, so that it
can be repeated after every change.

## 7. Not modelled

- The order of transform operations that `TransformationMatrix` keeps is a list
  that one call at a time inserts into, and what depends on it are matrices:
  floating point throughout. The same goes for the import and export of geometry,
  animation, cameras and materials, and the comparison and copying utilities
  (`DgNodeHelper`, `NodeHelper`, `DiffPrimVar`), which are most of the code and
  have little or no state: a model of them would repeat assignments.
- `SelectabilityDB`: a sorted vector changed by one thread, which unit tests reach.
- Hydra, viewports and OpenGL of either plug-in; Pixar's import and export jobs,
  stage nodes and reference assemblies, traversals that convert data.
- Attribute declaration and the generation of user interfaces: text.
- Of the parts that are modelled: the mutexes of the layer manager, muting of
  layers, `primPath` and excluded geometry, lock and selectability tags, failing
  translators, serialisation of the translator context, the stored selection.
- Maya and USD themselves. What they do is in the actions marked external in
  `PROJECT.json`: edits of layers, identifiers, dirtiness, recomposition, the undo
  queue, the order of nested reads, the diagnostics manager.
- The generated schema classes, the Python bindings, tests and build scripts.

## 8. Running

```
tlc -config MCEvents.cfg MCEventScheduler.tla
tlc -config MCScene.cfg MCSceneFiles.tla
tlc -config MCDiagnostics.cfg MCDiagnosticBatch.tla
tlapm SequenceLemmas.tla
tlapm EventScheduler_proof.tla
tlapm EventClients_proof.tla
tlapm LayerDatabase_proof.tla
tlapm DiagnosticBatch_proof.tla
tlapm PrimTranslation_proof.tla
tlapm TransformRefs_proof.tla
tlapm LayerClients_proof.tla
```
