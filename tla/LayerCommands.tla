---------------------------- MODULE LayerCommands ----------------------------
(***************************************************************************)
(* The commands that make layers and set the edit target of a stage, on    *)
(* Maya's undo queue, over the ProxyShapes that track edit targets.        *)
(*                                                                         *)
(*   source  plugin/al/lib/AL_USDMaya/AL/usdmaya/cmds/LayerCommands.cpp    *)
(*           (LayerCreateLayer, LayerCurrentEditTarget)                    *)
(*                                                                         *)
(* LayerCreateLayer gives a layer to the LayerManager and may append it to *)
(* the sublayers of the root layer; it edits the root layer itself, which  *)
(* no stage need have for its edit target.  Both commands keep the stage   *)
(* they were given: when the shape has loaded another, undo acts on a      *)
(* stage that nobody shows or tracks.                                      *)
(*                                                                         *)
(* USD (external) makes a new stage whenever one is loaded, keeps the old  *)
(* one and its root layer in the stage cache, lists a sublayer once, and   *)
(* refuses an edit target that is gone or not a layer of the stage.        *)
(***************************************************************************)
EXTENDS LayerTracking

CONSTANTS
  Root,      \* the root layer of each proxy's stage
  Openable,  \* the files that are opened for each proxy
  MaxQueue   \* bound: commands to be undone and redone

ASSUME RootAssumption ==
  /\ Root \in [Proxies -> Layers] /\ \A p \in Proxies : Root[p] \in Used[p]
  /\ Openable \in [Proxies -> SUBSET (Layers \ SessionLayers)]

VARIABLES
  sublayers,  \* what was appended to the sublayers of each root layer
  done,       \* commands Maya can undo ...
  undone,     \* ... and redo
  silent,     \* a ghost: root layers whose only edits are to their sublayers
  sound       \* a ghost: whether every undo so far satisfied Sound

queueVars   == <<done, undone>>
commandVars == <<trackVars, sublayers, queueVars, silent, sound>>

\* The command objects.  `listed`, a ghost: the layer was a sublayer before.
Created(p, layer, sub) ==
  [kind |-> "create", proxy |-> p, layer |-> layer, sublayer |-> sub,
   inserted |-> layer \notin DOMAIN layerToIds, listed |-> layer \in sublayers[p]]

Targeted(p, layer) ==
  [kind |-> "target", proxy |-> p, layer |-> layer, previous |-> target[p],
   onStage |-> TRUE]

Commands == Range(done \o undone)

-----------------------------------------------------------------------------
\* SdfLayer::CreateAnonymous, for a command or for a new stage.
Remembered ==
  Range(target) \cup (UNION Range(sublayers)) \cup
  {e.layer : e \in Commands} \cup {e.previous : e \in {c \in Commands : c.kind = "target"}}

NewLayers == Fresh \ Remembered

StageLayers(p) == Used[p] \cup sublayers[p] \cup {session[p]}

\* The root layer of p gets these sublayers, and is edited thereby.
SetSublayers(p, S) ==
  /\ sublayers' = [sublayers EXCEPT ![p] = S]
  /\ IF S = sublayers[p] THEN UNCHANGED <<dirty, silent>>
     ELSE /\ dirty' = dirty \cup {Root[p]}
          /\ silent' = IF Root[p] \in dirty THEN silent ELSE silent \cup {Root[p]}

\* LayerCreateLayer::redoIt; the layer was found, opened or made.
DoCreate(p, layer, sub) ==
  /\ Become(AddCanonical(Current, layer))
  /\ SetSublayers(p, IF sub THEN sublayers[p] \cup {layer} ELSE sublayers[p])
  /\ UNCHANGED <<added, identifier, session, target, prev, sessionName>>

\* LayerCreateLayer::undoIt
UndoCreate(e) ==
  /\ Become(IF e.inserted THEN Removed(Current, e.layer) ELSE Current)
  /\ SetSublayers(e.proxy, IF e.sublayer THEN sublayers[e.proxy] \ {e.layer}
                           ELSE sublayers[e.proxy])
  /\ UNCHANGED <<added, identifier, session, target, prev, sessionName>>

\* UsdStage::SetEditTarget of the stage the command was given.
SetTarget(p, layer) ==
  /\ IF layer \in StageLayers(p) \ {target[p]}
     THEN TargetChanged(p, layer) ELSE UNCHANGED trackVars
  /\ UNCHANGED <<sublayers, silent>>

\* LayerCurrentEditTarget::redoIt.  Mutant of undoIt: it does the same, as the undoIt
\* of LayerSetMuted does.
DoTarget(e) ==
  IF e.onStage THEN SetTarget(e.proxy, e.layer) ELSE UNCHANGED <<trackVars, sublayers, silent>>

\* LayerCurrentEditTarget::undoIt
UndoTarget(e) ==
  IF e.onStage THEN SetTarget(e.proxy, e.previous) ELSE UNCHANGED <<trackVars, sublayers, silent>>

-----------------------------------------------------------------------------
(***************************************************************************)
(* The commands, done for the first time.                                  *)
(***************************************************************************)
Pushed(e) == done' = Append(done, e) /\ undone' = << >>

LayerCreateLayer(p, layer, sub) ==
  /\ p \in Loaded /\ Len(done) < MaxQueue
  /\ layer \in NewLayers \cup Openable[p]
  /\ DoCreate(p, layer, sub)
  /\ Pushed(Created(p, layer, sub))
  /\ UNCHANGED sound

\* The layer is one the manager finds by its name, or one of the stage.
LayerCurrentEditTarget(p, layer) ==
  /\ p \in Loaded /\ Len(done) < MaxQueue
  /\ layer \in Visible \cup StageLayers(p)
  /\ SetTarget(p, layer)
  /\ Pushed(Targeted(p, layer))
  /\ UNCHANGED sound

(***************************************************************************)
(* Undo and redo.                                                          *)
(***************************************************************************)
\* Undoing a creation lets go of a layer that nobody has taken up since and that
\* the command itself added.  The code lets go of others, too.
Sound(e) ==
  e.kind = "create" =>
    /\ e.layer \notin dirty \cup Range(target) \cup Range(prev)
    /\ e.sublayer => ~e.listed

Undo ==
  /\ done # << >>
  /\ LET e == Last(done)
     IN  /\ IF e.kind = "create" THEN UndoCreate(e) ELSE UndoTarget(e)
         /\ sound' = (sound /\ Sound(e))
         /\ undone' = Append(undone, e)
  /\ done' = Front(done)

\* A command that made an anonymous layer makes another, and the handles to the
\* first one expire.
Forgotten(layer, e) ==
  IF e.kind = "target"
  THEN [e EXCEPT !.layer    = IF @ = layer THEN NoLayer ELSE @,
                 !.previous = IF @ = layer THEN NoLayer ELSE @]
  ELSE e

RedoCreate(e) ==
  \E layer \in (IF e.layer \in SessionLayers THEN NewLayers ELSE {e.layer}) :
    /\ DoCreate(e.proxy, layer, e.sublayer)
    /\ done' = Append(done, Created(e.proxy, layer, e.sublayer))
    /\ undone' = [i \in 1..Len(undone) - 1 |->
         IF layer = e.layer THEN undone[i] ELSE Forgotten(e.layer, undone[i])]

RedoTarget(e) ==
  /\ DoTarget(e)
  /\ done' = Append(done, e)
  /\ undone' = Front(undone)

Redo ==
  /\ undone # << >>
  /\ IF Last(undone).kind = "create" THEN RedoCreate(Last(undone)) ELSE RedoTarget(Last(undone))
  /\ UNCHANGED sound

\* A command that cannot be undone.
FlushUndo ==
  /\ done' = << >> /\ undone' = << >>
  /\ UNCHANGED <<trackVars, sublayers, silent, sound>>

(***************************************************************************)
(* What LayerTracking has, beside the commands.                            *)
(***************************************************************************)
OffStage(p, queue) ==
  [i \in 1..Len(queue) |->
     IF queue[i].kind = "target" /\ queue[i].proxy = p
     THEN [queue[i] EXCEPT !.onStage = FALSE] ELSE queue[i]]

StageChanged(p) ==
  /\ \/ LoadStage(p) /\ session'[p] \notin Fresh \ NewLayers
     \/ LoadFails(p)
     \/ DestroyProxy(p)
  /\ done' = OffStage(p, done) /\ undone' = OffStage(p, undone)
  /\ UNCHANGED <<sublayers, silent, sound>>

Retargeted(p, layer) ==
  /\ p \in Loaded /\ layer \in StageLayers(p) \ {target[p]}
  /\ TargetChanged(p, layer)
  /\ UNCHANGED <<sublayers, queueVars, silent, sound>>

Edited(p) ==
  /\ EditStage(p)
  /\ silent' = silent \ {target[p]}
  /\ UNCHANGED <<sublayers, queueVars, sound>>

\* A root layer is saved, not reloaded.
Cleaned(layer) ==
  /\ CleanLayer(layer)
  /\ silent' = silent \ {layer}
  /\ UNCHANGED <<sublayers, queueVars, sound>>

Saved ==
  /\ SerializeAll
  /\ UNCHANGED <<sublayers, queueVars, silent, sound>>

CommandInit ==
  /\ TrackInit
  /\ sublayers = [p \in Proxies |-> {}]
  /\ done = << >> /\ undone = << >>
  /\ silent = {} /\ sound = TRUE

CommandNext ==
  \/ \E p \in Proxies :
       \/ StageChanged(p)
       \/ Edited(p)
       \/ \E layer \in Layers :
            \/ Retargeted(p, layer)
            \/ LayerCurrentEditTarget(p, layer)
            \/ \E sub \in BOOLEAN : LayerCreateLayer(p, layer, sub)
  \/ \E layer \in Layers : Cleaned(layer)
  \/ Saved
  \/ Undo
  \/ Redo
  \/ FlushUndo

CommandSpec == CommandInit /\ [][CommandNext]_commandVars

-----------------------------------------------------------------------------
QueueTypeOK ==
  /\ TrackTypeOK
  /\ sublayers \in [Proxies -> SUBSET Layers]
  /\ silent \subseteq dirty \cap Range(Root)
  /\ sound \in BOOLEAN
  /\ \A e \in Commands :
       /\ e.kind \in {"create", "target"} /\ e.proxy \in Proxies
       /\ e.layer \in Layers \cup {NoLayer}

\* "These layers may then be targeted by an EditTarget for edits and these edits are
\* saved into the maya scene file" (LayerCommands.cpp:1150-1151): saving writes every
\* layer that was edited through a stage and that has a file or is in a stage, however
\* layers were created, targeted, undone and redone, as long as every undo was sound.
SavesTargets ==
  [][SerializeAll /\ sound =>
       dirty \ (silent \cup (SessionLayers \ UNION {StageLayers(p) : p \in Loaded}))
         \subseteq Visible']_commandVars

\* Undo gives a stage the edit target it had, if it still has the one the command
\* set: what was its layer then is its layer now, whatever was created, undone and
\* redone in between.
UndoRestoresTarget ==
  [][Undo /\ sound =>
       LET e == Last(done)
       IN  e.kind = "target" /\ e.onStage /\ target[e.proxy] = e.layer /\ e.previous # NoLayer
             => target'[e.proxy] = e.previous]_commandVars

=============================================================================
