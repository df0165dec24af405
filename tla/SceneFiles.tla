----------------------------- MODULE SceneFiles -----------------------------
(***************************************************************************)
(* Saving and reading Maya scenes: what the plug-in's file callbacks do    *)
(* with the ProxyShapes, the LayerManager node and the layers with edits,  *)
(* from one session of Maya to the next.                                   *)
(*                                                                         *)
(*   source  plugin/al/lib/AL_USDMaya/AL/usdmaya/Global.cpp (preFileRead,  *)
(*           postFileRead, _preFileSave, postFileSave), nodes/             *)
(*           LayerManager.cpp (the `layers` attribute), nodes/             *)
(*           ProxyShape.cpp (onAttributeChanged)                           *)
(*                                                                         *)
(* Reads nest: a scene reads the scenes it references before its own       *)
(* nodes.  Maya may load the plug-in in the middle of a read, when the     *)
(* callback before that read was not there to be called.  Maya runs all of *)
(* it on one thread, and may end at any time.                              *)
(***************************************************************************)
EXTENDS LayerTracking

CONSTANTS
  Referenced, \* the ProxyShapes that come from scenes this one references
  Texts,      \* what layers may say
  Blank,      \* what a new layer says
  MaxDepth    \* bound: reads nested in one another

ASSUME TextAssumption == Blank \in Texts
ASSUME ReferencedAssumption == Referenced \subseteq Proxies

VARIABLES
  text,       \* what each layer says (external: SdfLayer)
  disk,       \* what the file of each layer that has one says
  shapes,     \* the ProxyShape nodes of the scene
  listening,  \* those with an attribute changed callback
  unloaded,   \* m_unloadedProxyShapes
  depth,      \* readDepth
  manager,    \* whether the scene has a LayerManager node of its own ...
  attrs,      \* ... and its `layers` attribute
  plugin,     \* whether the plug-in is loaded
  reads,      \* the reads in progress (external: Maya)
  pulling,    \* whether postFileRead is loading the stages of unloaded
  file        \* the scene file

sceneVars ==
  <<trackVars, text, disk, shapes, listening, unloaded, depth, manager, attrs,
    plugin, reads, pulling, file>>

nodeVars == <<shapes, listening, unloaded, depth, plugin, reads, pulling>>

Anonymous(layer) == layer \in SessionLayers

Entry(layer) ==
  [id |-> identifier[layer], says |-> text[layer], anonymous |-> Anonymous(layer)]

\* A ghost of the file: what the manager found by a shape's sessionLayerName.
NamedTexts(p) == {text[layer] : layer \in SavedSession(p)}

NewSessions ==
  {layer \in Fresh : identifier[layer] \notin Range(file.names) \cup {e.id : e \in file.entries}}

EmptyFile ==
  [shapes |-> {}, live |-> {}, names |-> [p \in Proxies |-> NoId],
   entries |-> {}, found |-> [p \in Proxies |-> {}]]

Idle == plugin /\ reads = << >> /\ ~pulling

-----------------------------------------------------------------------------
(***************************************************************************)
(* The user, between reads.                                                *)
(***************************************************************************)
LoadPlugin ==
  /\ ~plugin /\ reads = << >>
  /\ plugin' = TRUE
  /\ UNCHANGED <<trackVars, text, disk, shapes, listening, unloaded, depth, manager,
                 attrs, reads, pulling, file>>

\* A session layer made for a stage is none that a file speaks of.
LoadNewStage(p) == LoadStage(p) /\ session'[p] \notin Fresh \ NewSessions

LoadStageOfShape(p) ==
  /\ LoadNewStage(p) \/ LoadFails(p)
  /\ manager' = (manager \/ DOMAIN layerToIds' # {})
  /\ UNCHANGED <<text, disk, attrs, file, unloaded, depth, plugin, reads, pulling>>

\* postConstructor, and the filePath given to every new shape.
CreateShape(p) ==
  /\ Idle /\ p \notin shapes \cup Referenced
  /\ shapes' = shapes \cup {p}
  /\ listening' = listening \cup {p}
  /\ LoadStageOfShape(p)

\* onAttributeChanged: another filePath, or the same again.
SetFilePath(p) ==
  /\ Idle /\ p \in listening
  /\ LoadStageOfShape(p)
  /\ UNCHANGED <<shapes, listening>>

DeleteShape(p) ==
  /\ Idle /\ p \in shapes \ Referenced
  /\ DestroyProxy(p)
  /\ shapes' = shapes \ {p}
  /\ listening' = listening \ {p}
  /\ UNCHANGED <<text, disk, unloaded, depth, manager, attrs, plugin, reads, pulling, file>>

\* computeOutStageData: whoever asks for a stage that is not there tries again.
ComputeStage(p) ==
  /\ Idle /\ p \in shapes \ Loaded
  /\ LoadStageOfShape(p)
  /\ UNCHANGED <<shapes, listening>>

Retarget(p, layer) ==
  /\ Idle
  /\ SetEditTarget(p, layer)
  /\ manager' = (manager \/ DOMAIN layerToIds' # {})
  /\ UNCHANGED <<text, disk, attrs, file, nodeVars>>

EditText(p, says) ==
  /\ Idle
  /\ EditStage(p)
  /\ says # text[target[p]]
  /\ text' = [text EXCEPT ![target[p]] = says]
  /\ UNCHANGED <<disk, manager, attrs, file, nodeVars>>

\* SdfLayer::Save and Reload; an anonymous layer has nothing to reload.
SaveLayer(layer) ==
  /\ Idle /\ layer \in dirty /\ ~Anonymous(layer)
  /\ CleanLayer(layer)
  /\ disk' = [disk EXCEPT ![layer] = text[layer]]
  /\ UNCHANGED <<text, manager, attrs, file, nodeVars>>

ReloadLayer(layer) ==
  /\ Idle /\ layer \in dirty
  /\ CleanLayer(layer)
  /\ text' = [text EXCEPT ![layer] = IF Anonymous(layer) THEN Blank ELSE disk[layer]]
  /\ UNCHANGED <<disk, manager, attrs, file, nodeVars>>

(***************************************************************************)
(* Saving: preFileSave, Maya writes the nodes, postFileSave.               *)
(***************************************************************************)
\* Mutant: the attribute keeps what was saved.
ClearedNot(entries) == entries

\* clearSerialisationAttributes
Cleared(entries) == {}

\* populateSerialisationAttributes, for a scene with a ProxyShape.
Populated == IF shapes = {} THEN attrs ELSE {Entry(layer) : layer \in Visible'}

SaveScene ==
  /\ Idle
  /\ SerializeAll
  /\ manager' = (manager \/ shapes # {})
  /\ file' = [shapes |-> shapes \ Referenced, live |-> Loaded, names |-> sessionName',
              entries |-> Populated,
              found |-> [p \in Proxies |-> {text[layer] : layer \in SavedSession(p)'}]]
  /\ attrs' = Cleared(Populated)
  /\ UNCHANGED <<text, disk, nodeVars>>

(***************************************************************************)
(* Maya clears the scene, on file > new and before it opens a scene.  The  *)
(* nodes go.  A layer goes when its last stage does, but the stage caches  *)
(* may hold on to some ("they don't actually do anything of the sort",     *)
(* Global.cpp:308).                                                        *)
(***************************************************************************)
ClearScene(kept) ==
  /\ Become(Database(<< >>, << >>))
  /\ session' = [p \in Proxies |-> NoLayer]
  /\ target' = [p \in Proxies |-> NoLayer]
  /\ prev' = [p \in Proxies |-> NoLayer]
  /\ sessionName' = [p \in Proxies |-> NoId]
  /\ dirty' = kept
  /\ text' = [layer \in Layers |-> IF layer \in kept THEN text[layer]
                                   ELSE IF Anonymous(layer) THEN Blank ELSE disk[layer]]
  /\ shapes' = {} /\ manager' = FALSE /\ attrs' = {}
  /\ UNCHANGED <<added, identifier, disk, file>>

NewScene(kept) ==
  /\ Idle
  /\ ClearScene(kept)
  /\ listening' = {}
  /\ UNCHANGED <<unloaded, depth, plugin, reads, pulling>>

\* Maya ends, by a crash or not, and starts without the plug-in.
Restart ==
  /\ ClearScene({})
  /\ listening' = {} /\ unloaded' = << >> /\ depth' = 0
  /\ plugin' = FALSE /\ reads' = << >> /\ pulling' = FALSE

(***************************************************************************)
(* Reading.  Maya announces a read to the plug-in if it is loaded.         *)
(***************************************************************************)
\* preFileRead: the outermost read takes the attribute callbacks off.
PreFileRead(were) ==
  IF plugin
  THEN /\ listening' = IF depth = 0 THEN {} ELSE were
       /\ depth' = depth + 1
  ELSE /\ listening' = were
       /\ UNCHANGED depth

\* `early`, a ghost: postFileRead loaded the stages before this read was over.
Read(kind, S, names, entries) ==
  [kind |-> kind, shapes |-> S, names |-> names, entries |-> entries, begun |-> FALSE,
   early |-> FALSE]

OpenScene(kept) ==
  /\ reads = << >> /\ ~pulling
  /\ ClearScene(kept)
  /\ PreFileRead({})
  /\ reads' = <<Read("open", file.shapes, file.names, file.entries)>>
  /\ UNCHANGED <<unloaded, plugin, pulling>>

\* The names of the shapes in the scene are taken.
ImportScene ==
  /\ Idle
  /\ file.shapes \cap shapes = {}
  /\ PreFileRead(listening)
  /\ reads' = <<Read("import", file.shapes, file.names, file.entries)>>
  /\ UNCHANGED <<trackVars, text, disk, shapes, unloaded, manager, attrs, plugin, pulling, file>>

\* A referenced scene is read on its own or before the nodes of the scene that has
\* it, whose edits of its nodes then apply.  Its LayerManager is never this scene's.
ReadReference(S) ==
  /\ S \cap (shapes \cup UNION {reads[k].shapes : k \in 1..Len(reads)}) = {}
  /\ \/ /\ Idle
        /\ reads' = <<Read("reference", S, sessionName, {})>>
     \/ /\ reads # << >> /\ ~pulling /\ Len(reads) < MaxDepth /\ ~Last(reads).begun
        /\ reads' = Append(reads, Read("reference", S, Last(reads).names, {}))
  /\ PreFileRead(listening)
  /\ UNCHANGED <<trackVars, text, disk, shapes, unloaded, manager, attrs, plugin, pulling, file>>

\* A node is made and its attributes are set, filePath and, if it has one,
\* assetResolverConfig too; the stage is left for later.
ReadShape(p) ==
  /\ reads # << >> /\ ~pulling /\ p \in Last(reads).shapes
  /\ reads' = [reads EXCEPT ![Len(reads)].shapes = @ \ {p}, ![Len(reads)].begun = TRUE]
  /\ shapes' = shapes \cup {p}
  /\ listening' = listening \cup {p}
  /\ sessionName' = [sessionName EXCEPT ![p] = Last(reads).names[p]]
  /\ unloaded' \in {Append(unloaded, p), unloaded \o <<p, p>>}
  /\ plugin' = TRUE
  /\ UNCHANGED <<vars, session, target, prev, text, disk, depth, manager, attrs, pulling, file>>

\* conditionalCreator refuses a second LayerManager.
ReadManager ==
  /\ reads # << >> /\ ~pulling /\ Last(reads).entries # {}
  /\ reads' = [reads EXCEPT ![Len(reads)].entries = {}, ![Len(reads)].begun = TRUE]
  /\ attrs' = IF manager THEN attrs ELSE Last(reads).entries
  /\ manager' = TRUE
  /\ plugin' = TRUE
  /\ UNCHANGED <<trackVars, text, disk, shapes, listening, unloaded, depth, pulling, file>>

\* Mutant: the layers go in under their new identifiers only.
AddedCanonical(db, layer, id) == AddCanonical(db, layer)

AddedAs(db, layer, id) ==
  LET known == AddCanonical(db, layer)
  IN  IF id = identifier[layer] THEN known ELSE AddKey(known, layer, id)

\* loadAllLayers: an anonymous layer comes back as a new one, another is found or
\* made; each takes the text that was saved, and keeps its old identifier.
LoadAllLayers ==
  \E layerOf \in [attrs -> NewSessions \cup (Layers \ SessionLayers)] :
    /\ \A e, f \in attrs : layerOf[e] = layerOf[f] => e = f
    /\ \A e \in attrs : IF e.anonymous THEN Anonymous(layerOf[e])
                        ELSE identifier[layerOf[e]] = e.id
    /\ Become(FoldSet(LAMBDA e, db : AddedAs(db, layerOf[e], e.id), Current, attrs))
    /\ text' = [layer \in Layers |->
                  IF layer \in Range(layerOf)
                  THEN (CHOOSE e \in attrs : layerOf[e] = layer).says ELSE text[layer]]
    /\ dirty' = dirty \cup Range(layerOf)
    /\ attrs' = Cleared(attrs)

\* Mutant: the depth is not put right when a read was not announced.
OldDepthWrong == depth

\* A read that was not announced counts all the same.
OldDepth == IF depth = 0 THEN 1 ELSE depth

\* postFileRead
PostFileRead ==
  /\ reads # << >> /\ ~pulling /\ plugin
  /\ Last(reads).shapes = {} /\ Last(reads).entries = {}
  /\ reads' = [k \in 1..Len(reads) - 1 |->
                 [reads[k] EXCEPT !.early = @ \/ OldDepth = 1]]
  /\ depth' = OldDepth - 1
  /\ listening' = IF depth = 0 THEN {} ELSE listening
  /\ IF OldDepth = 1
     THEN /\ IF manager THEN LoadAllLayers
             ELSE UNCHANGED <<layerToIds, idToLayer, text, dirty, attrs>>
          /\ pulling' = TRUE
     ELSE UNCHANGED <<layerToIds, idToLayer, text, dirty, attrs, pulling>>
  /\ UNCHANGED <<added, identifier, session, target, prev, sessionName, disk, shapes,
                 unloaded, manager, plugin, file>>

\* A read without the plug-in, of a scene that does not need it.
UnheardRead ==
  /\ reads # << >> /\ ~pulling /\ ~plugin
  /\ Last(reads).shapes = {} /\ Last(reads).entries = {}
  /\ reads' = Front(reads)
  /\ UNCHANGED <<trackVars, text, disk, shapes, listening, unloaded, depth, manager, attrs,
                 plugin, pulling, file>>

\* The rest of postFileRead: every shape in unloaded that is alive loads its stage
\* and gets its callback.
PullStage ==
  /\ pulling /\ unloaded # << >>
  /\ LET p == Head(unloaded)
     IN  /\ LoadNewStage(p) \/ LoadFails(p)
         /\ listening' = listening \cup {p}
  /\ manager' = (manager \/ DOMAIN layerToIds' # {})
  /\ unloaded' = Tail(unloaded)
  /\ UNCHANGED <<text, disk, shapes, depth, attrs, plugin, reads, pulling, file>>

Pulled ==
  /\ pulling /\ unloaded = << >>
  /\ pulling' = FALSE
  /\ UNCHANGED <<trackVars, text, disk, shapes, listening, unloaded, depth, manager, attrs,
                 plugin, reads, file>>

-----------------------------------------------------------------------------
SceneInit ==
  /\ TrackInit
  /\ text = [layer \in Layers |-> Blank] /\ disk = [layer \in Layers |-> Blank]
  /\ shapes = {} /\ listening = {} /\ unloaded = << >> /\ depth = 0
  /\ manager = FALSE /\ attrs = {}
  /\ plugin = FALSE /\ reads = << >> /\ pulling = FALSE
  /\ file = EmptyFile

UserNext ==
  \/ LoadPlugin
  \/ \E p \in Proxies :
       \/ CreateShape(p)
       \/ DeleteShape(p)
       \/ SetFilePath(p)
       \/ ComputeStage(p)
       \/ \E layer \in Layers : Retarget(p, layer)
       \/ \E says \in Texts : EditText(p, says)
  \/ \E layer \in Layers : SaveLayer(layer) \/ ReloadLayer(layer)
  \/ SaveScene

ReadNext ==
  \/ \E kept \in SUBSET (dirty \ SessionLayers) : NewScene(kept) \/ OpenScene(kept)
  \/ ImportScene
  \/ \E S \in SUBSET Referenced : ReadReference(S)
  \/ \E p \in Proxies : ReadShape(p)
  \/ ReadManager
  \/ PostFileRead
  \/ UnheardRead
  \/ PullStage
  \/ Pulled
  \/ Restart

SceneNext == UserNext \/ ReadNext

SceneSpec == SceneInit /\ [][SceneNext]_sceneVars

-----------------------------------------------------------------------------
SceneTypeOK ==
  /\ TrackTypeOK
  /\ text \in [Layers -> Texts] /\ disk \in [Layers -> Texts]
  /\ shapes \subseteq Proxies /\ listening \subseteq shapes
  /\ Range(unloaded) \subseteq shapes
  /\ depth \in 0..Len(reads)
  /\ manager \in BOOLEAN /\ plugin \in BOOLEAN /\ pulling \in BOOLEAN
  /\ (DOMAIN layerToIds # {} \/ attrs # {}) => manager

\* "we only want to run postFileRead after once per top-level file read
\* operation" (Global.cpp:57-59), and "make sure we don't decrement past 0":
\* however reads nest, and whichever of them were announced, in the end the depth
\* is zero, each stage was pulled and the attribute is as empty as at all other
\* times (LayerManager.h:335-341).
ReadsSettle ==
  reads = << >> /\ ~pulling => depth = 0 /\ unloaded = << >> /\ attrs = {}

Opened == PostFileRead /\ Len(reads) = 1 /\ reads[1].kind = "open"

NameLeadsTo(p, texts) == {text'[layer] : layer \in SavedSession(p)'} = texts

\* A scene that is opened has the edits it was saved with: each layer that has a
\* file says what it said and will be saved again, and the name of the session
\* layer of each shape of its own that had a stage leads to the text it led to, though the
\* layer is another, after any number of saves, reads, crashes and sessions; unless
\* Maya loaded the plug-in for a reference of the scene.
RoundTrip ==
  [][Opened /\ ~reads[1].early =>
       /\ \A p \in file.live \cap file.shapes : NameLeadsTo(p, file.found[p])
       /\ \A e \in file.entries : e.anonymous \/
            \E layer \in Visible' : identifier[layer] = e.id /\ text'[layer] = e.says]_sceneVars

\* No read overwrites a layer with edits that the manager keeps: the attribute is
\* never read twice, nor after it went out of date.
EditsSurviveReads ==
  [][PostFileRead => \A layer \in Visible : text'[layer] = text[layer]]_sceneVars

=============================================================================
