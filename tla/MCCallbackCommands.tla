------------------------ MODULE MCCallbackCommands ------------------------
(* Small instances of CallbackCommands for TLC. *)
EXTENDS CallbackCommands

CONSTANTS afterNew, update, shape, t1, t2   \* names, a node and tags

MCMayaNames == <<afterNew>>
MCParents   == {InvalidId}
MCOneType   == {USDMayaType}
MCZeroOne   == {0, 1}
MCNoReads   == {}

Flag(node, event, tag, weight) ==
  [node |-> node, event |-> event, tag |-> tag, weight |-> weight]
FirstId(e, t) == [event |-> e, type |-> t, num |-> 1]
Args(flags, delete) == [flags |-> flags, delete |-> delete]

\* One flag; two flags for one event, with the same tag and with two; a new
\* event name; a flag on a node; two flags for what may be one event; a flag with
\* a deletion.
MCArgs ==
  {Args(<<Flag(NoOwner, afterNew, t1, 0)>>, << >>),
   Args(<<Flag(NoOwner, afterNew, t2, 1)>>, << >>),
   Args(<<Flag(NoOwner, afterNew, t1, 1), Flag(NoOwner, afterNew, t1, 0)>>, << >>),
   Args(<<Flag(NoOwner, afterNew, t1, 1), Flag(NoOwner, afterNew, t2, 1)>>, << >>),
   Args(<<Flag(NoOwner, update, t1, 0)>>, << >>),
   Args(<<Flag(NoOwner, afterNew, t1, 1), Flag(NoOwner, update, t1, 0)>>, << >>),
   Args(<<Flag(shape, update, t1, 0)>>, << >>),
   Args(<<Flag(NoOwner, update, t1, 0), Flag(shape, update, t2, 0)>>, << >>),
   Args(<<Flag(NoOwner, afterNew, t2, 0)>>, <<FirstId(1, MayaType)>>),
   Args(<<Flag(NoOwner, update, t1, 1)>>, <<FirstId(1, MayaType)>>)}

\* Histories of plain commands are followed furthest, those after the node is gone least.
MCBound ==
  Len(queue) <= CASE DOMAIN nodeEvents = {} -> 1 [] plain -> 4 [] OTHER -> 2

MCEventArgs ==
  [node : {NoOwner, shape}, name : {update}, parent : {InvalidId}, deleting : BOOLEAN]
=============================================================================
