------------------------- MODULE CallbackCommands -------------------------
(***************************************************************************)
(* The undoable commands AL_usdmaya_Callback, AL_usdmaya_DeleteCallbacks   *)
(* and AL_usdmaya_Event over the event system, on Maya's undo queue.       *)
(*                                                                         *)
(*   source  plugin/al/lib/AL_USDMaya/AL/usdmaya/cmds/EventCommand.cpp     *)
(*                                                                         *)
(* A callback command keeps two lists: the Callback objects to insert and  *)
(* the ids to delete.  doIt, redoIt and undoIt all run the same function,  *)
(* which does both and swaps the lists for what undoes them.               *)
(***************************************************************************)
EXTENDS NodeEvents

CONSTANTS
  CommandArgs,  \* argument lists of AL_usdmaya_Callback: what its flags say
  EventArgs,    \* argument lists of AL_usdmaya_Event
  MaxQueue      \* bound: commands on the undo queue

ASSUME ArgsAssumption ==
  /\ CommandArgs \subseteq
       [flags  : Seq([node : Owners, event : Names, tag : Tags, weight : Weights]),
        delete : Seq(CallbackIds)]
  /\ EventArgs \subseteq
       [node : Owners, name : Names, parent : Parents, deleting : BOOLEAN]

VARIABLES
  queue,   \* the commands on Maya's undo queue, oldest first
  done,    \* how many of them are done; the others were undone
  plain    \* whether there were plain callback commands only

commandVars == <<nodeVars, queue, done, plain>>

\* No two callbacks that a command has built are for one event.
Plain(built) ==
  \A j, k \in 1..Len(built) : built[j].id.event = built[k].id.event => j = k

\* All the callbacks that are stored, by event.
Stored(evs) ==
  UNION {{<<evs[k].id, evs[k].cbs[i]>> : i \in 1..Len(evs[k].cbs)} : k \in 1..Len(evs)}

(***************************************************************************)
(* BaseCallbackCommand::redoItImplementation.  An id nothing is registered *)
(* under leaves an EmptyCallback in its slot, an event that is gone leaves *)
(* a zero id; either is carried along and has no effect later.             *)
(***************************************************************************)
\* Mutant: the handler is not told of a callback taken out.
TakeOutUntold(st, id) ==
  IF HasCallback(st.events, id)
  THEN [st EXCEPT !.events = WithoutCallback(@, id),
                  !.insert = Append(@, FoundCallback(st.events, id))]
  ELSE [st EXCEPT !.insert = Append(@, EmptyCallback)]

TakeOut(st, id) ==
  IF HasCallback(st.events, id)
  THEN [events |-> WithoutCallback(st.events, id),
        maya   |-> OnCallbackDestroyed(st.maya, id),
        insert |-> Append(st.insert, FoundCallback(st.events, id)),
        delete |-> st.delete]
  ELSE [st EXCEPT !.insert = Append(@, EmptyCallback)]

\* Mutant: what was put in is not noted for the undo.
PutInForgotten(st, cb) ==
  IF HasEvent(st.events, cb.id.event)
  THEN [st EXCEPT !.events = AfterRegisterInfo(@, cb),
                  !.maya   = OnCallbackCreated(@, cb.id)]
  ELSE st

PutIn(st, cb) ==
  IF HasEvent(st.events, cb.id.event)
  THEN [events |-> AfterRegisterInfo(st.events, cb),
        maya   |-> OnCallbackCreated(st.maya, cb.id),
        insert |-> st.insert,
        delete |-> Append(st.delete, cb.id)]
  ELSE [st EXCEPT !.delete = Append(@, InvalidId)]

RedoItImplementation(evs, m, insert, delete) ==
  LET start == [events |-> evs, maya |-> m, insert |-> << >>, delete |-> << >>]
      taken == FoldLeft(TakeOut, start, delete)
  IN  FoldLeft(PutIn, taken, insert)

(***************************************************************************)
(* Callback::doIt builds a callback for each -pe, -me (node = NoOwner) and *)
(* -pne, -mne flag.  What it builds is not stored before the last flag has *)
(* been read, so two flags for one event get the same id.                  *)
(***************************************************************************)
BuildFlag(st, flag) ==
  LET evs == IF flag.node = NoOwner THEN EventsForBuild(st.events, flag.event)
             ELSE st.events
      id  == IF flag.node = NoOwner THEN evs[FirstNamed(evs, flag.event)].id
             ELSE IdOnNode(flag.node, flag.event)
      cb  == IF HasEvent(evs, id)
             THEN BuiltScript(evs[LowerBound(evs, id)], flag.tag, flag.weight)
             ELSE EmptyCallback
  IN  [events |-> evs,
       insert |-> IF cb = EmptyCallback THEN st.insert ELSE Append(st.insert, cb)]

Build(flags) ==
  FoldLeft(BuildFlag, [events |-> events, insert |-> << >>], flags)

\* A new command drops what was undone before it.
Push(cmd) ==
  /\ done < MaxQueue
  /\ queue' = Append(SubSeq(queue, 1, done), cmd)
  /\ done' = done + 1

RunLists(evs, insert, delete) ==
  LET st == RedoItImplementation(evs, maya, insert, delete)
  IN  /\ events' = st.events
      /\ maya' = st.maya
      /\ Len(events') <= MaxEvents
      /\ \A e \in DOMAIN maya' : maya'[e].refCount <= MaxRef
      /\ UNCHANGED <<infos, nodeEvents>>
      /\ Push([kind |-> "callback", insert |-> st.insert, delete |-> st.delete,
               before |-> Stored(events), after |-> Stored(st.events)])

CallbackDoIt(args) ==
  /\ \A k \in 1..Len(args.flags) : args.flags[k].node # NoOwner =>
       args.flags[k].node \in DOMAIN nodeEvents
  /\ LET built == Build(args.flags)
     IN  /\ \A k \in 1..Len(built.insert) : built.insert[k].id.num <= MaxNum
         /\ RunLists(built.events, built.insert, args.delete)
         /\ plain' = (plain /\ Plain(built.insert))

DeleteCallbacksDoIt(ids) == RunLists(events, << >>, ids) /\ UNCHANGED plain

(***************************************************************************)
(* Event::doIt checks that the event is not there (or is, with -d), on the *)
(* node or by name; redoIt registers or unregisters and turns m_deleting.  *)
(***************************************************************************)
EventRedoIt(node, name, parent, deleting) ==
  IF node # NoOwner
  THEN IF deleting
       THEN IF name \in DOMAIN nodeEvents[node]
            THEN NodeUnregisterEvent(node, name)
            ELSE UNCHANGED nodeVars
       ELSE IF RegisteredId(events, name, node, parent) # 0
            THEN NodeRegisterEvent(node, name, UserType, parent)
            ELSE UNCHANGED nodeVars
  ELSE /\ UNCHANGED nodeEvents
       /\ IF deleting
          THEN IF Unowned(events, name) # {}
               THEN UnregisterNamedEvent(name)
               ELSE UNCHANGED vars
          ELSE IF RegisteredId(events, name, NoOwner, parent) # 0
               THEN RegisterEvent(name, UserType, NoOwner, parent)
               ELSE UNCHANGED vars

EventDoIt(node, name, parent, deleting) ==
  /\ IF node # NoOwner
     THEN node \in DOMAIN nodeEvents /\ (deleting <=> IdOnNode(node, name) # 0)
     ELSE deleting <=> HasName(events, name)
  /\ EventRedoIt(node, name, parent, deleting)
  /\ Push([kind |-> "event", node |-> node, name |-> name, parent |-> parent,
           deleting |-> ~deleting,
           before |-> Stored(events), after |-> Stored(events')])
  /\ plain' = FALSE

(***************************************************************************)
(* Undo runs the newest command that is done, redo the oldest that is not. *)
(***************************************************************************)
Rerun(k) ==
  IF queue[k].kind = "callback"
  THEN LET st == RedoItImplementation(events, maya, queue[k].insert, queue[k].delete)
       IN  /\ events' = st.events
           /\ maya' = st.maya
           /\ \A e \in DOMAIN maya' : maya'[e].refCount <= MaxRef
           /\ queue' = [queue EXCEPT ![k].insert = st.insert, ![k].delete = st.delete]
           /\ UNCHANGED <<infos, nodeEvents>>
  ELSE /\ EventRedoIt(queue[k].node, queue[k].name, queue[k].parent, queue[k].deleting)
       /\ queue' = [queue EXCEPT ![k].deleting = ~@]

UndoIt ==
  /\ done > 0
  /\ Rerun(done)
  /\ done' = done - 1
  /\ UNCHANGED plain

RedoIt ==
  /\ done < Len(queue)
  /\ Rerun(done + 1)
  /\ done' = done + 1
  /\ UNCHANGED plain

\* A node that was deleted goes when no command is left that would bring it back.
DestroyNode(n) ==
  /\ NodeDestroyed(n)
  /\ queue' = << >> /\ done' = 0
  /\ UNCHANGED plain

-----------------------------------------------------------------------------
CommandInit == NodeInit /\ queue = << >> /\ done = 0 /\ plain = TRUE

CommandNext ==
  \/ \E args \in CommandArgs : CallbackDoIt(args)
  \/ \E id \in StoredIds : DeleteCallbacksDoIt(<<id>>)
  \/ \E args \in EventArgs : EventDoIt(args.node, args.name, args.parent, args.deleting)
  \/ UndoIt
  \/ RedoIt
  \/ \E n \in Nodes : DestroyNode(n)

CommandSpec == CommandInit /\ [][CommandNext]_commandVars

-----------------------------------------------------------------------------
CommandTypeOK ==
  /\ NodeTypeOK
  /\ done \in 0..Len(queue) /\ plain \in BOOLEAN
  /\ \A k \in 1..Len(queue) : queue[k].kind = "callback" =>
       /\ queue[k].insert \in Seq(Callbacks)
       /\ queue[k].delete \in Seq(CallbackIds)

\* Two callbacks never have one id, and a reference is counted for each callback,
\* through all the undo and redo there can be.  Two flags of one command for the
\* same event break it, for they build one id (EventCommand.cpp:265-330).
PlainUnique == plain => UniqueIds
PlainExact  == plain => CountExact

\* "redoItImplementation again will undo the previous action"
\* (EventCommand.h:37): undo leaves the callbacks that were stored before the
\* command, redo those that were stored after it, however many commands in
\* between were done and undone.
UndoRestores ==
  [][plain' =>
       /\ done' < done /\ queue' # << >> => Stored(events') = queue[done].before
       /\ done' > done => Stored(events') = queue'[done'].after ]_commandVars

=============================================================================
