----------------------------- MODULE IdeBridge -----------------------------
(***************************************************************************)
(* How Iris and the Theia editor embedded in it keep each other informed:   *)
(* the contribution in the frontend of Theia, the bridge it calls over      *)
(* HTTP, and the page of Iris that is arranged by what the bridge is told.  *)
(*                                                                         *)
(* The frontend does not wait for one POST before the next, so they arrive  *)
(* in any order; what fails is ignored and not sent again.  The bridge      *)
(* serves one request at a time in a thread of its own, and hands changes   *)
(* over to the thread of the window through a queue of signals.             *)
(***************************************************************************)
EXTENDS Naturals, Sequences, FiniteSets

CONSTANTS
    Files,
    Secret,      \* files whose names is_context_attachment_allowed refuses
    Languages,
    LanguageOf,  \* LanguageOf[f]: the language of file f
    None,
    MaxEvents,   \* bound on what happens in the editor
    MaxMoves,    \* bound on how often the user enters and leaves the page
    MaxCommands, \* bound on the commands queued
    MaxLost      \* bound on requests and answers lost

VARIABLES
    frame,     \* the frontend of Theia: never loaded, loading or loaded
    editors,   \* editorManager.all
    current,   \* editorManager.currentEditor; it may have been closed already
    signature, \* lastEditorSignature
    states,    \* POSTs of editor states on their way, numbered
    contexts,  \* POSTs of contexts on their way, numbered
    answers,   \* answers to GET /commands the frontend has not worked off
    sentStates, sentContexts,  \* history: how many have been sent
    state,     \* IdeBridgeClient._editor_state
    context,   \* IdeBridgeClient._context, the file it is about
    pending,   \* IdeBridgeClient._pending_commands
    lastState, lastContext,  \* history: the number of the last one applied
    signals,   \* editor_state_changed signals the window has not handled
    mode,      \* MainWindow._workspace_mode: the IDE page, or another one
    page,      \* IdeWorkspacePage
    fresh,     \* history: the page was not left or entered since a signal
    opened,    \* history: opened[c]: how often command c was carried out
    queued,    \* history: how many commands were queued
    shown,     \* history: files that have been current
    spent      \* how much of the bounds has been used

theia == <<frame, editors, current, signature>>
wire  == <<states, contexts, sentStates, sentContexts>>
iris  == <<state, context, pending, lastState, lastContext, signals>>
qt    == <<mode, page, fresh>>
asked == <<answers, opened, queued>>
vars  == <<theia, wire, iris, qt, asked, shown, spent>>

Maybe(S) == S \cup {None}

EditorState == [open : BOOLEAN, uri : Maybe(Files), language : Maybe(Languages)]
NoEditor    == [open |-> FALSE, uri |-> None, language |-> None]
Commands    == 1 .. MaxCommands

ASSUME IdeBridgeAssumption ==
    /\ Secret \subseteq Files
    /\ None \notin Files \cup Languages \cup EditorState
    /\ LanguageOf \in [Files -> Languages]
    /\ MaxEvents \in Nat /\ MaxMoves \in Nat /\ MaxCommands \in Nat /\ MaxLost \in Nat

\* A command opens a file; it is told apart by its number.
Command == [id : Commands, uri : Files]

TypeOK ==
    /\ frame \in {"none", "loading", "loaded"}
    /\ editors \subseteq Files /\ current \in Maybe(Files)
    /\ signature \in Maybe(EditorState)
    /\ states \subseteq [n : 1 .. sentStates, state : EditorState]
    /\ contexts \subseteq [n : 1 .. sentContexts, uri : Maybe(Files)]
    /\ answers \subseteq Seq(Command) \ {<<>>}
    /\ sentStates \in Nat /\ sentContexts \in Nat
    /\ state \in EditorState /\ context \in Maybe(Files)
    /\ pending \in Seq(Command)
    /\ lastState \in 0 .. sentStates /\ lastContext \in 0 .. sentContexts
    /\ signals \in Seq(EditorState)
    /\ mode \in {"ide", "other"}
    /\ page \in [open : BOOLEAN, folder : BOOLEAN, welcome : BOOLEAN,
                 label : Maybe(Files)]
    /\ fresh \in BOOLEAN
    /\ opened \in [Commands -> Nat] /\ queued \in 0 .. MaxCommands
    /\ shown \subseteq Files
    /\ spent \in [events : 0 .. MaxEvents, moves : 0 .. MaxMoves, lost : 0 .. MaxLost]

Init ==
    /\ frame = "none" /\ editors = {} /\ current = None /\ signature = None
    /\ states = {} /\ contexts = {} /\ answers = {}
    /\ sentStates = 0 /\ sentContexts = 0 /\ lastState = 0 /\ lastContext = 0
    /\ state = NoEditor /\ context = None /\ pending = <<>> /\ signals = <<>>
    /\ mode = "other" /\ fresh = FALSE
    /\ page = [open |-> FALSE, folder |-> FALSE, welcome |-> TRUE, label |-> None]
    /\ opened = [c \in Commands |-> 0] /\ queued = 0
    /\ shown = {}
    /\ spent = [events |-> 0, moves |-> 0, lost |-> 0]

Spend(what, bound) ==
    /\ spent[what] < bound
    /\ spent' = [spent EXCEPT ![what] = @ + 1]
-----------------------------------------------------------------------------
(***************************************************************************)
(* The editor and the contribution.                                         *)
(***************************************************************************)
EditorNow ==
    [open     |-> editors # {},
     uri      |-> IF editors = {} THEN None ELSE current,
     language |-> IF current = None THEN None ELSE LanguageOf[current]]

\* What the contribution sees by now is sent when it differs from what was
\* sent last, whether or not that arrived.
PushEditorState ==
    /\ signature' = EditorNow'
    /\ IF EditorNow' = signature
       THEN UNCHANGED <<states, sentStates>>
       ELSE /\ sentStates' = sentStates + 1
            /\ states' = states \cup {[n |-> sentStates', state |-> EditorNow']}

PushContext ==
    /\ sentContexts' = sentContexts + 1
    /\ contexts' = contexts \cup {[n |-> sentContexts', uri |-> current']}

\* onStart, in a frontend that has just been loaded.
OnStart ==
    /\ frame = "loading"
    /\ frame' = "loaded" /\ UNCHANGED <<editors, current>>
    /\ PushContext /\ PushEditorState
    /\ UNCHANGED <<iris, qt, asked, shown, spent>>

EditorOnly == UNCHANGED <<frame, iris, qt>>

\* onCreated; the editor becomes the current one in a step of its own.
Create(f) ==
    /\ frame = "loaded"
    /\ editors' = editors \cup {f} /\ UNCHANGED current
    /\ PushEditorState
    /\ UNCHANGED <<contexts, sentContexts, shown>> /\ EditorOnly

Open(f) ==
    /\ f \notin editors /\ Spend("events", MaxEvents)
    /\ Create(f)
    /\ UNCHANGED asked

\* Faulty: disposed is not connected.
CloseSilently(f) ==
    /\ frame = "loaded" /\ f \in editors
    /\ Spend("events", MaxEvents)
    /\ editors' = editors \ {f}
    /\ UNCHANGED <<current, signature, wire, asked, shown>> /\ EditorOnly

\* The widget of an editor is disposed of, the current one included.
Close(f) ==
    /\ frame = "loaded" /\ f \in editors
    /\ Spend("events", MaxEvents)
    /\ editors' = editors \ {f} /\ UNCHANGED current
    /\ PushEditorState
    /\ UNCHANGED <<contexts, sentContexts, asked, shown>> /\ EditorOnly

\* Faulty: the context is not sent when no editor is left.
ChangeCurrentToFile(f) ==
    /\ frame = "loaded" /\ f \in Maybe(editors) /\ f # current
    /\ Spend("events", MaxEvents)
    /\ current' = f /\ UNCHANGED editors
    /\ shown' = shown \cup ({f} \ {None})
    /\ IF f = None THEN UNCHANGED <<contexts, sentContexts>> ELSE PushContext
    /\ PushEditorState
    /\ UNCHANGED asked /\ EditorOnly

\* onCurrentEditorChanged.
ChangeCurrent(f) ==
    /\ frame = "loaded" /\ f \in Maybe(editors) /\ f # current
    /\ Spend("events", MaxEvents)
    /\ current' = f /\ UNCHANGED editors
    /\ shown' = shown \cup ({f} \ {None})
    /\ PushContext /\ PushEditorState
    /\ UNCHANGED asked /\ EditorOnly

\* Faulty: commands are kept until the next poll.
PullCommandsKept ==
    /\ frame = "loaded" /\ pending # <<>>
    /\ answers' = answers \cup {pending}
    /\ UNCHANGED <<theia, wire, iris, qt, opened, queued, shown, spent>>

\* Every 1500 ms commands are fetched; the answer takes its way back.
PullCommands ==
    /\ frame = "loaded" /\ pending # <<>>
    /\ answers' = answers \cup {pending}
    /\ pending' = <<>>
    /\ UNCHANGED <<theia, wire, state, context, lastState, lastContext, signals,
                   qt, opened, queued, shown, spent>>

\* The next command of an answer; the loop waits for the editor to open, while
\* another answer may be worked off.
HandleCommand(cmds) ==
    LET cmd == Head(cmds) IN
    /\ frame = "loaded"
    /\ answers' = (answers \ {cmds}) \cup ({Tail(cmds)} \ {<<>>})
    /\ opened' = [opened EXCEPT ![cmd.id] = @ + 1]
    /\ Create(cmd.uri)
    /\ UNCHANGED <<queued, spent>>

\* An answer does not arrive, or an editor does not open: the rest is dropped.
DropCommands(cmds) ==
    /\ Spend("lost", MaxLost)
    /\ answers' = answers \ {cmds}
    /\ UNCHANGED <<theia, wire, iris, qt, opened, queued, shown>>

LoseState(m) ==
    /\ Spend("lost", MaxLost)
    /\ states' = states \ {m}
    /\ UNCHANGED <<theia, contexts, sentStates, sentContexts, iris, qt, asked, shown>>

LoseContext(m) ==
    /\ Spend("lost", MaxLost)
    /\ contexts' = contexts \ {m}
    /\ UNCHANGED <<theia, states, sentStates, sentContexts, iris, qt, asked, shown>>
-----------------------------------------------------------------------------
(***************************************************************************)
(* The bridge.                                                              *)
(***************************************************************************)
ApplyEditorState(m) ==
    /\ states' = states \ {m}
    /\ state' = m.state
    /\ lastState' = m.n
    /\ signals' = IF m.state = state THEN signals ELSE Append(signals, m.state)
    /\ UNCHANGED <<theia, contexts, sentStates, sentContexts, context, pending,
                   lastContext, qt, asked, shown, spent>>

\* Faulty: any context is taken.
ApplyAnyContext(m) ==
    /\ contexts' = contexts \ {m}
    /\ context' = m.uri
    /\ lastContext' = m.n
    /\ UNCHANGED <<theia, states, sentStates, sentContexts, state, pending,
                   lastState, signals, qt, asked, shown, spent>>

\* The context of a file that must not be attached is dropped: what was there
\* before stays.
ApplyContext(m) ==
    /\ contexts' = contexts \ {m}
    /\ context' = IF m.uri \in Secret THEN context ELSE m.uri
    /\ lastContext' = m.n
    /\ UNCHANGED <<theia, states, sentStates, sentContexts, state, pending,
                   lastState, signals, qt, asked, shown, spent>>

QueueCommand(f) ==
    /\ queued < MaxCommands
    /\ queued' = queued + 1
    /\ pending' = Append(pending, [id |-> queued', uri |-> f])
    /\ UNCHANGED <<theia, wire, state, context, lastState, lastContext, signals,
                   qt, answers, opened, shown, spent>>
-----------------------------------------------------------------------------
(***************************************************************************)
(* The window.                                                              *)
(***************************************************************************)
WindowOnly == UNCHANGED <<editors, current, signature, wire, asked, shown,
                          state, context, pending, lastState, lastContext>>

FolderWorkspace(p) == [p EXCEPT !.folder = TRUE, !.welcome = FALSE]
EmptyHome(p)       == [p EXCEPT !.folder = FALSE, !.welcome = TRUE]

\* Faulty: title and language are mixed up.
ArrangedByLanguage(p, s) ==
    IF s.open THEN FolderWorkspace([p EXCEPT !.open = TRUE, !.label = s.language])
    ELSE [p EXCEPT !.open = FALSE, !.label = None]

\* Faulty: only the first editor opens the folder.
ArrangedOnce(p, s) ==
    IF s.open /\ p.open THEN [p EXCEPT !.label = s.uri]
    ELSE [(IF s.open THEN FolderWorkspace(p) ELSE p) EXCEPT !.open = s.open]

\* set_editor_state: an open editor means an open folder, and without one the
\* folder stays open.
Arranged(p, s) ==
    LET q == [p EXCEPT !.open = s.open] IN
    IF s.open
    THEN FolderWorkspace([q EXCEPT !.label = IF s.uri = None THEN @ ELSE s.uri])
    ELSE IF p.folder THEN [q EXCEPT !.label = None]
    ELSE EmptyHome([q EXCEPT !.label = None])

\* The next signal; on another page it is dropped.
OnEditorStateChanged ==
    /\ signals # <<>>
    /\ signals' = Tail(signals)
    /\ page' = IF mode = "ide" THEN Arranged(page, Head(signals)) ELSE page
    /\ fresh' = (mode = "ide")
    /\ UNCHANGED <<frame, mode, spent>> /\ WindowOnly

\* The page is shown with its welcome, and Theia is loaded the first time.
SwitchToIde ==
    /\ mode # "ide" /\ Spend("moves", MaxMoves)
    /\ mode' = "ide" /\ fresh' = FALSE
    /\ page' = [EmptyHome(page) EXCEPT !.label = context]
    /\ frame' = IF frame = "none" THEN "loading" ELSE frame
    /\ UNCHANGED signals /\ WindowOnly

SwitchAway ==
    /\ mode = "ide" /\ Spend("moves", MaxMoves)
    /\ mode' = "other" /\ fresh' = FALSE
    /\ UNCHANGED <<frame, page, signals>> /\ WindowOnly

\* A folder is opened or created on the welcome; Theia is not told.
OnFolderOpened ==
    /\ mode = "ide" /\ page.welcome
    /\ page' = FolderWorkspace(page)
    /\ UNCHANGED <<frame, mode, fresh, signals, spent>> /\ WindowOnly

\* The retry button loads the frontend again: it forgets what it has sent, and
\* whatever it was about to do with commands.
Reload ==
    /\ mode = "ide" /\ frame = "loaded" /\ Spend("events", MaxEvents)
    /\ frame' = "loading"
    /\ editors' = {} /\ current' = None /\ signature' = None
    /\ answers' = {}
    /\ UNCHANGED <<wire, iris, qt, opened, queued, shown>>
-----------------------------------------------------------------------------
Editor ==
    \/ OnStart
    \/ \E f \in Files : Open(f) \/ Close(f)
    \/ \E f \in Maybe(Files) : ChangeCurrent(f)
    \/ PullCommands
    \/ \E cmds \in answers : HandleCommand(cmds) \/ DropCommands(cmds)
    \/ \E m \in states : LoseState(m)
    \/ \E m \in contexts : LoseContext(m)

Bridge ==
    \/ \E m \in states : ApplyEditorState(m)
    \/ \E m \in contexts : ApplyContext(m)
    \/ \E f \in Files : QueueCommand(f)

Window ==
    \/ OnEditorStateChanged \/ SwitchToIde \/ SwitchAway
    \/ OnFolderOpened \/ Reload

Next == Editor \/ Bridge \/ Window

Spec == Init /\ [][Next]_vars
-----------------------------------------------------------------------------
\* A state that equals the last one sent is not sent again, arrives in any
\* order and may be lost (iris-bridge-contribution.ts:81-103).  When the newest
\* one sent is the last one applied, Iris still has what the editor shows, a
\* frontend loaded afresh included.
StateCaughtUp ==
    frame = "loaded" /\ lastState = sentStates => state = EditorNow

\* The context, likewise, is that of the current file, or of one before it
\* while the current one must not be attached (ide_bridge_client.py:239-251).
ContextCaughtUp ==
    frame = "loaded" /\ lastContext = sentContexts /\ current \notin Secret
        => context = current

\* The page is arranged by signals, which the window handles later than the
\* bridge decided to send them and drops on other pages (main_window.py:1954).
\* Once all are handled it shows the last state, if the last of them was handled
\* here and the page has not been left since.
PageFollows ==
    fresh /\ signals = <<>> => /\ page.open = state.open
                               /\ state.open => ~page.welcome

\* Commands are fetched by a poll that does not wait for the poll before it and
\* are cleared before the answer has arrived (ide_bridge_client.py:268-272): a
\* command may be lost, but is carried out at most once, and not before it was
\* queued.
AtMostOnce ==
    \A c \in Commands : opened[c] <= IF c <= queued THEN 1 ELSE 0

\* Whatever is overtaken, lost, refused or reloaded, the file Iris takes for the
\* active one has been that, and is never one that must not be attached.
Mirror == INSTANCE TabWindow
    WITH Tabs <- {"editor"}, Pages <- Files, Public <- Files \ Secret,
         shown <- [t \in {"editor"} |-> shown],
         known <- [t \in {"editor"} |-> context]

ImplementsMirror == Mirror!WindowSpec

\* docs/ui/workspace-switching.md:13: the files open in Theia are kept over a
\* change of the workspace, and the welcome is for no folder open
\* (iris_ide_welcome_layer.py:1).  With every report in and handled, it does not
\* cover an open editor.
WelcomeCoversNoEditor ==
    ~ /\ mode = "ide" /\ frame = "loaded"
      /\ states = {} /\ lastState = sentStates /\ signals = <<>>
      /\ page.welcome /\ editors # {}
=============================================================================
