-------------------------- MODULE IdeBridge_proofs --------------------------
(***************************************************************************)
(* Proofs about IdeBridge, for any set of files and any bounds.             *)
(***************************************************************************)
EXTENDS IdeBridge, SequenceTheorems, TLAPS

\* What the contribution sees of the editor after a step is an editor state.
LEMMA EditorNowType ==
    ASSUME editors' \subseteq Files, current' \in Maybe(Files)
    PROVE  EditorNow' \in EditorState
<1>1. (IF editors' = {} THEN None ELSE current') \in Maybe(Files)
  BY DEF Maybe
<1>2. (IF current' = None THEN None ELSE LanguageOf[current']) \in Maybe(Languages)
  BY IdeBridgeAssumption DEF Maybe, IdeBridgeAssumption
<1> QED
  BY <1>1, <1>2 DEF EditorNow, EditorState

\* PushEditorState keeps the types of what it writes.
LEMMA PushEditorStateType ==
    ASSUME TypeOK, editors' \subseteq Files, current' \in Maybe(Files), PushEditorState
    PROVE  /\ signature' \in Maybe(EditorState)
           /\ states' \subseteq [n : 1 .. sentStates', state : EditorState]
           /\ sentStates' \in Nat /\ sentStates <= sentStates'
<1>1. EditorNow' \in EditorState
  BY EditorNowType
<1>2. signature' \in Maybe(EditorState)
  BY <1>1 DEF PushEditorState, Maybe
<1>3. CASE EditorNow' = signature
  BY <1>2, <1>3 DEF PushEditorState, TypeOK
<1>4. CASE EditorNow' # signature
  <2>1. sentStates' = sentStates + 1 /\ sentStates \in Nat
    BY <1>4 DEF PushEditorState, TypeOK
  <2>2. [n |-> sentStates', state |-> EditorNow']
            \in [n : 1 .. sentStates', state : EditorState]
    BY <1>1, <2>1
  <2>3. states' = states \cup {[n |-> sentStates', state |-> EditorNow']}
    BY <1>4 DEF PushEditorState
  <2> QED
    BY <1>2, <2>1, <2>2, <2>3 DEF TypeOK
<1> QED
  BY <1>3, <1>4

LEMMA PushContextType ==
    ASSUME TypeOK, current' \in Maybe(Files), PushContext
    PROVE  /\ contexts' \subseteq [n : 1 .. sentContexts', uri : Maybe(Files)]
           /\ sentContexts' \in Nat /\ sentContexts <= sentContexts'
<1>1. sentContexts' = sentContexts + 1 /\ sentContexts \in Nat
  BY DEF PushContext, TypeOK
<1>2. [n |-> sentContexts', uri |-> current'] \in [n : 1 .. sentContexts', uri : Maybe(Files)]
  BY <1>1
<1>3. contexts \subseteq [n : 1 .. sentContexts', uri : Maybe(Files)]
  BY <1>1 DEF TypeOK
<1>4. contexts' = contexts \cup {[n |-> sentContexts', uri |-> current']}
  BY DEF PushContext
<1> QED
  BY <1>1, <1>2, <1>3, <1>4

\* Spend keeps the bounds.
LEMMA SpendType ==
    ASSUME TypeOK,
           \/ Spend("events", MaxEvents) \/ Spend("moves", MaxMoves)
           \/ Spend("lost", MaxLost) \/ UNCHANGED spent
    PROVE  spent' \in [events : 0 .. MaxEvents, moves : 0 .. MaxMoves, lost : 0 .. MaxLost]
<1> USE DEF TypeOK
<1>0. MaxEvents \in Nat /\ MaxMoves \in Nat /\ MaxLost \in Nat
  BY IdeBridgeAssumption DEF IdeBridgeAssumption
<1>1. CASE Spend("events", MaxEvents) BY <1>0, <1>1 DEF Spend
<1>2. CASE Spend("moves", MaxMoves) BY <1>0, <1>2 DEF Spend
<1>3. CASE Spend("lost", MaxLost) BY <1>0, <1>3 DEF Spend
<1>4. CASE UNCHANGED spent BY <1>4
<1> QED BY <1>1, <1>2, <1>3, <1>4

LEMMA InitType == Init => TypeOK
<1> SUFFICES ASSUME Init PROVE TypeOK
  OBVIOUS
<1>1. state \in EditorState
  BY DEF Init, NoEditor, EditorState, Maybe
<1>2. /\ context \in Maybe(Files) /\ current \in Maybe(Files)
      /\ signature \in Maybe(EditorState)
      /\ page \in [open : BOOLEAN, folder : BOOLEAN, welcome : BOOLEAN, label : Maybe(Files)]
  BY DEF Init, Maybe
<1>3. spent \in [events : 0 .. MaxEvents, moves : 0 .. MaxMoves, lost : 0 .. MaxLost]
  BY IdeBridgeAssumption DEF Init, IdeBridgeAssumption
<1>4. opened \in [Commands -> Nat] /\ queued \in 0 .. MaxCommands
  BY IdeBridgeAssumption DEF Init, IdeBridgeAssumption
<1>5. pending \in Seq(Command) /\ signals \in Seq(EditorState)
  BY DEF Init
<1>6. /\ sentStates \in Nat /\ sentContexts \in Nat
      /\ lastState \in 0 .. sentStates /\ lastContext \in 0 .. sentContexts
  BY DEF Init
<1>7. editors \subseteq Files /\ states = {} /\ contexts = {} /\ answers = {} /\ shown = {}
  BY DEF Init
<1> QED
  BY <1>1, <1>2, <1>3, <1>4, <1>5, <1>6, <1>7 DEF Init, TypeOK

-----------------------------------------------------------------------------
LEMMA OnStartType == ASSUME TypeOK, OnStart PROVE TypeOK'
<1>1. editors' \subseteq Files /\ current' \in Maybe(Files)
  BY DEF OnStart, TypeOK
<1>2. PushContext /\ PushEditorState
  BY DEF OnStart
<1>3. /\ signature' \in Maybe(EditorState)
      /\ states' \subseteq [n : 1 .. sentStates', state : EditorState]
      /\ sentStates' \in Nat /\ sentStates <= sentStates'
  BY <1>1, <1>2, PushEditorStateType
<1>4. /\ contexts' \subseteq [n : 1 .. sentContexts', uri : Maybe(Files)]
      /\ sentContexts' \in Nat /\ sentContexts <= sentContexts'
  BY <1>1, <1>2, PushContextType
<1>5. frame' = "loaded" /\ UNCHANGED <<iris, qt, asked, shown, spent>>
  BY DEF OnStart
<1> QED
  BY <1>1, <1>3, <1>4, <1>5 DEF TypeOK, iris, qt, asked

LEMMA OpenType == ASSUME TypeOK, NEW f \in Files, Open(f) PROVE TypeOK'
<1>1. editors' \subseteq Files /\ current' \in Maybe(Files) /\ PushEditorState
  BY DEF Open, Create, TypeOK
<1>2. UNCHANGED <<iris, qt, asked, frame, contexts, sentContexts, shown>>
  BY DEF Open, Create, EditorOnly
<1>3. spent' \in [events : 0 .. MaxEvents, moves : 0 .. MaxMoves, lost : 0 .. MaxLost]
  BY SpendType DEF Open
<1>4. /\ signature' \in Maybe(EditorState)
      /\ states' \subseteq [n : 1 .. sentStates', state : EditorState]
      /\ sentStates' \in Nat /\ sentStates <= sentStates'
  BY <1>1, PushEditorStateType
<1> QED
  BY <1>1, <1>2, <1>3, <1>4 DEF TypeOK, iris, qt, asked

LEMMA CloseType == ASSUME TypeOK, NEW f \in Files, Close(f) PROVE TypeOK'
<1>1. editors' \subseteq Files /\ current' = current BY DEF Close, TypeOK
<1>2. UNCHANGED <<iris, qt, asked, frame, contexts, sentContexts, shown>>
  BY DEF Close, EditorOnly
<1>3. spent' \in [events : 0 .. MaxEvents, moves : 0 .. MaxMoves, lost : 0 .. MaxLost]
  BY SpendType DEF Close
<1>4. current' \in Maybe(Files) /\ PushEditorState
  BY <1>1 DEF Close, TypeOK
<1>5. /\ signature' \in Maybe(EditorState)
      /\ states' \subseteq [n : 1 .. sentStates', state : EditorState]
      /\ sentStates' \in Nat /\ sentStates <= sentStates'
  BY <1>1, <1>4, PushEditorStateType
<1> QED
  BY <1>1, <1>2, <1>3, <1>4, <1>5 DEF TypeOK, iris, qt, asked

LEMMA ChangeCurrentType ==
    ASSUME TypeOK, NEW f \in Maybe(Files), ChangeCurrent(f) PROVE TypeOK'
<1>1. editors' = editors /\ current' = f BY DEF ChangeCurrent
<1>2. UNCHANGED <<iris, qt, asked, frame>>
  BY DEF ChangeCurrent, EditorOnly
<1>3. shown' \subseteq Files
  BY DEF ChangeCurrent, TypeOK, Maybe
<1>4. spent' \in [events : 0 .. MaxEvents, moves : 0 .. MaxMoves, lost : 0 .. MaxLost]
  BY SpendType DEF ChangeCurrent
<1>5. current' \in Maybe(Files) /\ editors' \subseteq Files
  BY <1>1 DEF TypeOK
<1>6. PushContext /\ PushEditorState
  BY DEF ChangeCurrent
<1>7. /\ signature' \in Maybe(EditorState)
      /\ states' \subseteq [n : 1 .. sentStates', state : EditorState]
      /\ sentStates' \in Nat /\ sentStates <= sentStates'
  BY <1>5, <1>6, PushEditorStateType
<1>8. /\ contexts' \subseteq [n : 1 .. sentContexts', uri : Maybe(Files)]
      /\ sentContexts' \in Nat /\ sentContexts <= sentContexts'
  BY <1>5, <1>6, PushContextType
<1> QED
  BY <1>2, <1>3, <1>4, <1>5, <1>7, <1>8 DEF TypeOK, iris, qt, asked

LEMMA PullCommandsType == ASSUME TypeOK, PullCommands PROVE TypeOK'
BY DEF PullCommands, TypeOK, theia, wire, qt

LEMMA HandleCommandType ==
    ASSUME TypeOK, NEW cmds \in answers, HandleCommand(cmds) PROVE TypeOK'
<1>1. cmds \in Seq(Command) /\ Head(cmds) \in Command /\ Tail(cmds) \in Seq(Command)
  BY DEF TypeOK
<1>2. editors' \subseteq Files /\ current' \in Maybe(Files) /\ PushEditorState
  BY <1>1 DEF HandleCommand, Create, TypeOK, Command
<1>3. UNCHANGED <<iris, qt, frame, contexts, sentContexts, shown, queued, spent>>
  BY DEF HandleCommand, Create, EditorOnly
<1>4. answers' \subseteq Seq(Command) \ {<<>>}
  BY <1>1 DEF HandleCommand, TypeOK
<1>5. opened' \in [Commands -> Nat]
  BY <1>1 DEF HandleCommand, TypeOK, Command
<1>6. /\ signature' \in Maybe(EditorState)
      /\ states' \subseteq [n : 1 .. sentStates', state : EditorState]
      /\ sentStates' \in Nat /\ sentStates <= sentStates'
  BY <1>2, PushEditorStateType
<1> QED
  BY <1>2, <1>3, <1>4, <1>5, <1>6 DEF TypeOK, iris, qt

LEMMA LossType ==
    ASSUME TypeOK,
           \/ \E cmds \in answers : DropCommands(cmds)
           \/ \E m \in states : LoseState(m)
           \/ \E m \in contexts : LoseContext(m)
    PROVE  TypeOK'
<1>1. CASE \E cmds \in answers : DropCommands(cmds)
  BY <1>1, SpendType DEF DropCommands, TypeOK, theia, wire, iris, qt
<1>2. CASE \E m \in states : LoseState(m)
  BY <1>2, SpendType DEF LoseState, TypeOK, theia, iris, qt, asked
<1>3. CASE \E m \in contexts : LoseContext(m)
  BY <1>3, SpendType DEF LoseContext, TypeOK, theia, iris, qt, asked
<1> QED BY <1>1, <1>2, <1>3

LEMMA ApplyEditorStateType ==
    ASSUME TypeOK, NEW m \in states, ApplyEditorState(m) PROVE TypeOK'
<1>1. m.n \in 1 .. sentStates /\ m.state \in EditorState
  BY DEF TypeOK
<1>2. lastState' \in 0 .. sentStates /\ state' \in EditorState
  BY <1>1 DEF ApplyEditorState, TypeOK
<1>3. signals' \in Seq(EditorState)
  BY <1>1 DEF ApplyEditorState, TypeOK
<1> QED
  BY <1>2, <1>3 DEF ApplyEditorState, TypeOK, theia, qt, asked

LEMMA ApplyContextType ==
    ASSUME TypeOK, NEW m \in contexts, ApplyContext(m) PROVE TypeOK'
<1>1. m.n \in 1 .. sentContexts /\ m.uri \in Maybe(Files)
  BY DEF TypeOK
<1>2. lastContext' \in 0 .. sentContexts /\ context' \in Maybe(Files)
  BY <1>1 DEF ApplyContext, TypeOK
<1> QED
  BY <1>2 DEF ApplyContext, TypeOK, theia, qt, asked

LEMMA QueueCommandType ==
    ASSUME TypeOK, NEW f \in Files, QueueCommand(f) PROVE TypeOK'
<1>1. queued' = queued + 1 /\ queued' \in Commands /\ queued' \in 0 .. MaxCommands
  BY IdeBridgeAssumption DEF QueueCommand, TypeOK, Commands, IdeBridgeAssumption
<1>2. [id |-> queued', uri |-> f] \in Command
  BY <1>1 DEF Command
<1>3. pending' \in Seq(Command)
  BY <1>2 DEF QueueCommand, TypeOK
<1> QED
  BY <1>1, <1>3 DEF QueueCommand, TypeOK, theia, wire, qt

\* What a signal makes of the page.
LEMMA ArrangedType ==
    ASSUME TypeOK, NEW s \in EditorState
    PROVE  /\ Arranged(page, s) \in [open : BOOLEAN, folder : BOOLEAN, welcome : BOOLEAN,
                                     label : Maybe(Files)]
           /\ Arranged(page, s).open = s.open
           /\ s.open => ~Arranged(page, s).welcome
<1>1. s.open \in BOOLEAN /\ s.uri \in Maybe(Files)
  BY DEF EditorState
<1>2. None \in Maybe(Files)
  BY DEF Maybe
<1> QED
  BY <1>1, <1>2 DEF Arranged, FolderWorkspace, EmptyHome, TypeOK

LEMMA WindowType == ASSUME TypeOK, Window PROVE TypeOK'
<1>1. CASE OnEditorStateChanged
  <2>1. Head(signals) \in EditorState /\ signals' \in Seq(EditorState)
    BY <1>1 DEF OnEditorStateChanged, TypeOK
  <2>2. page' \in [open : BOOLEAN, folder : BOOLEAN, welcome : BOOLEAN, label : Maybe(Files)]
    BY <1>1, <2>1, ArrangedType DEF OnEditorStateChanged, TypeOK
  <2> QED
    BY <1>1, <2>1, <2>2 DEF OnEditorStateChanged, WindowOnly, TypeOK, wire, asked
<1>2. CASE SwitchToIde
  <2>1. page' \in [open : BOOLEAN, folder : BOOLEAN, welcome : BOOLEAN, label : Maybe(Files)]
    BY <1>2 DEF SwitchToIde, EmptyHome, TypeOK
  <2>2. spent' \in [events : 0 .. MaxEvents, moves : 0 .. MaxMoves, lost : 0 .. MaxLost]
    BY <1>2, SpendType DEF SwitchToIde
  <2> QED
    BY <1>2, <2>1, <2>2 DEF SwitchToIde, WindowOnly, TypeOK, wire, asked
<1>3. CASE SwitchAway
  <2>1. spent' \in [events : 0 .. MaxEvents, moves : 0 .. MaxMoves, lost : 0 .. MaxLost]
    BY <1>3, SpendType DEF SwitchAway
  <2> QED
    BY <1>3, <2>1 DEF SwitchAway, WindowOnly, TypeOK, wire, asked
<1>4. CASE OnFolderOpened
  <2>1. page' \in [open : BOOLEAN, folder : BOOLEAN, welcome : BOOLEAN, label : Maybe(Files)]
    BY <1>4 DEF OnFolderOpened, FolderWorkspace, TypeOK
  <2> QED
    BY <1>4, <2>1 DEF OnFolderOpened, WindowOnly, TypeOK, wire, asked
<1>5. CASE Reload
  <2>1. spent' \in [events : 0 .. MaxEvents, moves : 0 .. MaxMoves, lost : 0 .. MaxLost]
    BY <1>5, SpendType DEF Reload
  <2>2. editors' = {} /\ current' \in Maybe(Files) /\ signature' \in Maybe(EditorState)
    BY <1>5 DEF Reload, Maybe
  <2> QED
    BY <1>5, <2>1, <2>2 DEF Reload, TypeOK, wire, iris, qt
<1> QED
  BY <1>1, <1>2, <1>3, <1>4, <1>5 DEF Window

LEMMA StepType == TypeOK /\ [Next]_vars => TypeOK'
<1> SUFFICES ASSUME TypeOK, [Next]_vars PROVE TypeOK'
  OBVIOUS
<1>1. CASE Editor
  BY <1>1, OnStartType, OpenType, CloseType, ChangeCurrentType, PullCommandsType,
     HandleCommandType, LossType DEF Editor
<1>2. CASE Bridge
  BY <1>2, ApplyEditorStateType, ApplyContextType, QueueCommandType DEF Bridge
<1>3. CASE Window
  BY <1>3, WindowType
<1>4. CASE UNCHANGED vars
  BY <1>4 DEF vars, theia, wire, iris, qt, asked, TypeOK
<1> QED
  BY <1>1, <1>2, <1>3, <1>4 DEF Next

\* Every variable keeps its type; a number on a request is one that was sent.
THEOREM TypeCorrect == Spec => []TypeOK
<1> QED
  BY InitType, StepType, PTL DEF Spec
-----------------------------------------------------------------------------
(***************************************************************************)
(* The newest report.                                                       *)
(***************************************************************************)

\* A loaded frontend remembers what the editor shows, and the newest report,
\* under way or applied, says that.
StateInv ==
    /\ frame = "loaded" =>
        /\ signature = EditorNow
        /\ \A m \in states : m.n = sentStates => m.state = EditorNow
        /\ lastState = sentStates => state = EditorNow
    /\ frame # "loaded" => signature = None

\* PushEditorState brings that about, whatever has changed.
LEMMA PushEditorStateInv ==
    ASSUME TypeOK, TypeOK', StateInv, PushEditorState,
           frame' = "loaded", UNCHANGED <<state, lastState>>
    PROVE  StateInv'
<1>1. signature' = EditorNow'
  BY DEF PushEditorState
<1>2. CASE EditorNow' = signature
  <2>1. UNCHANGED <<states, sentStates>>
    BY <1>2 DEF PushEditorState
  <2>2. CASE frame = "loaded"
    BY <1>1, <1>2, <2>1, <2>2 DEF StateInv
  <2>3. CASE frame # "loaded"
    <3>1. EditorNow' = None
      BY <1>2, <2>3 DEF StateInv
    <3>2. EditorNow' \in EditorState
      BY EditorNowType DEF TypeOK
    <3> QED
      BY <3>1, <3>2, IdeBridgeAssumption DEF IdeBridgeAssumption
  <2> QED
    BY <2>2, <2>3
<1>3. CASE EditorNow' # signature
  <2>1. /\ sentStates' = sentStates + 1 /\ sentStates \in Nat
        /\ states' = states \cup {[n |-> sentStates', state |-> EditorNow']}
    BY <1>3 DEF PushEditorState, TypeOK
  <2>2. \A m \in states : m.n <= sentStates /\ m.n \in Nat
    BY DEF TypeOK
  <2>3. lastState' <= sentStates /\ lastState' \in Nat
    BY DEF TypeOK
  <2>4. \A m \in states' : m.n = sentStates' => m.state = EditorNow'
    BY <2>1, <2>2
  <2>5. lastState' # sentStates'
    BY <2>1, <2>3
  <2> QED
    BY <1>1, <2>4, <2>5 DEF StateInv
<1> QED
  BY <1>2, <1>3

LEMMA StateInit == Init => StateInv
BY DEF Init, StateInv

LEMMA StateStep == TypeOK /\ TypeOK' /\ StateInv /\ [Next]_vars => StateInv'
<1> SUFFICES ASSUME TypeOK, TypeOK', StateInv, [Next]_vars PROVE StateInv'
  OBVIOUS
<1>1. CASE OnStart
  BY <1>1, PushEditorStateInv DEF OnStart, iris
<1>2. ASSUME NEW f \in Files, Open(f) PROVE StateInv'
  BY <1>2, PushEditorStateInv DEF Open, Create, EditorOnly, iris
<1>3. ASSUME NEW f \in Files, Close(f) PROVE StateInv'
  <2>1. frame = "loaded"
    BY <1>3 DEF Close
  <2> QED
    BY <1>3, <2>1, PushEditorStateInv DEF Close, EditorOnly, iris
<1>4. ASSUME NEW f \in Maybe(Files), ChangeCurrent(f) PROVE StateInv'
  BY <1>4, PushEditorStateInv DEF ChangeCurrent, EditorOnly, iris
<1>5. ASSUME NEW cmds \in answers, HandleCommand(cmds) PROVE StateInv'
  BY <1>5, PushEditorStateInv DEF HandleCommand, Create, EditorOnly, iris
<1>6. ASSUME UNCHANGED <<theia, sentStates, state, lastState>>, states' \subseteq states
      PROVE  StateInv'
  <2>1. EditorNow' = EditorNow
    BY <1>6 DEF EditorNow, theia
  <2> QED
    BY <1>6, <2>1 DEF StateInv, theia
<1>7. CASE PullCommands \/ \E f \in Files : QueueCommand(f)
  BY <1>6, <1>7 DEF PullCommands, QueueCommand, wire
<1>8. CASE \/ \E cmds \in answers : DropCommands(cmds)
           \/ \E m \in states : LoseState(m)
           \/ \E m \in contexts : LoseContext(m)
           \/ \E m \in contexts : ApplyContext(m)
  BY <1>6, <1>8 DEF DropCommands, LoseState, LoseContext, ApplyContext, wire, iris
<1>9. ASSUME NEW m \in states, ApplyEditorState(m) PROVE StateInv'
  <2>1. EditorNow' = EditorNow
    BY <1>9 DEF ApplyEditorState, EditorNow, theia
  <2> QED
    BY <1>9, <2>1 DEF ApplyEditorState, StateInv, theia
<1>10. CASE Window
  <2>1. CASE Reload
    BY <2>1 DEF Reload, StateInv
  <2>2. CASE SwitchToIde
    <3>1. EditorNow' = EditorNow /\ UNCHANGED <<signature, states, sentStates, state, lastState>>
      BY <2>2 DEF SwitchToIde, WindowOnly, EditorNow, wire
    <3>2. (frame' = "loaded") = (frame = "loaded")
      BY <2>2 DEF SwitchToIde
    <3> QED
      BY <3>1, <3>2 DEF StateInv
  <2>3. CASE OnEditorStateChanged \/ SwitchAway \/ OnFolderOpened
    BY <1>6, <2>3 DEF OnEditorStateChanged, SwitchAway, OnFolderOpened, WindowOnly, wire, theia
  <2> QED
    BY <1>10, <2>1, <2>2, <2>3 DEF Window
<1>11. CASE UNCHANGED vars
  BY <1>6, <1>11 DEF vars, wire, iris
<1> QED
  BY <1>1, <1>2, <1>3, <1>4, <1>5, <1>7, <1>8, <1>9, <1>10, <1>11
     DEF Next, Editor, Bridge

\* Whatever is sent in whatever order, lost or loaded again: when the newest
\* report is the last one applied, Iris has what the editor shows.
THEOREM NewestStateCounts == Spec => []StateCaughtUp
<1>1. StateInv => StateCaughtUp
  BY DEF StateInv, StateCaughtUp
<1> QED
  BY <1>1, InitType, StepType, StateInit, StateStep, PTL DEF Spec

\* The same for contexts, save those of files that must not be attached.
ContextInv ==
    frame = "loaded" =>
        /\ \A m \in contexts : m.n = sentContexts => m.uri = current
        /\ lastContext = sentContexts /\ current \notin Secret => context = current

\* PushContext brings that about.
LEMMA PushContextInv ==
    ASSUME TypeOK, PushContext, UNCHANGED <<context, lastContext>>
    PROVE  ContextInv'
<1>1. /\ sentContexts' = sentContexts + 1 /\ sentContexts \in Nat
      /\ contexts' = contexts \cup {[n |-> sentContexts', uri |-> current']}
  BY DEF PushContext, TypeOK
<1>2. \A m \in contexts : m.n <= sentContexts /\ m.n \in Nat
  BY DEF TypeOK
<1>3. lastContext' <= sentContexts /\ lastContext' \in Nat
  BY DEF TypeOK
<1> QED
  BY <1>1, <1>2, <1>3 DEF ContextInv

LEMMA ContextStep == TypeOK /\ ContextInv /\ [Next]_vars => ContextInv'
<1> SUFFICES ASSUME TypeOK, ContextInv, [Next]_vars PROVE ContextInv'
  OBVIOUS
<1>1. CASE OnStart
  BY <1>1, PushContextInv DEF OnStart, iris
<1>2. ASSUME NEW f \in Maybe(Files), ChangeCurrent(f) PROVE ContextInv'
  BY <1>2, PushContextInv DEF ChangeCurrent, EditorOnly, iris
<1>3. ASSUME UNCHANGED <<frame, current, sentContexts, context, lastContext>>,
             contexts' \subseteq contexts
      PROVE  ContextInv'
  BY <1>3 DEF ContextInv
<1>4. CASE \/ \E f \in Files : Open(f) \/ Close(f)
           \/ \E cmds \in answers : HandleCommand(cmds)
  BY <1>3, <1>4 DEF Open, Close, HandleCommand, Create, EditorOnly, iris
<1>5. CASE PullCommands \/ \E f \in Files : QueueCommand(f)
  BY <1>3, <1>5 DEF PullCommands, QueueCommand, wire, theia
<1>6. CASE \/ \E cmds \in answers : DropCommands(cmds)
           \/ \E m \in states : LoseState(m)
           \/ \E m \in contexts : LoseContext(m)
           \/ \E m \in states : ApplyEditorState(m)
  BY <1>3, <1>6 DEF DropCommands, LoseState, LoseContext, ApplyEditorState, wire, iris, theia
<1>7. ASSUME NEW m \in contexts, ApplyContext(m) PROVE ContextInv'
  BY <1>7 DEF ApplyContext, ContextInv, theia
<1>8. CASE Window
  BY <1>3, <1>8
     DEF Window, OnEditorStateChanged, SwitchAway, SwitchToIde, OnFolderOpened, Reload,
         WindowOnly, ContextInv, wire
<1>9. CASE UNCHANGED vars
  BY <1>3, <1>9 DEF vars, wire, iris, theia
<1> QED
  BY <1>1, <1>2, <1>4, <1>5, <1>6, <1>7, <1>8, <1>9 DEF Next, Editor, Bridge

THEOREM NewestContextCounts == Spec => []ContextCaughtUp
<1>1. Init => ContextInv
  BY DEF Init, ContextInv
<1>2. ContextInv => ContextCaughtUp
  BY DEF ContextInv, ContextCaughtUp
<1> QED
  BY <1>1, <1>2, InitType, StepType, ContextStep, PTL DEF Spec
-----------------------------------------------------------------------------
(***************************************************************************)
(* The page.                                                                *)
(***************************************************************************)

\* The last signal under way is about the state the bridge has.
PageInv ==
    /\ signals # <<>> => signals[Len(signals)] = state
    /\ PageFollows

LEMMA PageStep == TypeOK /\ PageInv /\ [Next]_vars => PageInv'
<1> SUFFICES ASSUME TypeOK, PageInv, [Next]_vars PROVE PageInv'
  OBVIOUS
<1>1. ASSUME UNCHANGED <<signals, state, qt>> PROVE PageInv'
  BY <1>1 DEF PageInv, PageFollows, qt
<1>2. CASE Editor
  BY <1>1, <1>2
     DEF Editor, OnStart, Open, Close, ChangeCurrent, PullCommands, HandleCommand,
         Create, DropCommands, LoseState, LoseContext, EditorOnly, iris
<1>3. CASE \/ \E m \in contexts : ApplyContext(m)
           \/ \E f \in Files : QueueCommand(f)
  BY <1>1, <1>3 DEF ApplyContext, QueueCommand
<1>4. ASSUME NEW m \in states, ApplyEditorState(m) PROVE PageInv'
  <2>1. CASE m.state = state
    BY <1>1, <1>4, <2>1 DEF ApplyEditorState
  <2>2. CASE m.state # state
    <3>1. m.state \in EditorState /\ signals \in Seq(EditorState)
      BY DEF TypeOK
    <3>2. signals' = Append(signals, m.state) /\ state' = m.state
      BY <1>4, <2>2 DEF ApplyEditorState
    <3>3. signals' # <<>> /\ signals'[Len(signals')] = state'
      BY <3>1, <3>2
    <3> QED
      BY <3>3 DEF PageInv, PageFollows
  <2> QED
    BY <2>1, <2>2
<1>5. CASE OnEditorStateChanged
  <2>1. /\ signals \in Seq(EditorState) /\ signals # <<>>
        /\ signals' = Tail(signals) /\ state' = state
        /\ Head(signals) \in EditorState
    BY <1>5 DEF OnEditorStateChanged, WindowOnly, TypeOK
  <2>2. CASE Len(signals) = 1
    <3>1. Head(signals) = state /\ signals' = <<>>
      BY <2>1, <2>2 DEF PageInv
    <3>2. fresh' => page' = Arranged(page, state)
      BY <1>5, <3>1 DEF OnEditorStateChanged
    <3> QED
      BY <2>1, <3>1, <3>2, ArrangedType DEF PageInv, PageFollows
  <2>3. CASE Len(signals) # 1
    <3>1. Len(signals) \in Nat /\ Len(signals) # 0
      BY <2>1, EmptySeq, LenProperties
    <3>2. \A n \in Nat : n # 0 /\ n # 1 => n > 1
      OBVIOUS
    <3>3. Len(signals) > 1
      BY <2>3, <3>1, <3>2, Zenon
    <3>4. Len(signals') = Len(signals) - 1
      BY <2>1, HeadTailProperties
    <3>5. Len(<<>>) = 0
      OBVIOUS
    <3>6. signals' # <<>>
      BY <3>1, <3>3, <3>4, <3>5
    <3>7. signals'[Len(signals) - 1] = signals[Len(signals)]
      BY <2>1, <3>1, <3>3
    <3> QED
      BY <2>1, <3>7, <3>4, <3>6 DEF PageInv, PageFollows
  <2> QED
    BY <2>2, <2>3
<1>6. CASE SwitchToIde \/ SwitchAway
  BY <1>6 DEF SwitchToIde, SwitchAway, WindowOnly, PageInv, PageFollows
<1>7. CASE OnFolderOpened
  <2>1. page'.open = page.open /\ page'.welcome = FALSE
    BY <1>7 DEF OnFolderOpened, FolderWorkspace, TypeOK
  <2> QED
    BY <1>7, <2>1 DEF OnFolderOpened, WindowOnly, PageInv, PageFollows
<1>8. CASE Reload
  BY <1>1, <1>8 DEF Reload, iris
<1>9. CASE UNCHANGED vars
  BY <1>1, <1>9 DEF vars, iris
<1> QED
  BY <1>2, <1>3, <1>4, <1>5, <1>6, <1>7, <1>8, <1>9 DEF Next, Bridge, Window

\* With all signals handled, a page that has not been left since the last one
\* shows the state the bridge has.
THEOREM PageShowsState == Spec => []PageFollows
<1>1. Init => PageInv
  BY DEF Init, PageInv, PageFollows
<1>2. PageInv => PageFollows
  BY DEF PageInv
<1> QED
  BY <1>1, <1>2, InitType, StepType, PageStep, PTL DEF Spec
-----------------------------------------------------------------------------
(***************************************************************************)
(* Commands.                                                                *)
(***************************************************************************)
Ids(s)      == {s[i].id : i \in 1 .. Len(s)}
Distinct(s) == \A i, k \in 1 .. Len(s) : s[i].id = s[k].id => i = k

\* A command is in one place: queued, or in one answer, and then it was not
\* carried out yet.
CommandInv ==
    /\ Distinct(pending)
    /\ \A a \in answers : Distinct(a) /\ Ids(a) \cap Ids(pending) = {}
    /\ \A a, b \in answers : a # b => Ids(a) \cap Ids(b) = {}
    /\ \A c \in Ids(pending) : opened[c] = 0 /\ c <= queued
    /\ \A a \in answers : \A c \in Ids(a) : opened[c] = 0 /\ c <= queued
    /\ AtMostOnce

LEMMA IdsType == ASSUME NEW s \in Seq(Command) PROVE Ids(s) \subseteq Commands
<1>1. \A i \in 1 .. Len(s) : s[i] \in Command
  OBVIOUS
<1> QED
  BY <1>1 DEF Ids, Command

LEMMA AppendIds ==
    ASSUME NEW s \in Seq(Command), NEW e \in Command
    PROVE  /\ Ids(Append(s, e)) = Ids(s) \cup {e.id}
           /\ Distinct(s) /\ e.id \notin Ids(s) => Distinct(Append(s, e))
<1> DEFINE t == Append(s, e)
<1>1. /\ Len(s) \in Nat /\ Len(t) = Len(s) + 1
      /\ \A i \in 1 .. Len(s) : t[i] = s[i]
      /\ t[Len(s) + 1] = e
  OBVIOUS
<1> HIDE DEF t
<1>2. Ids(t) = Ids(s) \cup {e.id}
  BY <1>1 DEF Ids
<1>3. Distinct(s) /\ e.id \notin Ids(s) => Distinct(t)
  BY <1>1 DEF Ids, Distinct
<1> QED
  BY <1>2, <1>3 DEF t

LEMMA TailIds ==
    ASSUME NEW s \in Seq(Command), s # <<>>
    PROVE  /\ Ids(s) = {Head(s).id} \cup Ids(Tail(s))
           /\ Distinct(s) => Distinct(Tail(s)) /\ Head(s).id \notin Ids(Tail(s))
<1> DEFINE t == Tail(s)
<1>1. /\ Len(s) \in Nat /\ Len(s) >= 1 /\ Len(t) = Len(s) - 1 /\ Head(s) = s[1]
      /\ \A i \in 1 .. Len(t) : t[i] = s[i + 1]
  BY EmptySeq
<1> HIDE DEF t
<1>2. \A i \in 1 .. Len(s) : i = 1 \/ (i - 1 \in 1 .. Len(t) /\ t[i - 1] = s[i])
  BY <1>1
<1>3. Ids(s) = {s[1].id} \cup Ids(t)
  BY <1>1, <1>2 DEF Ids
<1>4. \A i \in 1 .. Len(t) : i + 1 \in 1 .. Len(s) /\ i + 1 # 1 /\ t[i] = s[i + 1]
  BY <1>1
<1>5. ASSUME Distinct(s) PROVE Distinct(t)
  <2> SUFFICES ASSUME NEW i \in 1 .. Len(t), NEW j \in 1 .. Len(t), t[i].id = t[j].id
               PROVE  i = j
    BY DEF Distinct
  <2>1. s[i + 1].id = s[j + 1].id
    BY <1>4
  <2>2. i + 1 = j + 1
    BY <1>4, <1>5, <2>1 DEF Distinct
  <2> QED
    BY <1>1, <2>2
<1>6. ASSUME Distinct(s) PROVE s[1].id \notin Ids(t)
  <2> SUFFICES ASSUME NEW i \in 1 .. Len(t), t[i].id = s[1].id PROVE FALSE
    BY DEF Ids
  <2>1. s[i + 1].id = s[1].id /\ 1 \in 1 .. Len(s)
    BY <1>1, <1>4
  <2> QED
    BY <1>4, <1>6, <2>1 DEF Distinct
<1> QED
  BY <1>1, <1>3, <1>5, <1>6 DEF t

LEMMA CommandStep == TypeOK /\ CommandInv /\ [Next]_vars => CommandInv'
<1> SUFFICES ASSUME TypeOK, CommandInv, [Next]_vars PROVE CommandInv'
  OBVIOUS
<1>1. ASSUME UNCHANGED <<pending, opened, queued>>, answers' \subseteq answers
      PROVE  CommandInv'
  BY <1>1 DEF CommandInv, AtMostOnce
<1>2. CASE \/ OnStart \/ \E f \in Files : Open(f) \/ Close(f)
           \/ \E f \in Maybe(Files) : ChangeCurrent(f)
  BY <1>1, <1>2 DEF OnStart, Open, Close, ChangeCurrent, Create, EditorOnly, iris, asked
<1>3. CASE PullCommands
  <2>1. /\ answers' = answers \cup {pending} /\ pending' = <<>>
        /\ UNCHANGED <<opened, queued>>
    BY <1>3 DEF PullCommands
  <2>2. Ids(pending') = {} /\ Distinct(pending')
    BY <2>1 DEF Ids, Distinct
  <2> QED
    BY <2>1, <2>2 DEF CommandInv, AtMostOnce
<1>4. ASSUME NEW cmds \in answers, HandleCommand(cmds) PROVE CommandInv'
  <2> DEFINE id == Head(cmds).id
             rest == Tail(cmds)
  <2>1. cmds \in Seq(Command) /\ cmds # <<>>
    BY DEF TypeOK
  <2>2. /\ Ids(cmds) = {id} \cup Ids(rest)
        /\ Distinct(rest) /\ id \notin Ids(rest)
    BY <2>1, TailIds DEF CommandInv
  <2>3. id \in Commands /\ opened[id] = 0 /\ id <= queued
    <3>1. id \in Ids(cmds)
      BY <2>2
    <3>2. opened[id] = 0 /\ id <= queued
      BY <3>1 DEF CommandInv
    <3> QED
      BY <2>1, <3>1, <3>2, IdsType
  <2>4. /\ UNCHANGED <<pending, queued>>
        /\ opened' = [opened EXCEPT ![id] = @ + 1]
        /\ answers' \subseteq (answers \ {cmds}) \cup {rest}
    BY <1>4 DEF HandleCommand, Create, EditorOnly, iris
  <2>5. \A c \in Commands : c # id => opened'[c] = opened[c]
    BY <2>3, <2>4 DEF TypeOK
  <2>6. opened'[id] = 1
    BY <2>3, <2>4 DEF TypeOK
  <2> HIDE DEF id, rest
  <2>7. id \notin Ids(pending) /\ \A a \in answers \ {cmds} : id \notin Ids(a)
    BY <2>2 DEF CommandInv
  <2>8. \A a \in answers' : /\ Distinct(a) /\ id \notin Ids(a)
                            /\ (a = rest /\ Ids(a) \subseteq Ids(cmds)) \/ a \in answers \ {cmds}
    BY <2>2, <2>4, <2>7 DEF CommandInv
  <2>9. \A a \in answers' : Ids(a) \cap Ids(pending') = {}
    BY <2>4, <2>8 DEF CommandInv
  <2>10. \A a, b \in answers' : a # b => Ids(a) \cap Ids(b) = {}
    BY <2>8 DEF CommandInv
  <2>11. Ids(pending) \subseteq Commands
    BY IdsType DEF TypeOK
  <2>12. \A a \in answers : Ids(a) \subseteq Commands
    BY IdsType DEF TypeOK
  <2>13. \A c \in Ids(pending') : opened'[c] = 0 /\ c <= queued'
    BY <2>4, <2>5, <2>7, <2>11 DEF CommandInv
  <2>14. \A a \in answers' : \A c \in Ids(a) : opened'[c] = 0 /\ c <= queued'
    BY <2>4, <2>5, <2>8, <2>12 DEF CommandInv
  <2>15. AtMostOnce'
    BY <2>3, <2>4, <2>5, <2>6 DEF CommandInv, AtMostOnce
  <2> QED
    BY <2>4, <2>8, <2>9, <2>10, <2>13, <2>14, <2>15 DEF CommandInv
<1>5. CASE \/ \E cmds \in answers : DropCommands(cmds)
           \/ \E m \in states : LoseState(m)
           \/ \E m \in contexts : LoseContext(m)
           \/ \E m \in states : ApplyEditorState(m)
           \/ \E m \in contexts : ApplyContext(m)
  BY <1>1, <1>5
     DEF DropCommands, LoseState, LoseContext, ApplyEditorState, ApplyContext, iris, asked
<1>6. ASSUME NEW f \in Files, QueueCommand(f) PROVE CommandInv'
  <2> DEFINE e == [id |-> queued', uri |-> f]
  <2>1. /\ queued \in Nat /\ queued' = queued + 1 /\ queued' \in Commands
        /\ UNCHANGED <<answers, opened>> /\ pending' = Append(pending, e)
    BY <1>6, IdeBridgeAssumption
       DEF QueueCommand, TypeOK, Commands, IdeBridgeAssumption
  <2>2. e \in Command /\ e.id = queued + 1
    BY <2>1 DEF Command
  <2>3. Ids(pending) \subseteq Commands /\ \A a \in answers : Ids(a) \subseteq Commands
    BY IdsType DEF TypeOK
  <2>4. queued + 1 \notin Ids(pending) /\ \A a \in answers : queued + 1 \notin Ids(a)
    BY <2>1 DEF CommandInv
  <2>5. Ids(pending') = Ids(pending) \cup {queued + 1} /\ Distinct(pending')
    BY <2>1, <2>2, <2>4, AppendIds DEF TypeOK, CommandInv
  <2>6. opened[queued + 1] = 0
    BY <2>1 DEF CommandInv, AtMostOnce, TypeOK
  <2>7. \A c \in Commands : c \in Nat /\ (c <= queued => c <= queued')
    BY <2>1 DEF Commands
  <2>8. AtMostOnce'
    BY <2>1, <2>7 DEF CommandInv, AtMostOnce, TypeOK
  <2>9. \A a \in answers' : Distinct(a) /\ Ids(a) \cap Ids(pending') = {}
    BY <2>1, <2>4, <2>5 DEF CommandInv
  <2>10. \A a, b \in answers' : a # b => Ids(a) \cap Ids(b) = {}
    BY <2>1 DEF CommandInv
  <2>11. ASSUME NEW c \in Ids(pending') PROVE opened'[c] = 0 /\ c <= queued'
    <3>1. CASE c = queued + 1
      BY <2>1, <2>6, <3>1
    <3>2. CASE c \in Ids(pending)
      BY <2>1, <2>3, <2>7, <3>2 DEF CommandInv
    <3> QED
      BY <2>5, <3>1, <3>2
  <2>12. \A a \in answers' : \A c \in Ids(a) : opened'[c] = 0 /\ c <= queued'
    BY <2>1, <2>3, <2>7 DEF CommandInv
  <2> QED
    BY <2>5, <2>8, <2>9, <2>10, <2>11, <2>12 DEF CommandInv
<1>7. CASE Window
  BY <1>1, <1>7
     DEF Window, OnEditorStateChanged, SwitchToIde, SwitchAway, OnFolderOpened, Reload,
         WindowOnly, iris, asked
<1>8. CASE UNCHANGED vars
  BY <1>1, <1>8 DEF vars, iris, asked
<1> QED
  BY <1>2, <1>3, <1>4, <1>5, <1>6, <1>7, <1>8 DEF Next, Editor, Bridge

\* However polls overlap and answers are lost, no command is carried out twice.
THEOREM CommandsAtMostOnce == Spec => []AtMostOnce
<1>1. Init => CommandInv
  BY DEF Init, CommandInv, AtMostOnce, Ids, Distinct
<1>2. CommandInv => AtMostOnce
  BY DEF CommandInv
<1> QED
  BY <1>1, <1>2, InitType, StepType, CommandStep, PTL DEF Spec
-----------------------------------------------------------------------------
(***************************************************************************)
(* The refinement.                                                          *)
(***************************************************************************)

\* A context under way is about a file that has been current.
ShownInv == \A m \in contexts : m.uri \in Maybe(shown)

CurrentInv == current \in Maybe(shown)

LEMMA ShownStep == ShownInv /\ CurrentInv /\ [Next]_vars => ShownInv' /\ CurrentInv'
<1> SUFFICES ASSUME ShownInv, CurrentInv, [Next]_vars PROVE ShownInv' /\ CurrentInv'
  OBVIOUS
<1>1. ASSUME UNCHANGED <<shown, current>>, contexts' \subseteq contexts
      PROVE  ShownInv' /\ CurrentInv'
  BY <1>1 DEF ShownInv, CurrentInv
<1>2. CASE OnStart
  BY <1>2 DEF OnStart, PushContext, ShownInv, CurrentInv
<1>3. ASSUME NEW f \in Maybe(Files), ChangeCurrent(f) PROVE ShownInv' /\ CurrentInv'
  BY <1>3 DEF ChangeCurrent, PushContext, ShownInv, CurrentInv, Maybe
<1>4. CASE \/ \E f \in Files : Open(f) \/ Close(f)
           \/ \E cmds \in answers : HandleCommand(cmds) \/ DropCommands(cmds)
           \/ \E m \in states : LoseState(m) \/ ApplyEditorState(m)
           \/ \E m \in contexts : LoseContext(m) \/ ApplyContext(m)
  BY <1>1, <1>4
     DEF Open, Close, Create, HandleCommand, DropCommands, LoseState, LoseContext,
         ApplyEditorState, ApplyContext, theia, wire
<1>5. CASE PullCommands \/ \E f \in Files : QueueCommand(f)
  BY <1>1, <1>5 DEF PullCommands, QueueCommand, theia, wire
<1>6. CASE Window
  BY <1>1, <1>6
     DEF Window, OnEditorStateChanged, SwitchToIde, SwitchAway, OnFolderOpened, Reload,
         WindowOnly, ShownInv, CurrentInv, Maybe, wire
<1>7. CASE UNCHANGED vars
  BY <1>1, <1>7 DEF vars, theia, wire
<1> QED
  BY <1>2, <1>3, <1>4, <1>5, <1>6, <1>7 DEF Next, Editor, Bridge

LEMMA MirrorStep ==
    TypeOK /\ ShownInv /\ [Next]_vars => [Mirror!WindowNext]_(Mirror!view)
<1> SUFFICES ASSUME TypeOK, ShownInv, [Next]_vars
             PROVE  [Mirror!WindowNext]_(Mirror!view)
  OBVIOUS
<1>1. ASSUME UNCHANGED <<shown, context>> PROVE [Mirror!WindowNext]_(Mirror!view)
  BY <1>1 DEF Mirror!view
<1>2. ASSUME NEW f \in Maybe(Files), ChangeCurrent(f)
      PROVE  [Mirror!WindowNext]_(Mirror!view)
  <2>1. shown' = shown \cup ({f} \ {None}) /\ context' = context
    BY <1>2 DEF ChangeCurrent, EditorOnly, iris
  <2>2. CASE f = None
    BY <1>1, <2>1, <2>2
  <2>3. CASE f # None
    <3>1. f \in Files /\ shown' = shown \cup {f}
      BY <2>1, <2>3 DEF Maybe
    <3>2. Mirror!Show("editor", f)
      BY <2>1, <3>1 DEF Mirror!Show
    <3> QED
      BY <3>1, <3>2 DEF Mirror!WindowNext
  <2> QED
    BY <2>2, <2>3
<1>3. ASSUME NEW m \in contexts, ApplyContext(m)
      PROVE  [Mirror!WindowNext]_(Mirror!view)
  <2>1. shown' = shown /\ context' = IF m.uri \in Secret THEN context ELSE m.uri
    BY <1>3 DEF ApplyContext
  <2>2. CASE m.uri \in Secret
    BY <1>1, <2>1, <2>2
  <2>3. CASE m.uri = None /\ m.uri \notin Secret
    <3>1. Mirror!Forget
      BY <2>1, <2>3 DEF Mirror!Forget, Mirror!Nothing
    <3> QED
      BY <3>1 DEF Mirror!WindowNext
  <2>4. CASE m.uri # None /\ m.uri \notin Secret
    <3>1. m.uri \in shown /\ m.uri \in Files
      BY <2>4 DEF ShownInv, Maybe, TypeOK
    <3>2. Mirror!Report("editor", m.uri)
      BY <2>1, <2>4, <3>1 DEF Mirror!Report
    <3> QED
      BY <3>1, <3>2 DEF Mirror!WindowNext
  <2> QED
    BY <2>2, <2>3, <2>4
<1>4. CASE \/ OnStart \/ PullCommands
           \/ \E f \in Files : Open(f) \/ Close(f) \/ QueueCommand(f)
           \/ \E cmds \in answers : HandleCommand(cmds) \/ DropCommands(cmds)
           \/ \E m \in states : LoseState(m) \/ ApplyEditorState(m)
           \/ \E m \in contexts : LoseContext(m)
  BY <1>1, <1>4
     DEF OnStart, PullCommands, Open, Close, QueueCommand, Create, HandleCommand,
         DropCommands, LoseState, LoseContext, ApplyEditorState, EditorOnly, iris
<1>5. CASE Window
  BY <1>1, <1>5
     DEF Window, OnEditorStateChanged, SwitchToIde, SwitchAway, OnFolderOpened, Reload,
         WindowOnly, iris
<1>6. CASE UNCHANGED vars
  BY <1>1, <1>6 DEF vars, iris
<1> QED
  BY <1>2, <1>3, <1>4, <1>5, <1>6 DEF Next, Editor, Bridge

\* The bridge implements the mirror: Iris only takes a file for the active one
\* that has been that and may be attached.
THEOREM BridgeMirrors == Spec => ImplementsMirror
<1>1. Init => Mirror!WindowInit
  BY DEF Init, Mirror!WindowInit, Mirror!Nothing
<1>2. Init => ShownInv /\ CurrentInv
  BY DEF Init, ShownInv, CurrentInv, Maybe
<1> QED
  BY <1>1, <1>2, InitType, StepType, ShownStep, MirrorStep, PTL
     DEF Spec, ImplementsMirror, Mirror!WindowSpec
=============================================================================
