---------------------------- MODULE WorkflowProofs ----------------------------
(***************************************************************************)
(* Whatever the definitions, the number of instances and of overlapping    *)
(* calls: an instance's status fits its state, only transitions of its own *)
(* version are ever recorded, and an instance that is used by one caller   *)
(* at a time is the machine of its definition.  Whatever the chain of      *)
(* approvals: a decision stands.  Whatever the flow graph: the history is  *)
(* a walk of it.                                                           *)
(***************************************************************************)
EXTENDS Workflow, ApprovalTasks, FlowEngine, SequenceTheorems, WellFoundedInduction, TLAPS

-----------------------------------------------------------------------------
(* Sequences *)

\* What is appended is the last element, the rest is the front.
LEMMA FrontLastOfAppend ==
    ASSUME NEW S, NEW s \in Seq(S), NEW e \in S
    PROVE  Append(s, e) # << >> /\ Last(Append(s, e)) = e /\ Front(Append(s, e)) = s
  <1>1. /\ Append(s, e) \in Seq(S) /\ Len(Append(s, e)) = Len(s) + 1
        /\ Append(s, e)[Len(s) + 1] = e
        /\ \A k \in 1..Len(s) : Append(s, e)[k] = s[k]
    OBVIOUS
  <1>2. Front(Append(s, e)) = SubSeq(Append(s, e), 1, Len(s))
    BY <1>1 DEF Front
  <1>3. SubSeq(Append(s, e), 1, Len(s)) = s
    BY <1>1
  <1> QED
    BY <1>1, <1>2, <1>3 DEF Last

\* A sequence is its front and its last element.
LEMMA FrontAndLast ==
    ASSUME NEW S, NEW s \in Seq(S), s # << >>
    PROVE  Append(Front(s), Last(s)) = s
  <1>1. PICK r \in Seq(S), e \in S : s = Append(r, e)
    BY SequenceEmptyOrAppend
  <1> QED
    BY <1>1, FrontLastOfAppend


-----------------------------------------------------------------------------
(* Workflow instances *)

Working == {"starting", "named", "guards", "entering", "aborting"}

\* What a call under way has read stays true: its instance exists, its
\* definition is an edition of the instance's version, its transition one of that
\* definition's, and an abort starts outside the final states of some edition.
CallsKnow ==
    \A c \in Calls : call[c].pc \in Working =>
        LET i == call[c].inst
        IN  /\ i \in Instances
            /\ store[i].status # "none"
            /\ call[c].pc # "aborting" => call[c].def \in Editions(store[i].version)
            /\ call[c].pc \in {"named", "guards", "entering"} =>
                   call[c].move \in Transitions[call[c].def]
            /\ call[c].pc = "aborting" =>
                   \E d \in Editions(store[i].version) : call[c].state \notin Final[d]

\* A stored instance has a version, one that is not stored has no history.
StoreIsSound ==
    \A i \in Instances :
        /\ store[i].status # "none" => store[i].version \in Versions
        /\ store[i].status = "none" => history[i] = << >>

IInv ==
    /\ TypeOK
    /\ CallsKnow
    /\ StoreIsSound
    /\ StatusMatchesState
    /\ OnlyDefinedTransitions

-----------------------------------------------------------------------------
\* The initial state has the invariant.
LEMMA InitIsSound == Init => IInv
  <1> SUFFICES ASSUME Init PROVE IInv
    OBVIOUS
  <1>1. TypeOK
    BY DEF Init, TypeOK, Idle, Call, NoMove, CallRecord, Statuses, Ended
  <1>2. CallsKnow
    BY DEF Init, CallsKnow, Idle, Call, Working
  <1>3. StoreIsSound /\ StatusMatchesState
    BY DEF Init, StoreIsSound, StatusMatchesState
  <1>4. OnlyDefinedTransitions
    BY DEF Init, OnlyDefinedTransitions, ToSet
  <1> QED
    BY <1>1, <1>2, <1>3, <1>4 DEF IInv

\* A transition of a definition that is known moves to a state that is known.
LEMMA MovesAreKnown ==
    ASSUME NEW d \in Definitions, NEW t \in Transitions[d]
    PROVE  t \in Moves /\ t.to \in States
  BY DEF Moves, States

\* A call that ends keeps the rest of its record.
LEMMA EndedCallIsTyped ==
    ASSUME TypeOK, NEW c \in Calls, NEW pc \in Ended, Goto(c, pc)
    PROVE  call' \in [Calls -> CallRecord]
  <1>1. call \in [Calls -> CallRecord] /\ call[c] \in CallRecord
    BY DEF TypeOK
  <1>2. [call[c] EXCEPT !.pc = pc] \in CallRecord
    BY <1>1 DEF CallRecord
  <1> QED
    BY <1>1, <1>2 DEF Goto

\* Where a call goes, no other call and nothing else of its record goes along.
LEMMA GoesAlone ==
    ASSUME TypeOK, NEW c \in Calls, NEW pc, Goto(c, pc)
    PROVE  /\ call'[c].pc = pc
           /\ call'[c].inst = call[c].inst
           /\ \A d \in Calls : d # c => call'[d] = call[d]
  <1>1. call \in [Calls -> CallRecord] /\ call[c] \in CallRecord
    BY DEF TypeOK
  <1>2. /\ call'[c] = [call[c] EXCEPT !.pc = pc]
        /\ \A d \in Calls : d # c => call'[d] = call[d]
    BY <1>1 DEF Goto
  <1>3. DOMAIN call[c] = {"pc", "inst", "state", "move", "def"}
    BY <1>1 DEF CallRecord
  <1> QED
    BY <1>2, <1>3

\* Two fields of one record of a function are replaced, everything else stays.
LEMMA TwoFieldsReplaced ==
    ASSUME NEW S, NEW A, NEW B, NEW C,
           NEW f \in [S -> [status : A, state : B, version : C]],
           NEW i \in S, NEW a \in A, NEW b \in B, NEW g,
           g = [f EXCEPT ![i].status = a, ![i].state = b]
    PROVE  /\ g \in [S -> [status : A, state : B, version : C]]
           /\ \A j \in S : j # i => g[j] = f[j]
           /\ g[i].status = a
           /\ g[i].state = b
           /\ g[i].version = f[i].version
  <1> DEFINE half == [f EXCEPT ![i].status = a]
  <1>1. g = [half EXCEPT ![i].state = b]
    OBVIOUS
  <1>2. /\ half \in [S -> [status : A, state : B, version : C]]
        /\ \A j \in S : j # i => half[j] = f[j]
        /\ half[i].status = a
        /\ half[i].version = f[i].version
    OBVIOUS
  <1> HIDE DEF half
  <1>3. g[i] = [half[i] EXCEPT !.state = b] /\ \A j \in S : j # i => g[j] = half[j]
    BY <1>1, <1>2
  <1>5. half[i] \in [status : A, state : B, version : C]
    BY <1>2
  <1>4. g \in [S -> [status : A, state : B, version : C]]
    <2>1. [half[i] EXCEPT !.state = b] \in [status : A, state : B, version : C]
      BY <1>5
    <2>2. g = [half EXCEPT ![i] = [half[i] EXCEPT !.state = b]]
      BY <1>1
    <2> QED
      BY <1>2, <2>1, <2>2
  <1>6. g[i].status = half[i].status /\ g[i].state = b /\ g[i].version = half[i].version
    BY <1>3, <1>5
  <1> QED
    BY <1>2, <1>3, <1>4, <1>6

\* A call that ends takes nothing along.
LEMMA CallEnds ==
    ASSUME IInv, NEW c \in Calls, NEW pc \in Ended, Goto(c, pc),
           UNCHANGED <<registered, store, history>>
    PROVE  IInv'
  <1>1. TypeOK'
    BY EndedCallIsTyped DEF IInv, TypeOK
  <1>2. CallsKnow'
    <2> SUFFICES ASSUME NEW d \in Calls, call'[d].pc \in Working
                 PROVE  d # c /\ call'[d] = call[d]
      BY DEF IInv, CallsKnow
    <2> QED
      BY DEF IInv, TypeOK, CallRecord, Goto, Ended, Working
  <1> QED
    BY <1>1, <1>2 DEF IInv, StoreIsSound, StatusMatchesState, OnlyDefinedTransitions

\* A call that reads an instance knows what it has read.
LEMMA CallReads ==
    ASSUME IInv, NEW c \in Calls, NEW i \in Instances, store[i].status = "running",
           NEW pc \in {"named", "guards", "aborting"}, NEW move, NEW d,
           pc # "aborting" => d \in Editions(store[i].version) /\ move \in Transitions[d],
           pc = "aborting" => move = NoMove /\ d = "none",
           call' = [call EXCEPT ![c] = Call(pc, i, store[i].state, move, d)],
           UNCHANGED <<registered, store, history>>
    PROVE  IInv'
  <1>2. move \in Moves \union {NoMove} /\ d \in Definitions \union {"none"}
    BY MovesAreKnown DEF Editions
  <1>3. store[i].state \in States \union {"none"}
    BY DEF IInv, TypeOK
  <1>4. TypeOK'
    BY <1>2, <1>3 DEF IInv, TypeOK, Call, CallRecord, Ended
  <1>5. \E e \in Editions(store[i].version) : store[i].state \notin Final[e]
    BY DEF IInv, StatusMatchesState
  <1>6. CallsKnow'
    BY <1>5 DEF IInv, TypeOK, CallsKnow, Call, Working
  <1> QED
    BY <1>4, <1>6 DEF IInv, StoreIsSound, StatusMatchesState, OnlyDefinedTransitions

\* What Store changes.
LEMMA StoreChanges ==
    ASSUME IInv, NEW c \in Calls, call[c].pc \in Working, NEW st \in Statuses, Store(c, st)
    PROVE  LET i == call[c].inst
           IN  /\ i \in Instances
               /\ store' \in [Instances -> [status : Statuses, state : States \union {"none"},
                                            version : Versions \union {"none"}]]
               /\ \A j \in Instances : j # i => store'[j] = store[j]
               /\ store'[i].status = st
               /\ store'[i].state = call[c].state
               /\ store'[i].version = store[i].version
               /\ history' = history
  <1> DEFINE i == call[c].inst
  <1>1. i \in Instances /\ call[c].state \in States \union {"none"}
    BY DEF IInv, CallsKnow, TypeOK, CallRecord
  <1>2. store \in [Instances -> [status : Statuses, state : States \union {"none"},
                                 version : Versions \union {"none"}]]
    BY DEF IInv, TypeOK
  <1> QED
    BY <1>1, <1>2, TwoFieldsReplaced DEF Store

\* A call that stores its copy with a status that fits the state of the copy.
LEMMA CallStores ==
    ASSUME IInv, NEW c \in Calls, call[c].pc \in Working,
           NEW st \in Statuses \ {"none", "pending"}, Store(c, st),
           st = "completed" =>
               \E d \in Editions(store[call[c].inst].version) : call[c].state \in Final[d],
           st # "completed" =>
               \E d \in Editions(store[call[c].inst].version) : call[c].state \notin Final[d]
    PROVE  IInv'
  <1> DEFINE i == call[c].inst
  <1>1. i \in Instances /\ store[i].status # "none"
    BY DEF IInv, CallsKnow
  <1>2. /\ store' \in [Instances -> [status : Statuses, state : States \union {"none"},
                                     version : Versions \union {"none"}]]
        /\ \A j \in Instances : j # i => store'[j] = store[j]
        /\ store'[i].status = st
        /\ store'[i].state = call[c].state
        /\ store'[i].version = store[i].version
    BY StoreChanges
  <1>c. Goto(c, "done") /\ UNCHANGED <<registered, history>>
    BY DEF Store
  <1>3. TypeOK'
    BY <1>2, <1>c, EndedCallIsTyped DEF IInv, TypeOK, Ended
  <1>4. CallsKnow'
    <2> SUFFICES ASSUME NEW d \in Calls, call'[d].pc \in Working
                 PROVE  call'[d] = call[d]
      <3>1. \A j \in Instances :
               /\ store'[j].version = store[j].version
               /\ store[j].status # "none" => store'[j].status # "none"
        BY <1>1, <1>2
      <3> QED
        BY <3>1 DEF IInv, CallsKnow
    <2> QED
      BY <1>c, GoesAlone DEF IInv, Working
  <1>5. StoreIsSound'
    BY <1>1, <1>2, <1>c DEF IInv, StoreIsSound
  <1>6. StatusMatchesState'
    BY <1>1, <1>2 DEF IInv, StatusMatchesState
  <1>7. OnlyDefinedTransitions'
    BY <1>1, <1>2, <1>c DEF IInv, OnlyDefinedTransitions
  <1> QED
    BY <1>3, <1>4, <1>5, <1>6, <1>7 DEF IInv

\* A move is recorded in the history of its instance.
LEMMA MoveIsSound ==
    ASSUME IInv, NEW c \in Calls, Move(c)
    PROVE  IInv'
  <1> DEFINE i == call[c].inst
             t == call[c].move
  <1>1. /\ i \in Instances /\ store[i].status # "none"
        /\ call[c].def \in Editions(store[i].version) /\ t \in Transitions[call[c].def]
    BY DEF IInv, CallsKnow, Move, Working
  <1>2. t \in Moves /\ t.to \in States
    BY <1>1, MovesAreKnown DEF Editions
  <1>3. history \in [Instances -> Seq(Moves)] /\ call \in [Calls -> CallRecord]
    BY DEF IInv, TypeOK
  <1>4. history' = [history EXCEPT ![i] = Append(history[i], t)]
    BY DEF Move
  <1>5. history[i] \in Seq(Moves) /\ Append(history[i], t) \in Seq(Moves)
    BY <1>1, <1>2, <1>3
  <1>6. history' \in [Instances -> Seq(Moves)]
    BY <1>3, <1>4, <1>5
  <1>7. TypeOK'
    <2>1. call' \in [Calls -> CallRecord]
      <3>1. call[c] \in CallRecord
        BY <1>3
      <3>2. [call[c] EXCEPT !.pc = "entering", !.state = t.to] \in CallRecord
        BY <1>2, <3>1 DEF CallRecord
      <3>3. call' = [call EXCEPT ![c] = [call[c] EXCEPT !.pc = "entering", !.state = t.to]]
        BY <1>3, <3>1 DEF Move
      <3> QED
        BY <1>3, <3>2, <3>3
    <2> QED
      BY <1>6, <2>1 DEF IInv, TypeOK, Move
  <1>8. CallsKnow'
    <2>1. call[c] \in CallRecord
      BY <1>3
    <2>2. /\ \A d \in Calls : d # c => call'[d] = call[d]
          /\ call'[c] = [call[c] EXCEPT !.pc = "entering", !.state = t.to]
      BY <1>3 DEF Move
    <2>3. /\ call'[c].pc = "entering" /\ call'[c].inst = i
          /\ call'[c].move = t /\ call'[c].def = call[c].def
      BY <2>1, <2>2 DEF CallRecord
    <2>4. store' = store
      BY DEF Move
    <2> SUFFICES ASSUME NEW d \in Calls, call'[d].pc \in Working
                 PROVE  LET j == call'[d].inst
                        IN  /\ j \in Instances
                            /\ store[j].status # "none"
                            /\ call'[d].pc # "aborting" =>
                                   call'[d].def \in Editions(store[j].version)
                            /\ call'[d].pc \in {"named", "guards", "entering"} =>
                                   call'[d].move \in Transitions[call'[d].def]
                            /\ call'[d].pc = "aborting" =>
                                   \E e \in Editions(store[j].version) :
                                       call'[d].state \notin Final[e]
      BY <2>4 DEF CallsKnow
    <2>5. CASE d = c
      BY <1>1, <2>3, <2>5
    <2>6. CASE d # c
      BY <2>2, <2>6 DEF IInv, CallsKnow
    <2> QED
      BY <2>5, <2>6
  <1>9. StoreIsSound'
    BY <1>1, <1>3, <1>4 DEF IInv, StoreIsSound, Move
  <1>10. OnlyDefinedTransitions'
    <2> SUFFICES ASSUME NEW j \in Instances, NEW u \in ToSet(history'[j])
                 PROVE  \E d \in Editions(store[j].version) : u \in Transitions[d]
      BY DEF OnlyDefinedTransitions, Move
    <2>1. CASE j # i
      BY <1>3, <1>4, <2>1 DEF IInv, OnlyDefinedTransitions
    <2>2. CASE j = i
      <3>1. history'[j] = Append(history[i], t)
        BY <1>1, <1>3, <1>4, <2>2
      <3>2. PICK k \in 1..(Len(history[i]) + 1) : u = Append(history[i], t)[k]
        BY <1>5, <3>1 DEF ToSet
      <3>3. CASE k = Len(history[i]) + 1
        BY <1>1, <1>5, <2>2, <3>2, <3>3
      <3>4. CASE k \in 1..Len(history[i])
        <4>1. u = history[i][k] /\ u \in ToSet(history[i])
          BY <1>5, <3>2, <3>4 DEF ToSet
        <4> QED
          BY <1>1, <2>2, <4>1 DEF IInv, OnlyDefinedTransitions
      <3> QED
        BY <1>5, <3>3, <3>4
    <2> QED
      BY <2>1, <2>2
  <1> QED
    BY <1>7, <1>8, <1>9, <1>10 DEF IInv, StatusMatchesState, Move

\* A new instance is pending, in the initial state, with an empty history.
LEMMA StartIsSound ==
    ASSUME IInv, NEW c \in Calls, NEW i \in Instances, StartWorkflow(c, i)
    PROVE  IInv'
  <1>1. PICK d \in ToSet(registered) :
           /\ store' = [store EXCEPT ![i] = [status |-> "pending", state |-> Initial[d],
                                             version |-> Version[d]]]
           /\ call' = [call EXCEPT ![c] = Call("starting", i, Initial[d], NoMove, d)]
    BY DEF StartWorkflow
  <1>2. d \in Definitions /\ Version[d] \in Versions /\ Initial[d] \in States
    BY WorkflowAssumption DEF IInv, TypeOK, ToSet, States
  <1>3. UNCHANGED <<registered, history>> /\ store[i].status = "none"
    BY DEF StartWorkflow
  <1>4. TypeOK'
    BY <1>1, <1>2, <1>3 DEF IInv, TypeOK, Call, CallRecord, Ended, Statuses
  <1>5. /\ \A j \in Instances : j # i => store'[j] = store[j]
        /\ store'[i] = [status |-> "pending", state |-> Initial[d], version |-> Version[d]]
    BY <1>1 DEF IInv, TypeOK
  <1>6. CallsKnow'
    <2>1. call'[c] = Call("starting", i, Initial[d], NoMove, d)
      BY <1>1 DEF IInv, TypeOK
    <2>2. d \in Editions(store'[i].version)
      BY <1>2, <1>5 DEF Editions
    <2>3. ASSUME NEW o \in Calls, o # c, call'[o].pc \in Working
          PROVE  call'[o] = call[o] /\ call[o].inst # i /\ call[o].inst \in Instances
      BY <1>1, <1>3, <2>3 DEF IInv, TypeOK, CallsKnow
    <2>4. store'[i].status = "pending"
      BY <1>5
    <2>5. \A o \in Calls : o # c /\ call'[o].pc \in Working =>
             store'[call'[o].inst] = store[call[o].inst]
      BY <1>5, <2>3
    <2> QED
      BY <2>1, <2>2, <2>3, <2>4, <2>5 DEF IInv, CallsKnow, Call
  <1>7. StoreIsSound'
    BY <1>2, <1>3, <1>5 DEF IInv, StoreIsSound
  <1>8. StatusMatchesState'
    BY <1>5 DEF IInv, StatusMatchesState
  <1>9. OnlyDefinedTransitions'
    <2>1. history[i] = << >>
      BY <1>3 DEF IInv, StoreIsSound
    <2>2. ToSet(history'[i]) = {}
      BY <1>3, <2>1 DEF ToSet
    <2>3. \A j \in Instances : j # i => store'[j] = store[j] /\ history'[j] = history[j]
      BY <1>3, <1>5
    <2> QED
      BY <2>2, <2>3 DEF IInv, OnlyDefinedTransitions
  <1> QED
    BY <1>4, <1>6, <1>7, <1>8, <1>9 DEF IInv

\* A version is registered once, whatever it is registered with.
LEMMA RegisterIsSound ==
    ASSUME IInv, NEW d \in Definitions, RegisterWorkflow(d)
    PROVE  IInv'
  <1>1. /\ registered \in Seq(Definitions)
        /\ \A k, n \in DOMAIN registered :
               Version[registered[k]] = Version[registered[n]] => k = n
    BY DEF IInv, TypeOK
  <1> DEFINE Kept ==
        /\ registered' \in Seq(Definitions)
        /\ \A k, n \in DOMAIN registered' :
               Version[registered'[k]] = Version[registered'[n]] => k = n
  <1>2. Kept
    <2>1. ASSUME NEW k \in DOMAIN registered, Version[registered[k]] = Version[d],
                 registered' = [registered EXCEPT ![k] = d]
          PROVE  Kept
      <3>1. /\ registered' \in Seq(Definitions) /\ DOMAIN registered' = DOMAIN registered
            /\ \A n \in DOMAIN registered : Version[registered'[n]] = Version[registered[n]]
        BY <1>1, <2>1
      <3> QED
        BY <1>1, <3>1
    <2>2. ASSUME \A k \in DOMAIN registered : Version[registered[k]] # Version[d],
                 registered' = Append(registered, d)
          PROVE  Kept
      BY <1>1, <2>2
    <2> QED
      BY <2>1, <2>2 DEF RegisterWorkflow
  <1>3. TypeOK'
    BY <1>2 DEF IInv, TypeOK, RegisterWorkflow
  <1> QED
    BY <1>3 DEF IInv, CallsKnow, StoreIsSound, StatusMatchesState, OnlyDefinedTransitions,
                RegisterWorkflow

-----------------------------------------------------------------------------
\* What is registered for a version is one of its editions.
LEMMA DefinedIsEdition ==
    ASSUME TypeOK, NEW v, NEW d \in Defined(v)
    PROVE  d \in Editions(v)
  BY DEF TypeOK, Defined, Editions, ToSet

\* Reading the instance, in executeTransition and in the plugin.
LEMMA AttemptIsSound ==
    ASSUME IInv, NEW c \in Calls, NEW i \in Instances, NEW name,
           Attempt(c, i, name)
    PROVE  IInv'
  <1>1. CASE ~Goto(c, "failed")
    <2>0. PICK d \in Defined(store[i].version) :
             \E t \in Available(i, d, name) :
                /\ store[i].status = "running"
                /\ call' = [call EXCEPT ![c] = Call("guards", i, store[i].state, t, d)]
      BY <1>1 DEF Attempt
    <2>1. PICK t \in Available(i, d, name) :
             /\ store[i].status = "running"
             /\ call' = [call EXCEPT ![c] = Call("guards", i, store[i].state, t, d)]
      BY <2>0
    <2>2. d \in Editions(store[i].version) /\ t \in Transitions[d]
      BY <2>1, DefinedIsEdition DEF Available, IInv
    <2> QED
      BY <2>1, <2>2, CallReads DEF Attempt
  <1>2. CASE Goto(c, "failed")
    BY <1>2, CallEnds DEF Attempt, Ended
  <1> QED
    BY <1>1, <1>2 DEF Attempt

\* Every step keeps the invariant.
LEMMA StepIsSound == IInv /\ [Next]_vars => IInv'
  <1> SUFFICES ASSUME IInv, [Next]_vars PROVE IInv'
    OBVIOUS
  <1>1. CASE UNCHANGED vars
    BY <1>1 DEF vars, IInv, TypeOK, CallsKnow, StoreIsSound, StatusMatchesState,
                OnlyDefinedTransitions
  <1>2. ASSUME NEW d \in Definitions, RegisterWorkflow(d) PROVE IInv'
    BY <1>2, RegisterIsSound
  <1>3. ASSUME NEW c \in Calls, NEW i \in Instances, Begin(c, i) PROVE IInv'
    <2>1. CASE StartWorkflow(c, i)
      BY <2>1, StartIsSound
    <2>2. CASE StartNotFound(c, i)
      BY <2>2, CallEnds DEF StartNotFound, Ended
    <2>3. ASSUME NEW name \in Names, ExecuteTransition(c, i, name) PROVE IInv'
      BY <2>3, AttemptIsSound DEF ExecuteTransition
    <2>4. ASSUME NEW s \in States, PluginTransition(c, i, s) PROVE IInv'
      <3>1. CASE Goto(c, "failed")
        BY <2>4, <3>1, CallEnds DEF PluginTransition, Ended
      <3>2. CASE ~Goto(c, "failed")
        <4>0. PICK d \in Defined(store[i].version) :
                 \E t \in Transitions[d] :
                    call' = [call EXCEPT ![c] = Call("named", i, store[i].state, t, d)]
          BY <2>4, <3>2 DEF PluginTransition
        <4>1. PICK t \in Transitions[d] :
                 call' = [call EXCEPT ![c] = Call("named", i, store[i].state, t, d)]
          BY <4>0
        <4>2. d \in Editions(store[i].version)
          BY <4>1, DefinedIsEdition DEF IInv
        <4> QED
          BY <2>4, <4>1, <4>2, CallReads DEF PluginTransition
      <3> QED
        BY <3>1, <3>2
    <2>5. CASE AbortWorkflow(c, i)
      <3>1. CASE Goto(c, "failed")
        BY <2>5, <3>1, CallEnds DEF AbortWorkflow, Ended
      <3>2. CASE ~Goto(c, "failed")
        BY <2>5, <3>2, CallReads DEF AbortWorkflow
      <3> QED
        BY <3>1, <3>2
    <2> QED
      BY <1>3, <2>1, <2>2, <2>3, <2>4, <2>5 DEF Begin
  <1>4. ASSUME NEW c \in Calls, Continue(c) PROVE IInv'
    <2>1. CASE PluginExecute(c)
      <3>1. call[c].inst \in Instances
        BY <2>1 DEF IInv, TypeOK, CallRecord, CallsKnow, PluginExecute, Working
      <3> QED
        BY <2>1, <3>1, AttemptIsSound DEF PluginExecute
    <2>2. CASE StartStores(c)
      <3>1. call[c].def \in Editions(store[call[c].inst].version)
        BY <2>2 DEF IInv, CallsKnow, StartStores, Working
      <3> QED
        BY <2>2, <3>1, CallStores DEF StartStores, StatusIn, Statuses, Working
    <2>3. CASE StartFails(c) \/ TransitionBlocked(c) \/ EnterFails(c) \/ AbortFails(c)
      BY <2>3, CallEnds DEF StartFails, TransitionBlocked, EnterFails, AbortFails, Ended
    <2>4. CASE Move(c)
      BY <2>4, MoveIsSound
    <2>5. CASE TransitionStores(c)
      <3>1. call[c].def \in Editions(store[call[c].inst].version)
        BY <2>5 DEF IInv, CallsKnow, TransitionStores, Working
      <3> QED
        BY <2>5, <3>1, CallStores DEF TransitionStores, StatusIn, Statuses, Working
    <2>6. CASE AbortStores(c)
      <3>1. \E d \in Editions(store[call[c].inst].version) : call[c].state \notin Final[d]
        BY <2>6 DEF IInv, CallsKnow, AbortStores, Working
      <3> QED
        BY <2>6, <3>1, CallStores DEF AbortStores, Statuses, Working
    <2> QED
      BY <1>4, <2>1, <2>2, <2>3, <2>4, <2>5, <2>6 DEF Continue
  <1> QED
    BY <1>1, <1>2, <1>3, <1>4 DEF Next

LEMMA Soundness == Spec => []IInv
  BY InitIsSound, StepIsSound, PTL DEF Spec

\* An instance is completed exactly when its state is final, whatever calls
\* overlap and whichever actions throw (engine.ts:92-95, 171-175).
THEOREM StatusFitsState == Spec => [](TypeOK /\ StatusMatchesState)
  <1>1. IInv => TypeOK /\ StatusMatchesState
    BY DEF IInv
  <1> QED
    BY <1>1, Soundness, PTL

\* The history holds transitions of the instance's own version only
\* (api.ts:96, engine.ts:115-121, 152-160).
THEOREM OnlyOwnTransitions == Spec => []OnlyDefinedTransitions
  <1>1. IInv => OnlyDefinedTransitions
    BY DEF IInv
  <1> QED
    BY <1>1, Soundness, PTL

-----------------------------------------------------------------------------
(* An orderly instance is the machine *)

\* On an orderly instance one call works at a time.
OneAtATime ==
    \A c, d \in Calls :
        /\ call[c].pc \in Working
        /\ call[d].pc \in Working
        /\ call[c].inst = call[d].inst
        /\ call[c].inst \in Orderly
        => c = d

\* What a call on an orderly instance has read is what is still stored, and the
\* move whose onEnter runs is the last of the history.
Fresh(c) ==
    call[c].pc \in Working /\ call[c].inst \in Orderly =>
        LET i == call[c].inst
            move == call[c].move
        IN  /\ call[c].pc = "starting" => store[i].status = "pending"
            /\ call[c].pc # "starting" => store[i].status = "running"
            /\ call[c].pc # "entering" => call[c].state = store[i].state
            /\ call[c].pc \in {"named", "guards", "entering"} => move.from = store[i].state
            /\ call[c].pc = "entering" =>
                   /\ call[c].state = move.to
                   /\ history[i] # << >>
                   /\ Last(history[i]) = move

RInv == IInv /\ OneAtATime /\ \A c \in Calls : Fresh(c)

LEMMA InitIsFresh == Init => RInv
  <1> SUFFICES ASSUME Init PROVE OneAtATime /\ \A c \in Calls : Fresh(c)
    BY InitIsSound DEF RInv
  <1> QED
    BY DEF Init, OneAtATime, Fresh, Idle, Call, Working

\* Two working calls are on different instances, if these are orderly.
LEMMA WorksAlone ==
    ASSUME RInv, NEW c \in Calls, call[c].pc \in Working,
           NEW d \in Calls, d # c, call[d].pc \in Working, call[d].inst \in Orderly
    PROVE  call[d].inst # call[c].inst
  BY DEF RInv, OneAtATime

\* A call that begins on an instance is the only one at work on it.
LEMMA BeginsAlone ==
    ASSUME NEW c \in Calls, NEW i, MayBegin(c, i),
           NEW d \in Calls, call[d].pc \in Working, call[d].inst \in Orderly
    PROVE  d # c /\ call[d].inst # i
  BY DEF MayBegin, Working, Ended, Orderly

\* A step of one call, on an instance where no other works, keeps what the
\* others know.
LEMMA OthersStayFresh ==
    ASSUME RInv, IInv', NEW c \in Calls, NEW i,
           \A d \in Calls : d # c => call'[d] = call[d],
           \A d \in Calls : d # c /\ call[d].pc \in Working /\ call[d].inst \in Orderly =>
               call[d].inst # i,
           \A j \in Instances : j # i => store'[j] = store[j] /\ history'[j] = history[j],
           call'[c].pc \in Working => call'[c].inst = i,
           Fresh(c)'
    PROVE  RInv'
  <1>1. OneAtATime'
    BY DEF RInv, OneAtATime
  <1>2. ASSUME NEW d \in Calls PROVE Fresh(d)'
    <2>1. CASE d = c
      BY <2>1
    <2>2. CASE d # c
      <3> SUFFICES ASSUME call[d].pc \in Working, call[d].inst \in Orderly PROVE Fresh(d)'
        BY <2>2 DEF Fresh
      <3>1. call[d].inst \in Instances /\ call[d].inst # i
        BY <2>2, WorkflowAssumption DEF Orderly
      <3>2. store'[call[d].inst] = store[call[d].inst] /\ history'[call[d].inst] = history[call[d].inst]
        BY <3>1
      <3> QED
        BY <2>2, <3>2 DEF RInv, Fresh
    <2> QED
      BY <2>1, <2>2
  <1> QED
    BY <1>1, <1>2 DEF RInv

\* A call that ends knows nothing any more.
LEMMA EndsFresh ==
    ASSUME RInv, IInv', NEW c \in Calls, NEW pc \in Ended, Goto(c, pc), 
           UNCHANGED <<store, history>>
    PROVE  RInv'
  <1>1. call'[c].pc \notin Working /\ \A d \in Calls : d # c => call'[d] = call[d]
    BY GoesAlone DEF RInv, IInv, Ended, Working
  <1>2. Fresh(c)'
    BY <1>1 DEF Fresh
  <1>3. ASSUME NEW d \in Calls, d # c PROVE Fresh(d)'
    BY <1>1, <1>3 DEF RInv, Fresh
  <1>4. OneAtATime'
    BY <1>1 DEF RInv, OneAtATime
  <1> QED
    BY <1>2, <1>3, <1>4 DEF RInv

\* A call that reads an instance, and that has it for itself if it is orderly.
LEMMA ReadsFresh ==
    ASSUME RInv, IInv', NEW c \in Calls, NEW i \in Instances, store[i].status = "running",
           \A d \in Calls : d # c /\ call[d].pc \in Working /\ call[d].inst \in Orderly =>
               call[d].inst # i,
           NEW pc \in {"named", "guards", "aborting"}, NEW move, NEW def,
           pc # "aborting" => move.from = store[i].state,
           call' = [call EXCEPT ![c] = Call(pc, i, store[i].state, move, def)],
           UNCHANGED <<store, history>>
    PROVE  RInv'
  <1>1. /\ call'[c] = Call(pc, i, store[i].state, move, def)
        /\ \A d \in Calls : d # c => call'[d] = call[d]
    BY DEF RInv, IInv, TypeOK
  <1>2. Fresh(c)'
    BY <1>1 DEF Fresh, Call
  <1>3. call'[c].inst = i
    BY <1>1 DEF Call
  <1> QED
    BY <1>1, <1>2, <1>3, OthersStayFresh

\* A call that stores its copy is over.
LEMMA StoresFresh ==
    ASSUME RInv, IInv', NEW c \in Calls, call[c].pc \in Working, NEW st \in Statuses, Store(c, st)
    PROVE  RInv'
  <1> DEFINE i == call[c].inst
  <1>1. call'[c].pc \notin Working /\ \A d \in Calls : d # c => call'[d] = call[d]
    BY DEF RInv, IInv, TypeOK, CallRecord, Store, Goto, Working
  <1>2. Fresh(c)'
    BY <1>1 DEF Fresh
  <1>3. \A j \in Instances : j # i => store'[j] = store[j] /\ history'[j] = history[j]
    BY StoreChanges DEF RInv
  <1>4. \A d \in Calls : d # c /\ call[d].pc \in Working /\ call[d].inst \in Orderly =>
            call[d].inst # i
    BY WorksAlone
  <1> QED
    BY <1>1, <1>2, <1>3, <1>4, OthersStayFresh

\* A transition is looked up in what the storage holds.
LEMMA AttemptFresh ==
    ASSUME RInv, IInv', NEW c \in Calls, NEW i \in Instances, NEW name, Attempt(c, i, name),
           \A d \in Calls : d # c /\ call[d].pc \in Working /\ call[d].inst \in Orderly =>
               call[d].inst # i
    PROVE  RInv'
  <1>1. CASE Goto(c, "failed")
    BY <1>1, EndsFresh DEF Attempt, Ended
  <1>2. CASE ~Goto(c, "failed")
    <2>0. PICK d \in Defined(store[i].version) :
             \E t \in Available(i, d, name) :
                /\ store[i].status = "running"
                /\ call' = [call EXCEPT ![c] = Call("guards", i, store[i].state, t, d)]
      BY <1>2 DEF Attempt
    <2>1. PICK t \in Available(i, d, name) :
             /\ store[i].status = "running"
             /\ call' = [call EXCEPT ![c] = Call("guards", i, store[i].state, t, d)]
      BY <2>0
    <2> QED
      BY <2>1, ReadsFresh DEF Attempt, Available
  <1> QED
    BY <1>1, <1>2

\* A move is the last of the history until its call is over.
LEMMA MoveFresh ==
    ASSUME RInv, IInv', NEW c \in Calls, Move(c)
    PROVE  RInv'
  <1> DEFINE i == call[c].inst
  <1>1. /\ call \in [Calls -> CallRecord] /\ history \in [Instances -> Seq(Moves)]
        /\ i \in Instances /\ call[c].pc \in Working
    BY DEF RInv, IInv, TypeOK, CallsKnow, Move, Working
  <1>2. /\ \A d \in Calls : d # c => call'[d] = call[d]
        /\ call'[c].pc = "entering" /\ call'[c].inst = i
        /\ call'[c].move = call[c].move /\ call'[c].state = call[c].move.to
    BY <1>1 DEF Move, CallRecord
  <1>3. history'[i] = Append(history[i], call[c].move) /\ call[c].move \in Moves
    BY <1>1 DEF Move, RInv, IInv, TypeOK
  <1>4. history'[i] # << >> /\ Last(history'[i]) = call[c].move
    BY <1>1, <1>3, FrontLastOfAppend
  <1>5. Fresh(c)'
    BY <1>2, <1>4 DEF RInv, Fresh, Move, Working
  <1>6. \A d \in Calls : d # c /\ call[d].pc \in Working /\ call[d].inst \in Orderly =>
            call[d].inst # i
    BY <1>1, WorksAlone
  <1>7. \A j \in Instances : j # i => store'[j] = store[j] /\ history'[j] = history[j]
    BY <1>1 DEF Move
  <1> QED
    BY <1>2, <1>5, <1>6, <1>7, OthersStayFresh

\* A start writes the initial state it knows.
LEMMA StartFresh ==
    ASSUME RInv, IInv', NEW c \in Calls, NEW i \in Instances, StartWorkflow(c, i)
    PROVE  RInv'
  <1>1. PICK d \in ToSet(registered) :
           /\ store' = [store EXCEPT ![i] = [status |-> "pending", state |-> Initial[d],
                                             version |-> Version[d]]]
           /\ call' = [call EXCEPT ![c] = Call("starting", i, Initial[d], NoMove, d)]
    BY DEF StartWorkflow
  <1>2. /\ store'[i] = [status |-> "pending", state |-> Initial[d], version |-> Version[d]]
        /\ \A j \in Instances : j # i => store'[j] = store[j] /\ history'[j] = history[j]
    BY <1>1 DEF RInv, IInv, TypeOK, StartWorkflow
  <1>3. /\ call'[c] = Call("starting", i, Initial[d], NoMove, d)
        /\ \A o \in Calls : o # c => call'[o] = call[o]
    BY <1>1 DEF RInv, IInv, TypeOK
  <1>4. Fresh(c)' /\ call'[c].inst = i
    BY <1>2, <1>3 DEF Fresh, Call
  <1>5. \A o \in Calls : o # c /\ call[o].pc \in Working /\ call[o].inst \in Orderly =>
            call[o].inst # i
    BY BeginsAlone DEF StartWorkflow
  <1> QED
    BY <1>2, <1>3, <1>4, <1>5, OthersStayFresh

LEMMA StepIsFresh == RInv /\ [Next]_vars => RInv'
  <1> SUFFICES ASSUME RInv, [Next]_vars PROVE RInv'
    OBVIOUS
  <1>i. IInv'
    BY StepIsSound DEF RInv
  <1>1. CASE UNCHANGED vars
    BY <1>i, <1>1 DEF vars, RInv, OneAtATime, Fresh
  <1>2. ASSUME NEW d \in Definitions, RegisterWorkflow(d) PROVE RInv'
    BY <1>i, <1>2 DEF RegisterWorkflow, RInv, OneAtATime, Fresh
  <1>3. ASSUME NEW c \in Calls, NEW i \in Instances, Begin(c, i) PROVE RInv'
    <2>b. MayBegin(c, i)
      BY <1>3 DEF Begin, StartWorkflow, StartNotFound, ExecuteTransition, PluginTransition,
                  AbortWorkflow
    <2>a. \A d \in Calls : d # c /\ call[d].pc \in Working /\ call[d].inst \in Orderly =>
              call[d].inst # i
      BY <2>b, BeginsAlone
    <2>1. CASE StartWorkflow(c, i)
      BY <1>i, <2>1, StartFresh
    <2>2. CASE StartNotFound(c, i)
      BY <1>i, <2>2, EndsFresh DEF StartNotFound, Ended
    <2>3. ASSUME NEW name \in Names, ExecuteTransition(c, i, name) PROVE RInv'
      BY <1>i, <2>a, <2>3, AttemptFresh DEF ExecuteTransition
    <2>4. ASSUME NEW s \in States, PluginTransition(c, i, s) PROVE RInv'
      <3>1. CASE Goto(c, "failed")
        BY <1>i, <2>4, <3>1, EndsFresh DEF PluginTransition, Ended
      <3>2. CASE ~Goto(c, "failed")
        <4>0. PICK d \in Defined(store[i].version) :
                 \E t \in Transitions[d] :
                    /\ t.from = store[i].state
                    /\ call' = [call EXCEPT ![c] = Call("named", i, store[i].state, t, d)]
          BY <2>4, <3>2 DEF PluginTransition
        <4>1. PICK t \in Transitions[d] :
                 /\ t.from = store[i].state
                 /\ call' = [call EXCEPT ![c] = Call("named", i, store[i].state, t, d)]
          BY <4>0
        <4> QED
          BY <1>i, <2>a, <2>4, <4>1, ReadsFresh DEF PluginTransition
      <3> QED
        BY <3>1, <3>2
    <2>5. CASE AbortWorkflow(c, i)
      <3>1. CASE Goto(c, "failed")
        BY <1>i, <2>5, <3>1, EndsFresh DEF AbortWorkflow, Ended
      <3>2. CASE ~Goto(c, "failed")
        <4>1. /\ store[i].status = "running" /\ UNCHANGED <<store, history>>
              /\ call' = [call EXCEPT
                             ![c] = Call("aborting", i, store[i].state, NoMove, "none")]
          BY <2>5, <3>2 DEF AbortWorkflow
        <4> QED
          BY <1>i, <2>a, <4>1, ReadsFresh
      <3> QED
        BY <3>1, <3>2
    <2> QED
      BY <1>3, <2>1, <2>2, <2>3, <2>4, <2>5 DEF Begin
  <1>4. ASSUME NEW c \in Calls, Continue(c) PROVE RInv'
    <2>1. CASE PluginExecute(c)
      <3>1. call[c].inst \in Instances /\ call[c].pc \in Working
        BY <2>1 DEF RInv, IInv, CallsKnow, PluginExecute, Working
      <3>2. \A d \in Calls : d # c /\ call[d].pc \in Working /\ call[d].inst \in Orderly =>
                call[d].inst # call[c].inst
        BY <3>1, WorksAlone
      <3> QED
        BY <1>i, <2>1, <3>1, <3>2, AttemptFresh DEF PluginExecute
    <2>2. CASE StartStores(c) \/ TransitionStores(c)
      BY <1>i, <2>2, StoresFresh DEF StartStores, TransitionStores, StatusIn, Statuses, Working
    <2>3. CASE StartFails(c) \/ TransitionBlocked(c) \/ EnterFails(c) \/ AbortFails(c)
      BY <1>i, <2>3, EndsFresh DEF StartFails, TransitionBlocked, EnterFails, AbortFails, Ended
    <2>4. CASE Move(c)
      BY <1>i, <2>4, MoveFresh
    <2>5. CASE AbortStores(c)
      BY <1>i, <2>5, StoresFresh DEF AbortStores, Statuses, Working
    <2> QED
      BY <1>4, <2>1, <2>2, <2>3, <2>4, <2>5 DEF Continue
  <1> QED
    BY <1>1, <1>2, <1>3, <1>4 DEF Next

LEMMA Freshness == Spec => []RInv
  BY InitIsFresh, StepIsFresh, PTL DEF Spec

-----------------------------------------------------------------------------
\* Nothing an orderly machine shows changes.
LEMMA MachineStutters ==
    ASSUME \A i \in Orderly : store'[i] = store[i] /\ Trail(i)' = Trail(i)
    PROVE  UNCHANGED Machine!vars
  BY DEF Machine!vars

\* The trail of an instance no call enters, before and after a step.
LEMMA TrailStays ==
    ASSUME NEW c \in Calls, \A d \in Calls : d # c => call'[d] = call[d],
           NEW i, history'[i] = history[i],
           call[c].inst = i => call[c].pc # "entering",
           call'[c].inst = i => call'[c].pc # "entering"
    PROVE  Trail(i)' = Trail(i)
  <1>1. (\E d \in Calls : call[d].inst = i /\ call[d].pc = "entering")
           <=> (\E d \in Calls : call'[d].inst = i /\ call'[d].pc = "entering")
    OBVIOUS
  <1> QED
    BY <1>1 DEF Trail

\* No instance, no machine.
LEMMA MachineStarts == Init => Machine!Init
  <1> SUFFICES ASSUME Init PROVE Machine!Init
    OBVIOUS
  <1>1. \A i \in Orderly : i \in Instances
    BY WorkflowAssumption DEF Orderly
  <1>2. \A i \in Orderly : Trail(i) = << >>
    BY <1>1 DEF Init, Trail, Idle, Call
  <1> QED
    BY <1>1, <1>2 DEF Init, Machine!Init

\* A step that stores nothing and enters or leaves no orderly instance.
LEMMA QuietStutters ==
    ASSUME NEW c \in Calls, \A d \in Calls : d # c => call'[d] = call[d],
           UNCHANGED <<store, history>>,
           call[c].inst \in Orderly => call[c].pc # "entering",
           call'[c].inst \in Orderly => call'[c].pc # "entering"
    PROVE  UNCHANGED Machine!vars
  <1>1. \A i \in Orderly : Trail(i)' = Trail(i)
    BY TrailStays
  <1> QED
    BY <1>1, MachineStutters

\* A start is a start of the machine.
LEMMA StartRefines ==
    ASSUME RInv, NEW c \in Calls, NEW i \in Instances, StartWorkflow(c, i)
    PROVE  [Machine!Next]_Machine!vars
  <1>1. PICK d \in ToSet(registered) :
           /\ store' = [store EXCEPT ![i] = [status |-> "pending", state |-> Initial[d],
                                             version |-> Version[d]]]
           /\ call' = [call EXCEPT ![c] = Call("starting", i, Initial[d], NoMove, d)]
    BY DEF StartWorkflow
  <1>2. /\ store'[i].status = "pending" /\ store'[i].state = Initial[d]
        /\ store'[i].version = Version[d]
        /\ \A j \in Instances : j # i => store'[j] = store[j]
        /\ history' = history /\ store[i].status = "none" /\ d \in Definitions
    BY <1>1 DEF RInv, IInv, TypeOK, StartWorkflow, ToSet
  <1>3. /\ call'[c] = Call("starting", i, Initial[d], NoMove, d)
        /\ \A o \in Calls : o # c => call'[o] = call[o]
    BY <1>1 DEF RInv, IInv, TypeOK
  <1>4. call[c].pc = "idle" /\ call'[c].pc = "starting"
    BY <1>3 DEF StartWorkflow, MayBegin, Call
  <1>5. \A j \in Orderly : j \in Instances /\ Trail(j)' = Trail(j)
    BY <1>2, <1>3, <1>4, TrailStays, WorkflowAssumption DEF Orderly
  <1>6. CASE i \in Orderly
    <2>1. Machine!Create(i, d)
      BY <1>2, <1>5, <1>6 DEF Machine!Create
    <2> QED
      BY <1>2, <1>6, <2>1 DEF Machine!Next
  <1>7. CASE i \notin Orderly
    BY <1>2, <1>5, <1>7, MachineStutters
  <1> QED
    BY <1>6, <1>7

\* The trail of a move whose onEnter runs is the history before it.
LEMMA MoveRefines ==
    ASSUME RInv, NEW c \in Calls, Move(c)
    PROVE  UNCHANGED Machine!vars
  <1>0. PICK i, t : i = call[c].inst /\ t = call[c].move
    OBVIOUS
  <1>1. /\ call \in [Calls -> CallRecord] /\ history \in [Instances -> Seq(Moves)]
        /\ i \in Instances /\ call[c].pc = "guards" /\ t \in Transitions[call[c].def]
        /\ call[c].def \in Definitions
    BY <1>0 DEF RInv, IInv, TypeOK, CallsKnow, Editions, Move, Working
  <1>2. /\ \A d \in Calls : d # c => call'[d] = call[d]
        /\ call'[c].pc = "entering" /\ call'[c].inst = i
    BY <1>0, <1>1 DEF Move, CallRecord
  <1>3. history' = [history EXCEPT ![i] = Append(history[i], t)] /\ store' = store
    BY <1>0 DEF Move
  <1>4. ASSUME NEW j \in Orderly, j # i PROVE Trail(j)' = Trail(j)
    <2>1. history'[j] = history[j]
      BY <1>1, <1>3, <1>4, WorkflowAssumption DEF Orderly
    <2> QED
      BY <1>0, <1>2, <1>4, <2>1, TrailStays
  <1>5. CASE i \in Orderly
    <2>1. \A d \in Calls : ~(call[d].inst = i /\ call[d].pc = "entering")
      BY <1>0, <1>1, <1>5, WorksAlone DEF Working
    <2>2. Trail(i) = history[i]
      BY <2>1 DEF Trail
    <2>3. Trail(i)' = Front(history'[i])
      BY <1>2, <1>5 DEF Trail
    <2>4. t \in Moves /\ history[i] \in Seq(Moves)
      BY <1>1, MovesAreKnown
    <2>5. Trail(i)' = Trail(i)
      BY <1>1, <1>3, <2>2, <2>3, <2>4, FrontLastOfAppend
    <2> QED
      BY <1>3, <1>4, <2>5, MachineStutters
  <1>6. CASE i \notin Orderly
    BY <1>3, <1>4, <1>6, MachineStutters
  <1> QED
    BY <1>5, <1>6

\* What a call that stores its copy does to the trails.
LEMMA StoreTrails ==
    ASSUME RInv, NEW c \in Calls, call[c].pc \in Working, NEW st \in Statuses, Store(c, st),
           NEW i, i = call[c].inst
    PROVE  /\ \A j \in Orderly : j # i => store'[j] = store[j] /\ Trail(j)' = Trail(j)
           /\ i \in Orderly =>
                  /\ Trail(i)' = history[i]
                  /\ Trail(i) = IF call[c].pc = "entering" THEN Front(history[i])
                                                           ELSE history[i]
  <1>1. /\ i \in Instances /\ history' = history
        /\ \A j \in Instances : j # i => store'[j] = store[j]
    BY StoreChanges DEF RInv
  <1>2. /\ \A d \in Calls : d # c => call'[d] = call[d]
        /\ call'[c].pc = "done" /\ call'[c].inst = i
    BY DEF RInv, IInv, TypeOK, CallRecord, Store, Goto
  <1>3. ASSUME NEW j \in Orderly, j # i
        PROVE store'[j] = store[j] /\ Trail(j)' = Trail(j)
    BY <1>1, <1>2, <1>3, TrailStays, WorkflowAssumption DEF Orderly
  <1>4. ASSUME i \in Orderly
        PROVE  /\ Trail(i)' = history[i]
               /\ Trail(i) = IF call[c].pc = "entering" THEN Front(history[i]) ELSE history[i]
    <2>1. \A d \in Calls : d # c => ~(call[d].inst = i /\ call[d].pc = "entering")
      BY <1>4, WorksAlone DEF Working
    <2> QED
      BY <1>1, <1>2, <2>1 DEF Trail
  <1> QED
    BY <1>3, <1>4

\* A call that stores its copy begins, moves or aborts the machine.
LEMMA StoreRefines ==
    ASSUME RInv, NEW c \in Calls, StartStores(c) \/ TransitionStores(c) \/ AbortStores(c)
    PROVE  [Machine!Next]_Machine!vars
  <1>0. PICK i, t, d : i = call[c].inst /\ t = call[c].move /\ d = call[c].def
    OBVIOUS
  <1> DEFINE Stores(st) ==
        /\ \A j \in Orderly : j # i => store'[j] = store[j] /\ Trail(j)' = Trail(j)
        /\ i \in Orderly =>
               /\ store'[i].status = st
               /\ store'[i].state = call[c].state
               /\ store'[i].version = store[i].version
               /\ Trail(i)' = history[i]
               /\ Trail(i) = IF call[c].pc = "entering" THEN Front(history[i]) ELSE history[i]
  <1>1. ASSUME NEW st \in Statuses, Store(c, st), call[c].pc \in Working
        PROVE  Stores(st)
    BY <1>0, <1>1, StoreChanges, StoreTrails DEF RInv
  <1>2. PICK st \in Statuses : Store(c, st) /\ call[c].pc \in Working
    BY DEF StartStores, TransitionStores, AbortStores, StatusIn, Statuses, Working
  <1>3. CASE i \notin Orderly
    <2>1. Stores(st)
      BY <1>1, <1>2
    <2> QED
      BY <1>3, <2>1, MachineStutters
  <1>4. CASE i \in Orderly
    <2>1. Fresh(c)
      BY DEF RInv
    <2> DEFINE settled == StatusIn(d, call[c].state)
    <2>s. settled \in Statuses /\ settled = Machine!Settled(d, call[c].state)
      BY DEF StatusIn, Statuses, Machine!Settled
    <2>e. ~AbortStores(c) => d \in Machine!Editions(i)
      <3>1. ~AbortStores(c) => d \in Editions(store[i].version)
        BY <1>0 DEF RInv, IInv, CallsKnow, StartStores, TransitionStores, Working
      <3>2. [j \in Orderly |-> store[j].version][i] = store[i].version
        BY <1>4
      <3> QED
        BY <3>1, <3>2 DEF Editions, Machine!Editions
    <2>2. CASE StartStores(c)
      <3>1. /\ store[i].status = "pending" /\ call[c].state = store[i].state
            /\ Stores(settled) /\ call[c].pc = "starting"
        BY <1>0, <1>1, <1>4, <2>1, <2>2, <2>s DEF StartStores, Fresh, Working
      <3>2. Machine!Begin(i, d)
        <4> HIDE DEF settled
        <4> QED
          BY <1>4, <2>s, <3>1 DEF Machine!Begin
      <3> QED
        BY <1>4, <2>e, <2>2, <3>1, <3>2 DEF Machine!Next, AbortStores
    <2>3. CASE TransitionStores(c)
      <3>1. /\ store[i].status = "running" /\ call[c].state = t.to /\ t.from = store[i].state
            /\ history[i] # << >> /\ Last(history[i]) = t
            /\ Stores(settled) /\ call[c].pc = "entering"
        BY <1>0, <1>1, <1>4, <2>1, <2>3, <2>s DEF TransitionStores, Fresh, Working
      <3>2. history[i] \in Seq(Moves) /\ t \in Transitions[d] /\ t \in Moves
        BY <1>0, <3>1, MovesAreKnown DEF RInv, IInv, TypeOK, CallsKnow, Editions, Working
      <3>3. Trail(i)' = Append(Trail(i), t)
        BY <1>4, <3>1, <3>2, FrontAndLast
      <3>4. Machine!Fire(i, d, t)
        <4> HIDE DEF settled
        <4> QED
          BY <1>4, <2>s, <3>1, <3>2, <3>3 DEF Machine!Fire
      <3> QED
        BY <1>4, <2>e, <2>3, <3>1, <3>2, <3>4 DEF Machine!Next, AbortStores
    <2>4. CASE AbortStores(c)
      <3>1. /\ store[i].status = "running" /\ call[c].state = store[i].state
            /\ Stores("aborted") /\ call[c].pc = "aborting"
        BY <1>0, <1>1, <1>4, <2>1, <2>4 DEF AbortStores, Fresh, Working, Statuses
      <3>2. Machine!Abort(i)
        BY <1>4, <3>1 DEF Machine!Abort
      <3> QED
        BY <1>4, <3>2 DEF Machine!Next
    <2> QED
      BY <2>2, <2>3, <2>4
  <1> QED
    BY <1>3, <1>4

LEMMA StepRefines == RInv /\ [Next]_vars => [Machine!Next]_Machine!vars
  <1> SUFFICES ASSUME RInv, [Next]_vars PROVE [Machine!Next]_Machine!vars
    OBVIOUS
  <1>t. call \in [Calls -> CallRecord]
    BY DEF RInv, IInv, TypeOK
  <1>1. CASE UNCHANGED vars
    <2>1. \A i \in Orderly : Trail(i)' = Trail(i)
      BY <1>1 DEF vars, Trail
    <2> QED
      BY <1>1, <2>1, MachineStutters DEF vars
  <1>2. ASSUME NEW d \in Definitions, RegisterWorkflow(d) PROVE UNCHANGED Machine!vars
    <2>1. \A i \in Orderly : Trail(i)' = Trail(i)
      BY <1>2 DEF RegisterWorkflow, Trail
    <2> QED
      BY <1>2, <2>1, MachineStutters DEF RegisterWorkflow
  <1>3. ASSUME NEW c \in Calls, UNCHANGED <<store, history>>,
               NEW r \in CallRecord, call' = [call EXCEPT ![c] = r], r.pc # "entering",
               call[c].inst \in Orderly => call[c].pc # "entering"
        PROVE  UNCHANGED Machine!vars
    BY <1>t, <1>3, QuietStutters
  <1>4. ASSUME NEW c \in Calls, NEW pc \in Ended, Goto(c, pc), UNCHANGED <<store, history>>,
               call[c].inst \in Orderly => call[c].pc # "entering"
        PROVE  UNCHANGED Machine!vars
    BY <1>t, <1>4, QuietStutters DEF Goto, Ended, CallRecord
  <1>5. ASSUME NEW c \in Calls, NEW i, NEW name, Attempt(c, i, name), call[c].pc # "entering"
        PROVE  UNCHANGED Machine!vars
    <2>1. CASE Goto(c, "failed")
      BY <1>4, <1>5, <2>1 DEF Attempt, Ended
    <2>2. CASE ~Goto(c, "failed")
      BY <1>t, <1>5, <2>2, QuietStutters DEF Attempt, Call
    <2> QED
      BY <2>1, <2>2
  <1>6. ASSUME NEW c \in Calls, NEW i \in Instances, Begin(c, i)
        PROVE  [Machine!Next]_Machine!vars
    <2>1. CASE StartWorkflow(c, i)
      BY <2>1, StartRefines
    <2>2. CASE ~StartWorkflow(c, i)
      <3>1. call[c].pc = "idle"
        BY <1>6 DEF Begin, StartWorkflow, StartNotFound, ExecuteTransition, PluginTransition,
                    AbortWorkflow, MayBegin
      <3>2. CASE StartNotFound(c, i)
        BY <1>4, <3>1, <3>2 DEF StartNotFound, Ended
      <3>3. ASSUME NEW name \in Names, ExecuteTransition(c, i, name)
            PROVE  UNCHANGED Machine!vars
        BY <1>5, <3>1, <3>3 DEF ExecuteTransition
      <3>4. ASSUME NEW s \in States, PluginTransition(c, i, s) PROVE UNCHANGED Machine!vars
        <4>1. CASE Goto(c, "failed")
          BY <1>4, <3>1, <3>4, <4>1 DEF PluginTransition, Ended
        <4>2. CASE ~Goto(c, "failed")
          BY <1>t, <3>1, <3>4, <4>2, QuietStutters DEF PluginTransition, Call
        <4> QED
          BY <4>1, <4>2
      <3>5. CASE AbortWorkflow(c, i)
        <4>1. CASE Goto(c, "failed")
          BY <1>4, <3>1, <3>5, <4>1 DEF AbortWorkflow, Ended
        <4>2. CASE ~Goto(c, "failed")
          BY <1>t, <3>1, <3>5, <4>2, QuietStutters DEF AbortWorkflow, Call
        <4> QED
          BY <4>1, <4>2
      <3> QED
        BY <1>6, <2>2, <3>2, <3>3, <3>4, <3>5 DEF Begin
    <2> QED
      BY <2>1, <2>2
  <1>7. ASSUME NEW c \in Calls, Continue(c) PROVE [Machine!Next]_Machine!vars
    <2>1. CASE PluginExecute(c)
      BY <1>5, <2>1 DEF PluginExecute
    <2>2. CASE StartStores(c) \/ TransitionStores(c) \/ AbortStores(c)
      BY <2>2, StoreRefines
    <2>3. CASE StartFails(c) \/ TransitionBlocked(c) \/ AbortFails(c)
      BY <1>4, <2>3 DEF StartFails, TransitionBlocked, AbortFails, Ended
    <2>4. CASE EnterFails(c)
      <3>1. call[c].inst \notin Orderly
        BY <2>4 DEF EnterFails, Orderly
      <3> QED
        BY <1>4, <2>4, <3>1 DEF EnterFails, Ended
    <2>5. CASE Move(c)
      <3>1. UNCHANGED Machine!vars
        BY <2>5, MoveRefines
      <3> QED
        BY <3>1
    <2> QED
      BY <1>7, <2>1, <2>2, <2>3, <2>4, <2>5 DEF Continue
  <1> QED
    BY <1>1, <1>2, <1>6, <1>7 DEF Next

\* Used by one caller at a time, and with onEnter actions that do not throw, an
\* instance is the state machine of its definition, whatever happens to the
\* other instances (engine.ts:72-204).
THEOREM OrderlyIsMachine == Spec => ImplementsMachine
  BY MachineStarts, StepRefines, Freshness, PTL DEF Spec, ImplementsMachine, Machine!Spec

-----------------------------------------------------------------------------
(* Approval tasks *)

\* On a task whose callers wait for each other there is one call at a time, and
\* it has found the task undecided.
CallersKnow ==
    /\ \A c, d \in Callers :
           /\ request[c].op # "none"
           /\ request[d].op # "none"
           /\ request[c].task = request[d].task
           /\ request[c].task \in SerialTasks
           => c = d
    /\ \A c \in Callers : request[c].op # "none" /\ request[c].task \in SerialTasks =>
           task[request[c].task].status \notin Decided

AInv == DOMAIN task = Tasks /\ DOMAIN request = Callers /\ CallersKnow

\* A call that has read its task.
LEMMA ReadKeeps ==
    ASSUME AInv, NEW c \in Callers, NEW t \in Tasks, MayCall(c, t), task[t].status \notin Decided,
           NEW op, NEW user, NEW original, Read(c, t, op, user, original)
    PROVE  AInv'
  <1>1. request'[c].task = t /\ \A d \in Callers : d # c => request'[d] = request[d]
    BY DEF AInv, Read
  <1>2. t \in SerialTasks => \A d \in Callers : request[d].task # t
    BY DEF MayCall
  <1>3. CallersKnow'
    BY <1>1, <1>2 DEF AInv, CallersKnow, Read
  <1> QED
    BY <1>3 DEF AInv, Read

\* The call that writes a task returns.
LEMMA WriteKeeps ==
    ASSUME AInv, NEW c \in Callers, request[c].op # "none",
           NEW updated, UpdateTask(request[c].task, updated), Return(c)
    PROVE  AInv' /\ \A t \in SerialTasks : task[t].status \in Decided => task'[t] = task[t]
  <1>1. /\ request'[c].op = "none" /\ \A d \in Callers : d # c => request'[d] = request[d]
        /\ \A t \in Tasks : t # request[c].task => task'[t] = task[t]
        /\ DOMAIN task' = Tasks /\ DOMAIN request' = Callers
    BY DEF AInv, Return, NoCall, UpdateTask
  <1>2. SerialTasks \subseteq Tasks
    BY ApprovalAssumption DEF Tasks
  <1>3. CallersKnow'
    BY <1>1, <1>2 DEF AInv, CallersKnow
  <1>4. \A t \in SerialTasks : task[t].status \in Decided => t # request[c].task
    BY DEF AInv, CallersKnow
  <1> QED
    BY <1>1, <1>2, <1>3, <1>4 DEF AInv

\* A step of one call leaves what was decided alone.
LEMMA ApprovalStep ==
    ASSUME AInv, [ApprovalNext]_approvalVars
    PROVE  AInv' /\ \A t \in SerialTasks : task[t].status \in Decided => task'[t] = task[t]
  <1>1. CASE UNCHANGED approvalVars
    BY <1>1 DEF approvalVars, AInv, CallersKnow
  <1>2. ASSUME NEW k \in 1..Len(Levels), CreateLevel(k)
        PROVE  AInv' /\ \A t \in SerialTasks : task[t].status \in Decided => task'[t] = task[t]
    <2> DEFINE new == [Absent EXCEPT !.status = "pending", !.assignedTo = Approver[Levels[k]]]
    <2>1. new.status \notin Decided
      BY DEF Absent, Decided
    <2> HIDE DEF new
    <2>2. SerialTasks \subseteq Tasks
      BY ApprovalAssumption DEF Tasks
    <2>3. /\ task' = [task EXCEPT ![Levels[k]] = new] /\ request' = request
          /\ task[Levels[k]].status \notin Decided
      BY <1>2 DEF CreateLevel, new, Decided
    <2>4. CallersKnow'
      BY <2>1, <2>2, <2>3 DEF AInv, CallersKnow
    <2> QED
      BY <2>2, <2>3, <2>4 DEF AInv
  <1>3. ASSUME NEW c \in Callers, NEW t \in Tasks, Begins(c, t) PROVE AInv' /\ UNCHANGED task
    <2>1. /\ MayCall(c, t) /\ task[t].status \notin Decided
          /\ \E op, user, original : Read(c, t, op, user, original)
      BY <1>3 DEF Begins, CompleteTask, RejectTask, DelegateTask, EscalateTask, Decided
    <2> QED
      BY <2>1, ReadKeeps DEF Read
  <1>4. ASSUME NEW c \in Callers, Write(c)
        PROVE  AInv' /\ \A t \in SerialTasks : task[t].status \in Decided => task'[t] = task[t]
    <2>1. request[c].op # "none" /\ Return(c) /\ \E u : UpdateTask(request[c].task, u)
      BY <1>4 DEF Write, WriteDecision, WriteDelegation, WriteEscalation, Decided
    <2> QED
      BY <2>1, WriteKeeps
  <1> QED
    BY <1>1, <1>2, <1>3, <1>4 DEF ApprovalNext

\* A decision stands: when callers wait for each other, a task that was completed
\* or rejected stays as it is (api.ts:212, 235, approval.ts:33, 65).
THEOREM DecisionsStand == ApprovalSpec => DecisionStands
  <1>1. ApprovalInit => AInv
    BY DEF ApprovalInit, AInv, CallersKnow, NoCall
  <1>2. AInv /\ [ApprovalNext]_approvalVars => AInv'
    BY ApprovalStep
  <1>3. AInv /\ [ApprovalNext]_approvalVars =>
            [\A t \in SerialTasks : task[t].status \in Decided => task'[t] = task[t]]_approvalVars
    BY ApprovalStep
  <1> QED
    BY <1>1, <1>2, <1>3, PTL DEF ApprovalSpec, DecisionStands

-----------------------------------------------------------------------------
(* Flow engine *)

\* A set of edges that is not empty has a first one.
LEMMA FirstIsMember ==
    ASSUME NEW S \in SUBSET EdgeNumbers, S # {}
    PROVE  FirstOf(S) \in S
  <1> DEFINE R == OpToRel(<, Nat)
  <1>1. S \in SUBSET Nat
    BY DEF EdgeNumbers
  <1>2. \A x, y \in Nat : x < y => <<x, y>> \in R
    BY DEF OpToRel
  <1>3. IsWellFoundedOn(R, Nat)
    BY NatLessThanWellFounded
  <1> HIDE DEF R
  <1>4. PICK n \in S : \A m \in S : ~ (<<m, n>> \in R)
    BY <1>1, <1>3, WFMin
  <1>5. \A m \in S : n <= m
    <2> TAKE m \in S
    <2>1. m \in Nat /\ n \in Nat
      BY <1>1
    <2>2. ~(m < n)
      BY <1>2, <1>4, <2>1, Zenon
    <2> QED
      BY <2>1, <2>2
  <1> QED
    BY <1>5 DEF FirstOf

\* The edge that is followed starts where the flow is.
LEMMA NextNodeIsReached ==
    ASSUME NEW n, Outgoing(n) # {}, NEW holds, NEW preferred
    PROVE  ResolveNextNode(n, holds, preferred) \in Outgoing(n)
  <1>1. \A S \in SUBSET Outgoing(n) : S # {} => FirstOf(S) \in Outgoing(n)
    BY FirstIsMember DEF Outgoing
  <1> DEFINE labelled == {k \in Outgoing(n) : preferred # "" /\ Edges[k].label = preferred}
             met == {k \in Outgoing(n) : NodeType[n] = "decision" /\ k \in holds}
             plain == {k \in Outgoing(n) : ~Edges[k].conditional}
  <1>2. /\ labelled # {} => FirstOf(labelled) \in Outgoing(n)
        /\ met # {} => FirstOf(met) \in Outgoing(n)
        /\ plain # {} => FirstOf(plain) \in Outgoing(n)
        /\ FirstOf(Outgoing(n)) \in Outgoing(n)
    BY <1>1
  <1> QED
    BY <1>2 DEF ResolveNextNode

\* One more edge from where the walk has come to.
LEMMA WalkGoesOn ==
    ASSUME flowHistory \in Seq(EdgeNumbers), HistoryIsWalk,
           NEW k \in EdgeNumbers, Edges[k].source = currentState,
           flowHistory' = Append(flowHistory, k), currentState' = Edges[k].target
    PROVE  flowHistory' \in Seq(EdgeNumbers) /\ HistoryIsWalk'
  <1> DEFINE h == flowHistory
             n == Len(flowHistory)
  <1>1. /\ n \in Nat /\ flowHistory' \in Seq(EdgeNumbers) /\ Len(flowHistory') = n + 1
        /\ flowHistory'[n + 1] = k /\ \A m \in 1..n : flowHistory'[m] = h[m]
        /\ flowHistory' # << >>
    BY AppendProperties
  <1>2. ASSUME NEW m \in 1..(n + 1)
        PROVE  Edges[flowHistory'[m]].source =
                   IF m = 1 THEN StartNode ELSE Edges[flowHistory'[m - 1]].target
    <2>1. CASE m \in 1..n
      BY <1>1, <2>1 DEF HistoryIsWalk
    <2>2. CASE m = n + 1
      <3>1. CASE h = << >>
        BY <1>1, <2>2, <3>1 DEF HistoryIsWalk
      <3>2. CASE h # << >>
        <4>1. n \in 1..n /\ Last(h) = h[n]
          BY <1>1, <3>2, EmptySeq DEF Last
        <4> QED
          BY <1>1, <2>2, <3>2, <4>1 DEF HistoryIsWalk
      <3> QED
        BY <3>1, <3>2
    <2> QED
      BY <1>1, <2>1, <2>2
  <1> QED
    BY <1>1, <1>2 DEF HistoryIsWalk, Last

FInv == flowHistory \in Seq(EdgeNumbers) /\ HistoryIsWalk

\* Every step of the flow follows an edge or nothing.
LEMMA FlowStep == FInv /\ [FlowNext]_flowVars => FInv'
  <1> SUFFICES ASSUME FInv, [FlowNext]_flowVars PROVE FInv'
    OBVIOUS
  <1>1. CASE VisitAndMove
    <2>1. PICK k \in Outgoing(currentState) :
             currentState' = Edges[k].target /\ flowHistory' = Append(flowHistory, k)
      BY <1>1, NextNodeIsReached DEF VisitAndMove
    <2> QED
      BY <2>1, WalkGoesOn DEF FInv, Outgoing
  <1>2. CASE UNCHANGED <<currentState, flowHistory>>
    BY <1>2 DEF FInv, HistoryIsWalk
  <1> QED
    BY <1>1, <1>2 DEF FlowNext, Execute, HandlerFails, VisitEnd, VisitDeadEnd, NodeNotFound,
                      LimitExceeded, Finish, flowVars

\* The history is a walk of the graph from the start to the current node,
\* whatever the graph and the handlers (flow-engine.ts:219-230).
THEOREM HistoryRetraces == FlowSpec => []HistoryIsWalk
  <1>1. FlowInit => FInv
    BY DEF FlowInit, FInv, HistoryIsWalk
  <1>2. FInv => HistoryIsWalk
    BY DEF FInv
  <1> QED
    BY <1>1, <1>2, FlowStep, PTL DEF FlowSpec

=============================================================================
