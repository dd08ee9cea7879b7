-------------------------- MODULE BridgeCredsProofs --------------------------
(***************************************************************************)
(* Safety of the life of the API key, for any set of order handlers and    *)
(* any number of rotations, blips, failures and crashes.                   *)
(***************************************************************************)
EXTENDS BridgeCreds, TLAPS

\* What an answer of createOrDeriveApiKey leaves in raw.
Answers == Keys \cup {Blank}

\* A task that stores or saves a key has had an answer.
HasKey ==
    \A t \in Tasks :
        task[t].pc \in {"derived", "opening", "writing"} => task[t].got \in Answers

(***************************************************************************)
(* The two safety properties are preserved by every step once it is known  *)
(* that a save writes an answer, so the inductive invariant adds no more. *)
(***************************************************************************)
CInv == TypeOK /\ HasKey /\ ClientFollowsCreds /\ TornMeansCutShort

-----------------------------------------------------------------------------
(* The moves of a task. *)

\* The keys are numbers, and the marks used in their place are not keys.
LEMMA KeysApart ==
    /\ Keys \subseteq Nat /\ 0 \in Keys
    /\ NoKey \notin Answers /\ Absent \notin Answers /\ Torn \notin Answers
    /\ Torn \notin {Absent, Blank} /\ Blank \notin Keys /\ Answers \subseteq Int
BY BridgeCredsAssumption DEF Answers, Keys, NoKey, Absent, Torn, Blank

\* Going on to another place in the code.
LEMMA GotoMove ==
    ASSUME TypeOK, NEW t \in Tasks,
           NEW pc \in {"accepted", "401", "asking", "opening", "writing"}, Goto(t, pc)
    PROVE  \E s \in TaskStates :
               task' = [task EXCEPT ![t] = s] /\ s.pc = pc /\ s.got = task[t].got
<1> DEFINE s == [task[t] EXCEPT !.pc = pc]
<1>1. task[t] \in TaskStates
  BY DEF TypeOK
<1>2. s \in TaskStates /\ s.pc = pc /\ s.got = task[t].got
  BY <1>1 DEF TaskStates
<1>3. task' = [task EXCEPT ![t] = s]
  BY DEF Goto
<1> QED
  BY <1>2, <1>3

\* A submission.
LEMMA SubmitMove ==
    ASSUME TypeOK, NEW t \in Tasks, NEW n \in 0..2, NEW key \in Creds,
           SubmitWith(t, n, key)
    PROVE  \E s \in TaskStates :
               task' = [task EXCEPT ![t] = s] /\ s.pc = "submitted"
<1> DEFINE s == [task[t] EXCEPT !.pc = "submitted", !.tries = n, !.used = key]
<1>1. task[t] \in TaskStates
  BY DEF TypeOK
<1>2. s \in TaskStates /\ s.pc = "submitted"
  BY <1>1 DEF TaskStates
<1>3. task' = [task EXCEPT ![t] = s]
  BY <1>1 DEF SubmitWith, TypeOK, TaskStates
<1> QED
  BY <1>2, <1>3

\* The end of a task.
LEMMA FinishMove ==
    ASSUME NEW t \in Tasks, Finish(t)
    PROVE  task' = [task EXCEPT ![t] = IdleTask]
BY DEF Finish

\* A task without work is in a legal state.
LEMMA IdleLegal == IdleTask \in TaskStates /\ IdleTask.pc = "idle"
BY DEF IdleTask, TaskStates, Creds

\* A turn of an order handler outside a refresh only moves its task.
LEMMA OrderStepMove ==
    ASSUME TypeOK, NEW o \in Orders, OrderStep(o)
    PROVE  \E s \in TaskStates :
               /\ task' = [task EXCEPT ![o] = s]
               /\ s.pc \in {"idle", "submitted", "accepted", "401", "asking"}
<1>1. o \in Tasks /\ client \in Creds
  BY DEF TypeOK, Tasks
<1>2. CASE Submit(o)
  BY <1>1, <1>2, SubmitMove DEF Submit
<1>3. CASE VenueJudges(o)
  BY <1>1, <1>3, GotoMove DEF VenueJudges
<1>4. CASE SigningFails(o)
  BY <1>1, <1>4, FinishMove, IdleLegal DEF SigningFails
<1>5. CASE HandlerReacts(o)
  BY <1>1, <1>5, GotoMove, SubmitMove, FinishMove, IdleLegal DEF HandlerReacts
<1> QED
  BY <1>2, <1>3, <1>4, <1>5 DEF OrderStep

\* An answer of createOrDeriveApiKey, with the registered key or without one.
LEMMA AnswerMove ==
    ASSUME TypeOK, NEW t \in Tasks, VenueDerives(t) \/ VenueDerivesNothing(t)
    PROVE  \E s \in TaskStates :
               /\ task' = [task EXCEPT ![t] = s] /\ s.pc = "derived"
               /\ s.got \in Answers
               /\ blanks' = blanks => s.got = venueKey
<1> DEFINE s(key) == [task[t] EXCEPT !.pc = "derived", !.got = key]
<1>1. task[t] \in TaskStates /\ venueKey \in Keys /\ blanks \in Nat
  BY BridgeCredsAssumption DEF TypeOK
<1>2. \A key \in Answers : s(key) \in TaskStates /\ s(key).pc = "derived" /\ s(key).got = key
  BY <1>1 DEF TaskStates, Answers, Creds
<1>3. CASE VenueDerives(t)
  <2>1. task' = [task EXCEPT ![t] = s(venueKey)] /\ venueKey \in Answers
    BY <1>1, <1>3 DEF VenueDerives, TypeOK, TaskStates, Answers
  <2> HIDE DEF s
  <2> QED
    BY <1>2, <2>1
<1>4. CASE VenueDerivesNothing(t)
  <2>1. task' = [task EXCEPT ![t] = s(Blank)] /\ Blank \in Answers
    BY <1>1, <1>4 DEF VenueDerivesNothing, TypeOK, TaskStates, Answers
  <2> HIDE DEF s
  <2>2. blanks' # blanks
    BY <1>1, <1>4 DEF VenueDerivesNothing
  <2> QED
    BY <1>2, <2>1, <2>2
<1> QED
  BY <1>3, <1>4

-----------------------------------------------------------------------------
(* What a move of one task does to the parts of the invariant. *)

\* The move keeps the types of the tasks, and a key where one is needed.
LEMMA MoveKeys ==
    ASSUME TypeOK, HasKey, NEW t \in Tasks, NEW s \in TaskStates,
           task' = [task EXCEPT ![t] = s],
           s.pc \in {"derived", "opening", "writing"} => s.got \in Answers
    PROVE  /\ task' \in [Tasks -> TaskStates]
           /\ HasKey'
           /\ task'[t] = s
           /\ \A u \in Tasks : u # t => task'[u] = task[u]
BY DEF TypeOK, HasKey

\* A task that was not saving may move: whoever was saving still is.
LEMMA QuietMove ==
    ASSUME CInv, NEW t \in Tasks, NEW s \in TaskStates,
           task' = [task EXCEPT ![t] = s],
           s.pc \in {"derived", "opening", "writing"} => s.got \in Answers,
           ~Saving(t),
           UNCHANGED <<disk, phase, creds, client, failures, crashes>>
    PROVE  /\ task' \in [Tasks -> TaskStates]
           /\ HasKey' /\ ClientFollowsCreds' /\ TornMeansCutShort'
<1>1. /\ task' \in [Tasks -> TaskStates] /\ HasKey'
      /\ \A u \in Tasks : u # t => task'[u] = task[u]
  BY MoveKeys DEF CInv
<1>2. \A u \in Tasks : Saving(u) => Saving(u)'
  BY <1>1 DEF Saving
<1>3. \A u \in Tasks : task[u].pc = "writing" => task'[u].pc = "writing"
  BY <1>1 DEF Saving
<1>4. ClientFollowsCreds'
  BY <1>2 DEF CInv, ClientFollowsCreds
<1>5. TornMeansCutShort'
  BY <1>3 DEF CInv, TornMeansCutShort
<1> QED
  BY <1>1, <1>4, <1>5

-----------------------------------------------------------------------------
(* One lemma for each action that does more than move a task. *)

\* The inductive invariant holds initially.
LEMMA InitCInv == Init => CInv
<1> SUFFICES ASSUME Init PROVE CInv
  OBVIOUS
<1>1. TypeOK
  BY KeysApart, IdleLegal, BridgeCredsAssumption DEF Init, TypeOK, Creds
<1>2. HasKey
  BY IdleLegal DEF Init, HasKey
<1>3. ClientFollowsCreds /\ TornMeansCutShort
  BY KeysApart DEF Init, ClientFollowsCreds, TornMeansCutShort
<1> QED
  BY <1>1, <1>2, <1>3 DEF CInv

\* A start with a saved key uses that key.
LEMMA BootFromDiskCInv == CInv /\ BootFromDisk => CInv'
<1> SUFFICES ASSUME CInv, BootFromDisk PROVE CInv'
  OBVIOUS
<1>1. TypeOK'
  BY DEF CInv, TypeOK, BootFromDisk, boundVars, Creds
<1>2. HasKey' /\ ClientFollowsCreds' /\ TornMeansCutShort'
  BY DEF CInv, HasKey, ClientFollowsCreds, TornMeansCutShort, BootFromDisk, boundVars
<1> QED
  BY <1>1, <1>2 DEF CInv

\* A start without one only begins to ask for a key.
LEMMA BootFreshCInv == CInv /\ BootFresh => CInv'
<1> SUFFICES ASSUME CInv, BootFresh PROVE CInv'
  OBVIOUS
<1>1. PICK s \in TaskStates : task' = [task EXCEPT ![Boot] = s] /\ s.pc = "asking"
  BY GotoMove DEF CInv, BootFresh, Tasks
<1>2. task' \in [Tasks -> TaskStates] /\ HasKey'
  BY <1>1, MoveKeys DEF CInv, Tasks
<1>3. TypeOK'
  BY <1>2 DEF CInv, TypeOK, BootFresh, boundVars
<1>4. ClientFollowsCreds'
  BY DEF BootFresh, ClientFollowsCreds
<1>5. TornMeansCutShort'
  BY KeysApart DEF BootFresh, TornMeansCutShort
<1> QED
  BY <1>2, <1>3, <1>4, <1>5 DEF CInv

\* An answer is one of the venue's, whether it has a key or not.
LEMMA AnswerCInv ==
    ASSUME CInv, NEW t \in Tasks, VenueDerives(t) \/ VenueDerivesNothing(t)
    PROVE  CInv'
<1>1. PICK s \in TaskStates :
          task' = [task EXCEPT ![t] = s] /\ s.pc = "derived" /\ s.got \in Answers
  BY AnswerMove DEF CInv
<1>2. /\ ~Saving(t) /\ UNCHANGED <<disk, phase, creds, client, failures, crashes>>
      /\ blanks' \in 0..MaxBlanks
  BY BridgeCredsAssumption
  DEF VenueDerives, VenueDerivesNothing, Saving, procVars, boundVars, CInv, TypeOK
<1>3. /\ task' \in [Tasks -> TaskStates]
      /\ HasKey' /\ ClientFollowsCreds' /\ TornMeansCutShort'
  BY <1>1, <1>2, QuietMove
<1>4. TypeOK'
  BY <1>2, <1>3 DEF CInv, TypeOK, VenueDerives, VenueDerivesNothing, procVars, boundVars
<1> QED
  BY <1>3, <1>4 DEF CInv

\* From here to the end of the save the task accounts for any difference
\* between the client and the stored key.
LEMMA KeyArrivesCInv ==
    ASSUME CInv, NEW t \in Tasks, KeyArrives(t)
    PROVE  CInv'
<1>1. task[t].got \in Answers
  BY DEF CInv, HasKey, KeyArrives
<1>2. PICK s \in TaskStates :
          task' = [task EXCEPT ![t] = s] /\ s.pc = "opening" /\ s.got = task[t].got
  BY GotoMove DEF CInv, KeyArrives
<1>3. /\ task' \in [Tasks -> TaskStates] /\ HasKey' /\ task'[t] = s
      /\ \A u \in Tasks : u # t => task'[u] = task[u]
  BY <1>1, <1>2, MoveKeys DEF CInv
<1>4. TypeOK'
  BY <1>1, <1>3 DEF CInv, TypeOK, KeyArrives, boundVars, Answers, Creds
<1>5. ClientFollowsCreds'
  BY <1>2, <1>3 DEF ClientFollowsCreds, Saving
<1>6. TornMeansCutShort'
  BY <1>3 DEF CInv, TornMeansCutShort, KeyArrives, boundVars
<1> QED
  BY <1>3, <1>4, <1>5, <1>6 DEF CInv

\* The file is unreadable from here, and the task is writing it.
LEMMA OpenFileCInv ==
    ASSUME CInv, NEW t \in Tasks, OpenFile(t)
    PROVE  CInv'
<1>1. task[t].got \in Answers
  BY DEF CInv, HasKey, OpenFile
<1>2. PICK s \in TaskStates :
          task' = [task EXCEPT ![t] = s] /\ s.pc = "writing" /\ s.got = task[t].got
  BY GotoMove DEF CInv, OpenFile
<1>3. task' \in [Tasks -> TaskStates] /\ HasKey' /\ task'[t] = s
  BY <1>1, <1>2, MoveKeys DEF CInv
<1>4. TypeOK'
  BY <1>3 DEF CInv, TypeOK, OpenFile, procVars, boundVars
<1>5. ClientFollowsCreds' /\ TornMeansCutShort'
  BY <1>2, <1>3 DEF ClientFollowsCreds, TornMeansCutShort, Saving
<1> QED
  BY <1>3, <1>4, <1>5 DEF CInv

\* The end of a save makes the file readable and rebuilds the client.
LEMMA SaveSucceedsCInv ==
    ASSUME CInv, NEW t \in Tasks, SaveSucceeds(t)
    PROVE  CInv'
<1>1. task[t].got \in Answers /\ creds \in Creds
  BY DEF CInv, HasKey, TypeOK, SaveSucceeds
<1>2. \E s \in TaskStates :
          task' = [task EXCEPT ![t] = s] /\ s.pc \in {"idle", "submitted"}
  BY <1>1, FinishMove, IdleLegal, SubmitMove DEF CInv, SaveSucceeds
<1>3. task' \in [Tasks -> TaskStates] /\ HasKey'
  BY <1>2, MoveKeys DEF CInv
<1>4. TypeOK'
  BY <1>1, <1>3 DEF CInv, TypeOK, SaveSucceeds, boundVars, Answers
<1>5. ClientFollowsCreds'
  BY DEF SaveSucceeds, ClientFollowsCreds
<1>6. TornMeansCutShort'
  BY <1>1, KeysApart DEF SaveSucceeds, TornMeansCutShort
<1> QED
  BY <1>3, <1>4, <1>5, <1>6 DEF CInv

\* A refresh that throws may leave anything, but it is counted.
LEMMA RefreshThrowsCInv ==
    ASSUME CInv, NEW t \in Tasks, RefreshThrows(t)
    PROVE  CInv'
<1>1. task' \in [Tasks -> TaskStates] /\ HasKey'
  BY FinishMove, IdleLegal, MoveKeys DEF CInv, RefreshThrows
<1>2. failures' \in 0..MaxFailures /\ failures' > 0 /\ crashes' + failures' > 0
  BY BridgeCredsAssumption DEF CInv, TypeOK, RefreshThrows
<1>3. TypeOK'
  BY <1>1, <1>2 DEF CInv, TypeOK, RefreshThrows, procVars, Creds
<1>4. ClientFollowsCreds'
  BY <1>2 DEF ClientFollowsCreds
<1>5. TornMeansCutShort'
  BY <1>2 DEF TornMeansCutShort
<1> QED
  BY <1>1, <1>3, <1>4, <1>5 DEF CInv

\* A turn of an order handler outside a refresh only moves its task.
LEMMA OrderStepCInv ==
    ASSUME CInv, NEW o \in Orders, OrderStep(o)
    PROVE  CInv'
<1>1. o \in Tasks
  BY DEF Tasks
<1>2. \E s \in TaskStates :
          /\ task' = [task EXCEPT ![o] = s]
          /\ s.pc \in {"idle", "submitted", "accepted", "401", "asking"}
  BY OrderStepMove DEF CInv
<1>3. /\ ~Saving(o) /\ blips' \in 0..MaxBlips
      /\ UNCHANGED <<venueKey, disk, phase, creds, client, failures, blanks, crashes>>
  BY BridgeCredsAssumption
  DEF CInv, TypeOK, OrderStep, Submit, VenueJudges, SigningFails, HandlerReacts, Saving,
      procVars, boundVars
<1>4. /\ task' \in [Tasks -> TaskStates]
      /\ HasKey' /\ ClientFollowsCreds' /\ TornMeansCutShort'
  BY <1>1, <1>2, <1>3, QuietMove
<1>5. TypeOK'
  BY <1>3, <1>4 DEF CInv, TypeOK
<1> QED
  BY <1>4, <1>5 DEF CInv

\* A rotation touches nothing the invariant relates.
LEMMA RotateCInv == CInv /\ Rotate => CInv'
<1> SUFFICES ASSUME CInv, Rotate PROVE CInv'
  OBVIOUS
<1>1. TypeOK'
  BY BridgeCredsAssumption DEF CInv, TypeOK, Rotate, procVars, boundVars, Keys
<1>2. HasKey' /\ ClientFollowsCreds' /\ TornMeansCutShort'
  BY DEF CInv, HasKey, ClientFollowsCreds, TornMeansCutShort, Saving, Rotate, procVars,
     boundVars
<1> QED
  BY <1>1, <1>2 DEF CInv

\* A crash leaves no task behind and is counted.
LEMMA CrashCInv == CInv /\ Crash => CInv'
<1> SUFFICES ASSUME CInv, Crash PROVE CInv'
  OBVIOUS
<1>1. crashes' \in 0..MaxCrashes /\ crashes' > 0 /\ failures' \in Nat
  BY BridgeCredsAssumption DEF CInv, TypeOK, Crash
<1>2. TypeOK'
  BY <1>1, IdleLegal DEF CInv, TypeOK, Crash, Creds
<1>3. HasKey'
  BY IdleLegal DEF HasKey, Crash
<1>4. ClientFollowsCreds' /\ TornMeansCutShort'
  BY <1>1 DEF ClientFollowsCreds, TornMeansCutShort, Crash
<1> QED
  BY <1>2, <1>3, <1>4 DEF CInv

\* Every step preserves the inductive invariant.
LEMMA NextCInv == CInv /\ [Next]_vars => CInv'
<1> SUFFICES ASSUME CInv, [Next]_vars PROVE CInv'
  OBVIOUS
<1>1. CASE BootStep
  BY <1>1, BootFromDiskCInv, BootFreshCInv DEF BootStep
<1>2. ASSUME NEW t \in Tasks, RefreshStep(t) \/ VenueDerivesNothing(t) \/ RefreshThrows(t)
      PROVE  CInv'
  BY <1>2, AnswerCInv, KeyArrivesCInv, OpenFileCInv, SaveSucceedsCInv,
     RefreshThrowsCInv DEF RefreshStep
<1>3. ASSUME NEW o \in Orders, OrderStep(o) PROVE CInv'
  BY <1>3, OrderStepCInv
<1>4. CASE Rotate \/ Crash
  BY <1>4, RotateCInv, CrashCInv
<1>5. CASE UNCHANGED vars
  BY <1>5 DEF CInv, TypeOK, HasKey, ClientFollowsCreds, TornMeansCutShort, Saving, vars,
     procVars, boundVars
<1> QED
  BY <1>1, <1>2, <1>3, <1>4, <1>5 DEF Next

-----------------------------------------------------------------------------
\* The inductive invariant holds in every reachable state.
THEOREM CredsInvariance == Spec => []CInv
BY InitCInv, NextCInv, PTL DEF Spec

\* Variables have their types.
THEOREM CredsTypeCorrect == Spec => []TypeOK
BY CredsInvariance, PTL DEF CInv

\* While the client is not built from the last key obtained, a handler is still
\* saving that or another key, or a refresh has thrown.
THEOREM ClientCatchesUp == Spec => []ClientFollowsCreds
BY CredsInvariance, PTL DEF CInv

\* The key file is unreadable only while it is written or after a write that was
\* cut short: concurrent saves alone never leave it so.
THEOREM FileStaysReadable == Spec => []TornMeansCutShort
BY CredsInvariance, PTL DEF CInv

-----------------------------------------------------------------------------
(* Start-up and handlers never run together: the handlers run while the    *)
(* process is up, the start-up code until then.  So the globals hold a key *)
(* as long as anyone saves one.                                            *)

Alone ==
    /\ phase # "up" => \A o \in Orders : task[o].pc = "idle"
    /\ task[Boot].pc # "idle" => phase = "booting"
    /\ \A t \in Tasks : Saving(t) => creds # NoKey

\* A task that was at work, or a handler of a process that is up, may move.
LEMMA MoveAlone ==
    ASSUME CInv, Alone, NEW t \in Tasks, NEW s \in TaskStates,
           task' = [task EXCEPT ![t] = s],
           s.pc = "idle" \/ task[t].pc # "idle" \/ (t \in Orders /\ phase = "up"),
           s.pc \in {"opening", "writing"} => creds # NoKey,
           UNCHANGED <<phase, creds>>
    PROVE  Alone'
<1>1. task'[t] = s /\ \A u \in Tasks : u # t => task'[u] = task[u]
  BY DEF CInv, TypeOK
<1>2. Boot \in Tasks /\ (\A o \in Orders : o \in Tasks /\ o # Boot)
  BY BridgeCredsAssumption DEF Tasks
<1>3. phase' # "up" => \A o \in Orders : task'[o].pc = "idle"
  BY <1>1, <1>2 DEF Alone
<1>4. task'[Boot].pc # "idle" => phase' = "booting"
  BY <1>1, <1>2 DEF Alone
<1>5. \A u \in Tasks : Saving(u)' => creds' # NoKey
  BY <1>1 DEF Alone, Saving
<1> QED
  BY <1>3, <1>4, <1>5 DEF Alone

\* Who runs, as far as the phase tells.
LEMMA WhoRuns ==
    ASSUME CInv, Alone, NEW t \in Tasks
    PROVE  /\ phase = "down" => task[t].pc = "idle"
           /\ phase = "up" => task[Boot].pc = "idle"
           /\ task[Boot].pc # "idle" => \A o \in Orders : task[o].pc = "idle"
BY DEF Alone, Tasks

LEMMA BootStepAlone == ASSUME CInv, Alone, BootStep PROVE Alone'
<1>1. CASE BootFromDisk
  BY <1>1, WhoRuns DEF BootFromDisk, Alone, Saving, Tasks
<1>2. CASE BootFresh
  <2>1. PICK s \in TaskStates : task' = [task EXCEPT ![Boot] = s] /\ s.pc = "asking"
    BY <1>2, GotoMove DEF CInv, BootFresh, Tasks
  <2>2. task'[Boot] = s /\ \A u \in Orders : task'[u] = task[u]
    BY <2>1, BridgeCredsAssumption DEF CInv, TypeOK, Tasks
  <2>3. \A u \in Orders : task[u].pc = "idle"
    BY <1>2, WhoRuns DEF BootFresh, Tasks
  <2> QED
    BY <1>2, <2>1, <2>2, <2>3 DEF BootFresh, Alone, Saving, Tasks
<1> QED
  BY <1>1, <1>2 DEF BootStep

LEMMA RefreshStepAlone ==
    ASSUME CInv, Alone, NEW t \in Tasks, RefreshStep(t) \/ VenueDerivesNothing(t)
    PROVE  Alone'
<1>1. CASE VenueDerives(t) \/ VenueDerivesNothing(t)
  <2>1. PICK s \in TaskStates : task' = [task EXCEPT ![t] = s] /\ s.pc = "derived"
    BY <1>1, AnswerMove DEF CInv
  <2>2. task[t].pc # "idle" /\ UNCHANGED <<phase, creds>>
    BY <1>1 DEF VenueDerives, VenueDerivesNothing, procVars
  <2> QED
    BY <2>1, <2>2, MoveAlone
<1>2. CASE KeyArrives(t)
  <2>1. PICK s \in TaskStates : task' = [task EXCEPT ![t] = s] /\ s.pc = "opening"
    BY <1>2, GotoMove DEF CInv, KeyArrives
  <2>2. creds' # NoKey
    BY <1>2, KeysApart DEF KeyArrives, CInv, HasKey
  <2>3. task'[t] = s /\ \A u \in Tasks : u # t => task'[u] = task[u]
    BY <2>1 DEF CInv, TypeOK
  <2>4. phase' = phase /\ task[t].pc # "idle"
    BY <1>2 DEF KeyArrives
  <2> QED
    BY <2>2, <2>3, <2>4 DEF Alone, Tasks
<1>3. CASE OpenFile(t)
  <2>1. PICK s \in TaskStates : task' = [task EXCEPT ![t] = s] /\ s.pc = "writing"
    BY <1>3, GotoMove DEF CInv, OpenFile
  <2>2. /\ task[t].pc # "idle" /\ creds # NoKey
        /\ UNCHANGED <<phase, creds>>
    BY <1>3 DEF OpenFile, Alone, Saving, procVars
  <2> QED
    BY <2>1, <2>2, MoveAlone
<1>4. CASE SaveSucceeds(t)
  <2>1. creds \in Creds /\ creds' = creds /\ phase' = "up"
    BY <1>4 DEF CInv, TypeOK, SaveSucceeds
  <2>2. PICK s \in TaskStates :
            /\ task' = [task EXCEPT ![t] = s]
            /\ s.pc \in {"idle", "submitted"} /\ (t = Boot => s.pc = "idle")
    BY <1>4, <2>1, FinishMove, IdleLegal, SubmitMove DEF CInv, SaveSucceeds
  <2>3. task'[t] = s /\ \A u \in Tasks : u # t => task'[u] = task[u]
    BY <2>2 DEF CInv, TypeOK
  <2>4. task'[Boot].pc = "idle"
    <3>1. task[t].pc = "writing"
      BY <1>4 DEF SaveSucceeds
    <3>2. CASE t = Boot
      BY <2>2, <2>3, <3>2
    <3>3. CASE t # Boot
      BY <2>3, <3>1, <3>3, WhoRuns DEF Tasks
    <3> QED
      BY <3>2, <3>3
  <2>5. \A u \in Tasks : Saving(u)' => Saving(u)
    BY <2>2, <2>3 DEF Saving
  <2> QED
    BY <2>1, <2>4, <2>5 DEF Alone
<1> QED
  BY <1>1, <1>2, <1>3, <1>4 DEF RefreshStep

LEMMA RefreshThrowsAlone ==
    ASSUME CInv, Alone, NEW t \in Tasks, RefreshThrows(t)
    PROVE  Alone'
<1>1. task' = [task EXCEPT ![t] = IdleTask] /\ task[t].pc # "idle"
  BY FinishMove DEF RefreshThrows
<1>2. CASE t # Boot
  BY <1>1, <1>2, MoveAlone, IdleLegal DEF RefreshThrows, procVars
<1>3. CASE t = Boot
  <2>1. \A u \in Tasks : task'[u].pc = "idle"
    BY <1>1, <1>3, WhoRuns, IdleLegal DEF CInv, TypeOK, Tasks
  <2> QED
    BY <1>3, <2>1 DEF RefreshThrows, Alone, Saving, Tasks
<1> QED
  BY <1>2, <1>3

LEMMA OrderStepAlone ==
    ASSUME CInv, Alone, NEW o \in Orders, OrderStep(o)
    PROVE  Alone'
<1>1. o \in Tasks
  BY DEF Tasks
<1>2. \E s \in TaskStates :
          /\ task' = [task EXCEPT ![o] = s]
          /\ s.pc \in {"idle", "submitted", "accepted", "401", "asking"}
  BY OrderStepMove DEF CInv
<1>3. task[o].pc # "idle" \/ phase = "up"
  BY DEF OrderStep, Submit, VenueJudges, SigningFails, HandlerReacts
<1>4. UNCHANGED <<phase, creds>>
  BY DEF OrderStep, Submit, VenueJudges, SigningFails, HandlerReacts, procVars
<1> QED
  BY <1>1, <1>2, <1>3, <1>4, MoveAlone

LEMMA NextAlone == CInv /\ Alone /\ [Next]_vars => Alone'
<1> SUFFICES ASSUME CInv, Alone, [Next]_vars PROVE Alone'
  OBVIOUS
<1>1. CASE BootStep
  BY <1>1, BootStepAlone
<1>2. ASSUME NEW t \in Tasks, RefreshStep(t) \/ VenueDerivesNothing(t) \/ RefreshThrows(t)
      PROVE  Alone'
  BY <1>2, RefreshStepAlone, RefreshThrowsAlone
<1>3. ASSUME NEW o \in Orders, OrderStep(o) PROVE Alone'
  BY <1>3, OrderStepAlone
<1>4. CASE Rotate \/ UNCHANGED vars
  BY <1>4 DEF Alone, Saving, Rotate, vars, procVars
<1>5. CASE Crash
  <2>1. \A u \in Tasks : task'[u].pc = "idle"
    BY <1>5, IdleLegal DEF Crash
  <2> QED
    BY <1>5, <2>1 DEF Crash, Alone, Saving, Tasks
<1> QED
  BY <1>1, <1>2, <1>3, <1>4, <1>5 DEF Next

\* At every moment either the start-up code runs or handlers do.
THEOREM BootRunsAlone == Spec => []Alone
<1>1. Init => Alone
  BY IdleLegal DEF Init, Alone, Saving, Tasks
<1> QED
  BY <1>1, NextAlone, CredsInvariance, PTL DEF Spec

-----------------------------------------------------------------------------
(* No stale copy of the key comes back. *)

\* A move of one task spoils nothing if the key it has is the registered one.
LEMMA MoveSettled ==
    ASSUME CInv, Settled, NEW t \in Tasks, NEW s \in TaskStates,
           task' = [task EXCEPT ![t] = s],
           s.pc \in {"derived", "opening", "writing"} => s.got = venueKey,
           creds' \in {NoKey, venueKey},
           client' = IF phase' = "up" THEN venueKey ELSE NoKey,
           disk' \in {Absent, Torn, Blank, venueKey}, venueKey' = venueKey
    PROVE  Settled'
<1>1. task'[t] = s /\ \A u \in Tasks : u # t => task'[u] = task[u]
  BY DEF CInv, TypeOK
<1>2. \A u \in Tasks : task'[u].pc \in {"derived", "opening", "writing"} =>
          task'[u].got = venueKey'
  BY <1>1 DEF Settled
<1> QED
  BY <1>2 DEF Settled

LEMMA RefreshStepSettled ==
    ASSUME CInv, Alone, Settled, NEW t \in Tasks, RefreshStep(t)
    PROVE  Settled'
<1>1. CASE VenueDerives(t)
  <2>1. UNCHANGED <<venueKey, disk, phase, creds, client, blanks>>
    BY <1>1 DEF VenueDerives, procVars, boundVars
  <2>2. PICK s \in TaskStates : task' = [task EXCEPT ![t] = s] /\ s.got = venueKey
    BY <1>1, <2>1, AnswerMove DEF CInv
  <2> QED
    BY <2>1, <2>2, MoveSettled DEF Settled
<1>2. CASE KeyArrives(t)
  <2>1. task[t].got = venueKey
    BY <1>2 DEF KeyArrives, Settled
  <2>2. PICK s \in TaskStates : task' = [task EXCEPT ![t] = s] /\ s.got = task[t].got
    BY <1>2, GotoMove DEF CInv, KeyArrives
  <2>3. creds' = venueKey /\ UNCHANGED <<venueKey, disk, phase, client>>
    BY <1>2, <2>1 DEF KeyArrives
  <2> QED
    BY <2>1, <2>2, <2>3, MoveSettled DEF Settled
<1>3. CASE OpenFile(t)
  <2>1. task[t].got = venueKey
    BY <1>3 DEF OpenFile, Settled
  <2>2. PICK s \in TaskStates : task' = [task EXCEPT ![t] = s] /\ s.got = task[t].got
    BY <1>3, GotoMove DEF CInv, OpenFile
  <2>3. disk' = Torn /\ UNCHANGED <<venueKey, creds, phase, client>>
    BY <1>3 DEF OpenFile, procVars
  <2> QED
    BY <2>1, <2>2, <2>3, MoveSettled DEF Settled
<1>4. CASE SaveSucceeds(t)
  <2>1. task[t].got = venueKey /\ creds = venueKey
    BY <1>4 DEF SaveSucceeds, Settled, Alone, Saving
  <2>2. \E s \in TaskStates :
            task' = [task EXCEPT ![t] = s] /\ s.pc \in {"idle", "submitted"}
    BY <1>4, FinishMove, IdleLegal, SubmitMove DEF CInv, TypeOK, SaveSucceeds
  <2>3. /\ disk' = venueKey /\ client' = venueKey /\ phase' = "up"
        /\ creds' = creds /\ venueKey' = venueKey
    BY <1>4, <2>1 DEF SaveSucceeds
  <2> QED
    BY <2>1, <2>2, <2>3, MoveSettled
<1> QED
  BY <1>1, <1>2, <1>3, <1>4 DEF RefreshStep

LEMMA RefreshThrowsSettled ==
    ASSUME CInv, Settled, NEW t \in Tasks, RefreshThrows(t)
    PROVE  Settled'
<1>1. task' = [task EXCEPT ![t] = IdleTask] /\ UNCHANGED <<venueKey, disk>>
  BY FinishMove DEF RefreshThrows
<1>2. /\ creds' \in {NoKey, venueKey}
      /\ client' = IF phase' = "up" THEN venueKey ELSE NoKey
  BY DEF RefreshThrows, Settled, procVars
<1> QED
  BY <1>1, <1>2, IdleLegal, MoveSettled DEF Settled

LEMMA OrderStepSettled ==
    ASSUME CInv, Settled, NEW o \in Orders, OrderStep(o)
    PROVE  Settled'
<1>1. o \in Tasks
  BY DEF Tasks
<1>2. \E s \in TaskStates :
          /\ task' = [task EXCEPT ![o] = s]
          /\ s.pc \in {"idle", "submitted", "accepted", "401", "asking"}
  BY OrderStepMove DEF CInv
<1>3. UNCHANGED <<venueKey, disk, phase, creds, client>>
  BY DEF OrderStep, Submit, VenueJudges, SigningFails, HandlerReacts, procVars
<1> QED
  BY <1>1, <1>2, <1>3, MoveSettled DEF Settled

\* Once the key of the globals, of the file and of every handler is the one the
\* venue has registered, it stays so until the venue rotates it or answers a
\* derivation without a key: a refresh can only bring back a stale key that was
\* already on its way.
THEOREM SettledForGood == Spec => SettledStays
<1>1. ASSUME CInv, Alone, [Next]_vars, Settled, UNCHANGED <<venueKey, blanks>>
      PROVE  Settled'
  <2>1. CASE BootFromDisk
    BY <1>1, <2>1, KeysApart DEF BootFromDisk, Settled, Answers
  <2>2. CASE BootFresh
    <3>1. PICK s \in TaskStates : task' = [task EXCEPT ![Boot] = s] /\ s.pc = "asking"
      BY <1>1, <2>2, GotoMove DEF CInv, BootFresh, Tasks
    <3>2. /\ UNCHANGED <<venueKey, disk, creds, client>>
          /\ phase = "down" /\ phase' = "booting"
      BY <2>2 DEF BootFresh
    <3> QED
      BY <1>1, <3>1, <3>2, MoveSettled DEF Settled, Tasks
  <2>3. ASSUME NEW t \in Tasks, RefreshStep(t) \/ RefreshThrows(t) PROVE Settled'
    BY <1>1, <2>3, RefreshStepSettled, RefreshThrowsSettled
  <2>4. ASSUME NEW o \in Orders, OrderStep(o) PROVE Settled'
    BY <1>1, <2>4, OrderStepSettled
  <2>5. CASE UNCHANGED vars
    BY <1>1, <2>5 DEF Settled, vars, procVars
  <2>6. CASE Rotate
    <3>1. venueKey \in Nat
      BY <1>1, KeysApart DEF CInv, TypeOK
    <3> QED
      BY <1>1, <2>6, <3>1 DEF Rotate
  <2>7. CASE Crash
    BY <1>1, <2>7, IdleLegal DEF Crash, Settled
  <2>8. \A t \in Tasks : ~VenueDerivesNothing(t)
    BY <1>1, BridgeCredsAssumption DEF CInv, TypeOK, VenueDerivesNothing
  <2> QED
    BY <1>1, <2>1, <2>2, <2>3, <2>4, <2>5, <2>6, <2>7, <2>8 DEF Next, BootStep
<1>2. CInv /\ Alone /\ [Next]_vars =>
          [Settled /\ UNCHANGED <<venueKey, blanks>> => Settled']_vars
  BY <1>1
<1> QED
  BY <1>2, CredsInvariance, BootRunsAlone, PTL DEF Spec, SettledStays

-----------------------------------------------------------------------------
(* What a refresh is good for when no other one is under way. *)

\* The key a task saves is the one in the globals, and the submission after a
\* refresh was made with it.
OwnKey == (\A t \in Tasks : Saving(t) => creds = task[t].got) /\ RefreshIsUsed

\* A move of the only task at work, to a save of the key in the globals or to a
\* submission that is not the one after a refresh, or was made with its key.
LEMMA MoveOwnKey ==
    ASSUME CInv, OwnKey, NEW t \in Tasks, NEW s,
           task' = [task EXCEPT ![t] = s],
           s.pc \in {"opening", "writing"} => creds' = s.got,
           s.pc = "submitted" /\ s.tries = 2 => s.used >= s.got,
           creds' = creds \/ \A u \in Tasks : u # t => task[u].pc = "idle"
    PROVE  OwnKey'
<1>1. task'[t] = s /\ \A u \in Tasks : u # t => task'[u] = task[u]
  BY DEF CInv, TypeOK
<1>2. \A u \in Tasks : Saving(u)' => creds' = task'[u].got
  BY <1>1 DEF OwnKey, Saving
<1>3. RefreshIsUsed'
  BY <1>1 DEF OwnKey, RefreshIsUsed, Tasks
<1> QED
  BY <1>2, <1>3 DEF OwnKey

\* A step of one task, with one handler.
LEMMA LoneStep ==
    ASSUME CInv, Alone, OwnKey, \A o, q \in Orders : o = q,
           NEW t \in Tasks,
           RefreshStep(t) \/ VenueDerivesNothing(t) \/ (t \in Orders /\ OrderStep(t))
    PROVE  OwnKey'
<1>1. task[t] \in TaskStates /\ DOMAIN task = Tasks /\ client \in Creds
  BY DEF CInv, TypeOK
<1>2. DOMAIN task[t] = {"pc", "tries", "used", "got"}
  BY <1>1 DEF TaskStates
<1>3. CASE VenueDerives(t) \/ VenueDerivesNothing(t)
  <2>1. PICK s \in TaskStates : task' = [task EXCEPT ![t] = s] /\ s.pc = "derived"
    BY <1>3, AnswerMove DEF CInv
  <2>2. creds' = creds
    BY <1>3 DEF VenueDerives, VenueDerivesNothing, procVars
  <2> QED
    BY <2>1, <2>2, MoveOwnKey
<1>4. CASE KeyArrives(t)
  <2>1. PICK s \in TaskStates :
            task' = [task EXCEPT ![t] = s] /\ s.pc = "opening" /\ s.got = task[t].got
    BY <1>4, GotoMove DEF CInv, KeyArrives
  <2>2. creds' = task[t].got /\ task[t].pc # "idle"
    BY <1>4 DEF KeyArrives
  <2>3. \A u \in Tasks : u # t => task[u].pc = "idle"
    BY <2>2, WhoRuns DEF Tasks
  <2> QED
    BY <2>1, <2>2, <2>3, MoveOwnKey
<1>5. CASE OpenFile(t)
  <2>1. PICK s \in TaskStates :
            task' = [task EXCEPT ![t] = s] /\ s.pc = "writing" /\ s.got = task[t].got
    BY <1>5, GotoMove DEF CInv, OpenFile
  <2>2. creds' = creds /\ creds = task[t].got
    BY <1>5 DEF OpenFile, OwnKey, Saving, procVars
  <2> QED
    BY <2>1, <2>2, MoveOwnKey
<1>6. CASE SaveSucceeds(t)
  <2>1. creds' = creds /\ creds = task[t].got /\ task[t].got \in Int
    <3>1. creds' = creds /\ creds = task[t].got /\ task[t].got \in Answers
      BY <1>6 DEF SaveSucceeds, OwnKey, Saving, CInv, HasKey
    <3> QED
      BY <3>1, KeysApart
  <2>2. CASE t = Boot \/ creds = Blank
    <3>1. task' = [task EXCEPT ![t] = IdleTask]
      BY <1>6, <2>2, FinishMove DEF SaveSucceeds
    <3> QED
      BY <2>1, <3>1, IdleLegal, MoveOwnKey
  <2>3. CASE ~(t = Boot \/ creds = Blank)
    <3> DEFINE s == [task[t] EXCEPT !.pc = "submitted", !.tries = 2, !.used = creds]
    <3>1. s.pc = "submitted" /\ s.used = creds /\ s.got = task[t].got
      BY <1>2
    <3>2. task' = [task EXCEPT ![t] = s]
      BY <1>1, <1>6, <2>3 DEF SaveSucceeds, SubmitWith, CInv, TypeOK, TaskStates
    <3> HIDE DEF s
    <3>3. s.used >= s.got /\ s.pc \notin {"opening", "writing"}
      BY <2>1, <3>1
    <3>4. creds' = creds
      BY <2>1
    <3> QED
      BY <3>2, <3>3, <3>4, MoveOwnKey
  <2> QED
    BY <2>2, <2>3
<1>7. CASE t \in Orders /\ OrderStep(t)
  <2>1. creds' = creds
    BY <1>7 DEF OrderStep, Submit, VenueJudges, SigningFails, HandlerReacts, procVars
  <2>2. ASSUME NEW pc \in {"accepted", "401", "asking"}, Goto(t, pc) PROVE OwnKey'
    BY <2>1, <2>2, GotoMove, MoveOwnKey DEF CInv
  <2>3. ASSUME Finish(t) PROVE OwnKey'
    BY <2>1, <2>3, FinishMove, IdleLegal, MoveOwnKey
  <2>4. ASSUME NEW n \in {0, 1}, SubmitWith(t, n, client) PROVE OwnKey'
    <3> DEFINE s == [task[t] EXCEPT !.pc = "submitted", !.tries = n, !.used = client]
    <3>1. s.pc = "submitted" /\ s.tries # 2
      BY <1>2
    <3>2. task' = [task EXCEPT ![t] = s]
      BY <1>1, <2>4 DEF SubmitWith, CInv, TypeOK, TaskStates
    <3> HIDE DEF s
    <3> QED
      BY <2>1, <3>1, <3>2, MoveOwnKey
  <2> QED
    BY <1>7, <2>2, <2>3, <2>4 DEF OrderStep, Submit, VenueJudges, SigningFails, HandlerReacts
<1> QED
  BY <1>3, <1>4, <1>5, <1>6, <1>7 DEF RefreshStep

\* With a single handler the submission after a refresh is made with the key
\* this refresh obtained: it takes two refreshes at once to lose it.
THEOREM LoneRefreshIsUsed == (\A o, q \in Orders : o = q) => (Spec => []RefreshIsUsed)
<1> SUFFICES ASSUME \A o, q \in Orders : o = q PROVE Spec => []RefreshIsUsed
  OBVIOUS
<1>1. Init => OwnKey
  BY IdleLegal DEF Init, OwnKey, RefreshIsUsed, Saving, Tasks
<1>2. CInv /\ Alone /\ OwnKey /\ [Next]_vars => OwnKey'
  <2> SUFFICES ASSUME CInv, Alone, OwnKey, [Next]_vars PROVE OwnKey'
    OBVIOUS
  <2>1. CASE BootFromDisk
    BY <2>1, WhoRuns DEF BootFromDisk, OwnKey, RefreshIsUsed, Saving
  <2>2. CASE BootFresh
    <3>1. PICK s \in TaskStates : task' = [task EXCEPT ![Boot] = s] /\ s.pc = "asking"
      BY <2>2, GotoMove DEF CInv, BootFresh, Tasks
    <3> QED
      BY <2>2, <3>1, MoveOwnKey DEF BootFresh, Tasks
  <2>3. ASSUME NEW t \in Tasks,
               RefreshStep(t) \/ VenueDerivesNothing(t) \/ (t \in Orders /\ OrderStep(t))
        PROVE  OwnKey'
    BY <2>3, LoneStep
  <2>4. ASSUME NEW t \in Tasks, RefreshThrows(t) PROVE OwnKey'
    <3>1. task' = [task EXCEPT ![t] = IdleTask] /\ task[t].pc # "idle"
      BY <2>4, FinishMove DEF RefreshThrows
    <3>2. creds' = creds \/ \A u \in Tasks : u # t => task[u].pc = "idle"
      BY <2>4, <3>1, WhoRuns DEF RefreshThrows, procVars, Tasks
    <3> QED
      BY <3>1, <3>2, IdleLegal, MoveOwnKey
  <2>5. CASE Rotate \/ UNCHANGED vars
    BY <2>5 DEF OwnKey, RefreshIsUsed, Saving, Rotate, vars, procVars
  <2>6. CASE Crash
    BY <2>6, IdleLegal DEF Crash, OwnKey, RefreshIsUsed, Saving, Tasks
  <2> QED
    BY <2>1, <2>2, <2>3, <2>4, <2>5, <2>6 DEF Next, BootStep, Tasks
<1> QED
  BY <1>1, <1>2, CredsInvariance, BootRunsAlone, PTL DEF Spec, OwnKey

-----------------------------------------------------------------------------
(* No handler is sent back. *)

\* A handler that is not idle has a step left.
LEMMA BusyHasSteps ==
    ASSUME TypeOK, NEW o \in Orders, task[o].pc # "idle"
    PROVE  StepsLeft(o) \in Nat \ {0}
<1>1. task[o] \in TaskStates
  BY DEF TypeOK, Tasks
<1>2. /\ task[o].pc \in {"submitted", "accepted", "401",
                        "asking", "derived", "opening", "writing"}
      /\ task[o].tries \in 0..2
  BY <1>1 DEF TaskStates
<1> QED
  BY <1>2 DEF StepsLeft

\* Where the moves leave the loop counter of a handler.
LEMMA GotoLeaves ==
    ASSUME TypeOK, NEW o \in Orders, NEW pc, Goto(o, pc)
    PROVE  task'[o].pc = pc /\ task'[o].tries = task[o].tries
BY DEF Goto, TypeOK, TaskStates, Tasks

LEMMA SubmitLeaves ==
    ASSUME TypeOK, NEW o \in Orders, NEW n \in 0..2, NEW key, SubmitWith(o, n, key)
    PROVE  task'[o].pc = "submitted" /\ task'[o].tries = n
<1> DEFINE s == [task[o] EXCEPT !.pc = "submitted", !.tries = n, !.used = key]
<1>1. s.pc = "submitted" /\ s.tries = n
  BY DEF TypeOK, TaskStates, Tasks
<1>2. task'[o] = s
  BY DEF SubmitWith, TypeOK, TaskStates, Tasks
<1> QED
  BY <1>1, <1>2

LEMMA FinishLeaves ==
    ASSUME TypeOK, NEW o \in Orders, Finish(o)
    PROVE  task'[o].pc = "idle"
BY IdleLegal DEF Finish, TypeOK, Tasks

\* A step of a handler brings it nearer to its end.
LEMMA HandlerStepAdvances ==
    ASSUME TypeOK, NEW o \in Orders, task[o].pc # "idle",
           RefreshStep(o) \/ VenueDerivesNothing(o) \/ OrderStep(o)
    PROVE  StepsLeft(o)' < StepsLeft(o)
<1>1. task[o] \in TaskStates /\ o # Boot /\ DOMAIN task = Tasks /\ o \in Tasks
  BY BridgeCredsAssumption DEF TypeOK, Tasks
<1>2. /\ task[o].tries \in 0..2
      /\ DOMAIN task[o] = {"pc", "tries", "used", "got"}
  BY <1>1 DEF TaskStates
<1>3. ASSUME NEW pc, Goto(o, pc) PROVE task'[o].pc = pc /\ task'[o].tries = task[o].tries
  BY <1>3, GotoLeaves
<1>4. ASSUME NEW n \in 0..2, NEW key, SubmitWith(o, n, key)
      PROVE  task'[o].pc = "submitted" /\ task'[o].tries = n
  BY <1>4, SubmitLeaves
<1>5. ASSUME Finish(o) PROVE task'[o].pc = "idle"
  BY <1>5, FinishLeaves
<1>6. CASE VenueDerives(o) \/ VenueDerivesNothing(o)
  <2>1. task[o].pc = "asking" /\ task'[o].pc = "derived"
    BY <1>1, <1>2, <1>6 DEF VenueDerives, VenueDerivesNothing
  <2> QED
    BY <2>1 DEF StepsLeft
<1>7. CASE KeyArrives(o)
  <2>1. task[o].pc = "derived" /\ task'[o].pc = "opening"
    BY <1>3, <1>7 DEF KeyArrives
  <2> QED
    BY <2>1 DEF StepsLeft
<1>8. CASE OpenFile(o)
  <2>1. task[o].pc = "opening" /\ task'[o].pc = "writing"
    BY <1>3, <1>8 DEF OpenFile
  <2> QED
    BY <2>1 DEF StepsLeft
<1>9. CASE SaveSucceeds(o)
  <2>1. task[o].pc = "writing"
    BY <1>9 DEF SaveSucceeds
  <2>2. \/ task'[o].pc = "idle"
        \/ task'[o].pc = "submitted" /\ task'[o].tries = 2
    BY <1>1, <1>4, <1>5, <1>9 DEF SaveSucceeds
  <2> QED
    BY <2>1, <2>2 DEF StepsLeft
<1>10. CASE Submit(o)
  BY <1>10 DEF Submit
<1>11. CASE VenueJudges(o)
  <2>1. /\ task[o].pc = "submitted" /\ task'[o].pc \in {"accepted", "401"}
        /\ task'[o].tries = task[o].tries
    BY <1>3, <1>11 DEF VenueJudges
  <2> QED
    BY <1>2, <2>1 DEF StepsLeft
<1>12. CASE SigningFails(o)
  <2>1. task[o].pc = "submitted" /\ task'[o].pc = "idle"
    BY <1>5, <1>12 DEF SigningFails
  <2> QED
    BY <1>2, <2>1 DEF StepsLeft
<1>13. CASE HandlerReacts(o)
  <2>1. CASE task[o].pc = "401" /\ task[o].tries = 0 /\ SubmitWith(o, 1, client)
    BY <1>4, <2>1 DEF StepsLeft
  <2>2. CASE task[o].pc = "401" /\ task[o].tries = 1 /\ Goto(o, "asking")
    BY <1>3, <2>2 DEF StepsLeft
  <2>3. CASE Finish(o) /\ task[o].pc \in {"401", "accepted"}
    BY <1>2, <1>5, <2>3 DEF StepsLeft
  <2> QED
    BY <1>13, <2>1, <2>2, <2>3 DEF HandlerReacts
<1> QED
  BY <1>6, <1>7, <1>8, <1>9, <1>10, <1>11, <1>12, <1>13 DEF RefreshStep, OrderStep

\* No step of the bridge, of its other handlers, of the venue or of the process
\* sends an order back: with any number of handlers an order costs at most three
\* submissions and one refresh (submitWithAuthRetry).
THEOREM NoHandlerSpins == Spec => HandlersAdvance
<1>1. ASSUME TypeOK, [Next]_vars, NEW o \in Orders, task'[o] # task[o], task[o].pc # "idle"
      PROVE  StepsLeft(o)' < StepsLeft(o)
  <2> USE <1>1
  <2>1. o \in Tasks /\ o # Boot /\ DOMAIN task = Tasks
    BY BridgeCredsAssumption DEF TypeOK, Tasks
  <2>2. ASSUME task'[o].pc = "idle" PROVE StepsLeft(o)' < StepsLeft(o)
    <3>1. StepsLeft(o)' = 0
      BY <2>2 DEF StepsLeft
    <3> QED
      BY <3>1, BusyHasSteps
  <2>3. CASE BootStep
    BY <2>1, <2>3 DEF BootStep, BootFromDisk, BootFresh, Goto
  <2>4. ASSUME NEW t \in Tasks,
               RefreshStep(t) \/ VenueDerivesNothing(t) \/ RefreshThrows(t)
        PROVE  StepsLeft(o)' < StepsLeft(o)
    <3>1. t = o
      BY <2>1, <2>4 DEF RefreshStep, VenueDerives, VenueDerivesNothing, KeyArrives, OpenFile,
         SaveSucceeds, RefreshThrows, Goto, Finish, SubmitWith
    <3>2. CASE RefreshThrows(o)
      BY <2>1, <2>2, <3>2, IdleLegal DEF RefreshThrows, Finish
    <3>3. CASE RefreshStep(o) \/ VenueDerivesNothing(o)
      BY <3>3, HandlerStepAdvances
    <3> QED
      BY <2>4, <3>1, <3>2, <3>3
  <2>5. ASSUME NEW q \in Orders, OrderStep(q) PROVE StepsLeft(o)' < StepsLeft(o)
    <3>1. q = o
      BY <2>1, <2>5 DEF OrderStep, Submit, VenueJudges, SigningFails, HandlerReacts, Goto,
         Finish, SubmitWith
    <3> QED
      BY <2>5, <3>1, HandlerStepAdvances
  <2>6. CASE Rotate \/ UNCHANGED vars
    BY <2>6 DEF Rotate, vars
  <2>7. CASE Crash
    BY <2>1, <2>2, <2>7, IdleLegal DEF Crash
  <2> QED
    BY <2>3, <2>4, <2>5, <2>6, <2>7 DEF Next
<1>2. TypeOK /\ [Next]_vars =>
          [\A o \in Orders : task'[o] # task[o] =>
              task[o].pc = "idle" \/ StepsLeft(o)' < StepsLeft(o)]_vars
  BY <1>1
<1> QED
  BY <1>2, CredsTypeCorrect, PTL DEF Spec, HandlersAdvance
-----------------------------------------------------------------------------
(* The handlers implement the loop.                                        *)

\* One handler may move along the loop, or end.
LEMMA LoopMove ==
    ASSUME NEW o \in Orders,
           \A q \in Orders : q # o => LoopStage(q)' = LoopStage(q),
           \/ LoopStage(o)' = LoopStage(o)
           \/ LoopStage(o)' = <<0, "idle">>
           \/ LoopStage(o) = <<0, "idle">> /\ LoopStage(o)' = <<1, "sent">>
           \/ \E n \in 1..3 : LoopStage(o) = <<n, "sent">> /\ LoopStage(o)' = <<n, "401">>
           \/ LoopStage(o) = <<1, "401">> /\ LoopStage(o)' = <<2, "sent">>
           \/ LoopStage(o) = <<2, "401">> /\ LoopStage(o)' = <<2, "refreshing">>
           \/ LoopStage(o) = <<2, "refreshing">> /\ LoopStage(o)' = <<3, "sent">>
    PROVE  [Loop!Next]_Loop!vars
<1> DEFINE st == [q \in Orders |-> LoopStage(q)]
<1>1. st[o] = LoopStage(o) /\ st' = [st EXCEPT ![o] = LoopStage(o)']
  OBVIOUS
<1>2. CASE LoopStage(o)' = LoopStage(o)
  BY <1>1, <1>2 DEF Loop!vars
<1>3. CASE LoopStage(o)' = <<0, "idle">>
  <2>1. Loop!End(o)
    BY <1>1, <1>3 DEF Loop!End, Loop!Move, Loop!Idle
  <2> QED
    BY <2>1 DEF Loop!Next
<1>4. CASE LoopStage(o) = <<0, "idle">> /\ LoopStage(o)' = <<1, "sent">>
  <2>1. Loop!Submit(o)
    BY <1>1, <1>4 DEF Loop!Submit, Loop!Move, Loop!Idle
  <2> QED
    BY <2>1 DEF Loop!Next
<1>5. CASE \E n \in 1..3 : LoopStage(o) = <<n, "sent">> /\ LoopStage(o)' = <<n, "401">>
  <2>1. Loop!Reject(o)
    BY <1>1, <1>5 DEF Loop!Reject, Loop!Move
  <2> QED
    BY <2>1 DEF Loop!Next
<1>6. CASE LoopStage(o) = <<1, "401">> /\ LoopStage(o)' = <<2, "sent">>
  <2>1. Loop!SubmitAgain(o)
    BY <1>1, <1>6 DEF Loop!SubmitAgain, Loop!Move
  <2> QED
    BY <2>1 DEF Loop!Next
<1>7. CASE LoopStage(o) = <<2, "401">> /\ LoopStage(o)' = <<2, "refreshing">>
  <2>1. Loop!Refresh(o)
    BY <1>1, <1>7 DEF Loop!Refresh, Loop!Move
  <2> QED
    BY <2>1 DEF Loop!Next
<1>8. CASE LoopStage(o) = <<2, "refreshing">> /\ LoopStage(o)' = <<3, "sent">>
  <2>1. Loop!SubmitLast(o)
    BY <1>1, <1>8 DEF Loop!SubmitLast, Loop!Move
  <2> QED
    BY <2>1 DEF Loop!Next
<1> QED
  BY <1>2, <1>3, <1>4, <1>5, <1>6, <1>7, <1>8

\* A turn of a handler, its refresh included, is a step along the loop.
LEMMA HandlerLoops ==
    ASSUME TypeOK, NEW o \in Orders,
           RefreshStep(o) \/ VenueDerivesNothing(o) \/ RefreshThrows(o) \/ OrderStep(o)
    PROVE  [Loop!Next]_Loop!vars
<1>1. /\ o # Boot /\ DOMAIN task = Tasks /\ o \in Tasks
      /\ task[o].tries \in 0..2
  BY BridgeCredsAssumption DEF TypeOK, TaskStates, Tasks
<1>2. \A q \in Orders : q # o => LoopStage(q)' = LoopStage(q)
  <2>1. \A q \in Orders : q # o => task'[q] = task[q]
    BY <1>1 DEF RefreshStep, VenueDerives, VenueDerivesNothing, KeyArrives, OpenFile,
       SaveSucceeds, RefreshThrows, OrderStep, Submit, VenueJudges, SigningFails,
       HandlerReacts, Goto, Finish, SubmitWith, TypeOK, Tasks
  <2> QED
    BY <2>1 DEF LoopStage
\* The steps of a refresh up to its last.
<1>3. CASE VenueDerives(o) \/ VenueDerivesNothing(o) \/ KeyArrives(o) \/ OpenFile(o)
  <2>1. task[o].pc \in {"asking", "derived", "opening"}
    BY <1>3 DEF VenueDerives, VenueDerivesNothing, KeyArrives, OpenFile
  <2>2. task'[o].pc \in {"derived", "opening", "writing"}
    <3>1. CASE VenueDerives(o) \/ VenueDerivesNothing(o)
      BY <1>1, <3>1 DEF VenueDerives, VenueDerivesNothing, TypeOK, TaskStates
    <3>2. CASE KeyArrives(o)
      BY <3>2, GotoLeaves DEF KeyArrives
    <3>3. CASE OpenFile(o)
      BY <3>3, GotoLeaves DEF OpenFile
    <3> QED
      BY <1>3, <3>1, <3>2, <3>3
  <2>3. LoopStage(o)' = LoopStage(o)
    BY <2>1, <2>2 DEF LoopStage
  <2> QED
    BY <1>2, <2>3, LoopMove
<1>4. ASSUME Finish(o) PROVE [Loop!Next]_Loop!vars
  <2>1. LoopStage(o)' = <<0, "idle">>
    BY <1>4, FinishLeaves DEF LoopStage
  <2> QED
    BY <1>2, <2>1, LoopMove
<1>5. CASE SaveSucceeds(o)
  <2>1. CASE Finish(o)
    BY <1>4, <2>1
  <2>2. CASE SubmitWith(o, 2, creds)
    <3>1. task[o].pc = "writing" /\ task'[o].pc = "submitted" /\ task'[o].tries = 2
      BY <1>1, <1>5, <2>2, SubmitLeaves DEF SaveSucceeds
    <3>2. LoopStage(o) = <<2, "refreshing">> /\ LoopStage(o)' = <<3, "sent">>
      BY <3>1 DEF LoopStage
    <3> QED
      BY <1>2, <3>2, LoopMove
  <2> QED
    BY <1>5, <2>1, <2>2 DEF SaveSucceeds
<1>6. CASE Submit(o)
  <2>1. task[o].pc = "idle" /\ task'[o].pc = "submitted" /\ task'[o].tries = 0
    BY <1>6, SubmitLeaves DEF Submit
  <2>2. LoopStage(o) = <<0, "idle">> /\ LoopStage(o)' = <<1, "sent">>
    BY <2>1 DEF LoopStage
  <2> QED
    BY <1>2, <2>2, LoopMove
<1>7. CASE VenueJudges(o)
  <2>1. /\ task[o].pc = "submitted" /\ task'[o].pc \in {"accepted", "401"}
        /\ task'[o].tries = task[o].tries
    BY <1>7, GotoLeaves DEF VenueJudges
  <2> DEFINE n == task[o].tries + 1
  <2>2. LoopStage(o) = <<n, "sent">> /\ LoopStage(o)' \in {<<n, "sent">>, <<n, "401">>}
    BY <2>1 DEF LoopStage
  <2>3. n \in 1..3
    BY <1>1
  <2> HIDE DEF n
  <2> QED
    BY <1>2, <2>2, <2>3, LoopMove
<1>8. CASE HandlerReacts(o)
  <2>1. CASE task[o].pc = "401" /\ task[o].tries = 0 /\ SubmitWith(o, 1, client)
    <3>1. task'[o].pc = "submitted" /\ task'[o].tries = 1
      BY <2>1, SubmitLeaves
    <3>2. LoopStage(o) = <<1, "401">> /\ LoopStage(o)' = <<2, "sent">>
      BY <2>1, <3>1 DEF LoopStage
    <3> QED
      BY <1>2, <3>2, LoopMove
  <2>2. CASE task[o].pc = "401" /\ task[o].tries = 1 /\ Goto(o, "asking")
    <3>1. LoopStage(o) = <<2, "401">> /\ LoopStage(o)' = <<2, "refreshing">>
      BY <2>2, GotoLeaves DEF LoopStage
    <3> QED
      BY <1>2, <3>1, LoopMove
  <2> QED
    BY <1>4, <1>8, <2>1, <2>2 DEF HandlerReacts
<1>9. CASE RefreshThrows(o) \/ SigningFails(o)
  BY <1>4, <1>9 DEF RefreshThrows, SigningFails
<1> QED
  BY <1>3, <1>5, <1>6, <1>7, <1>8, <1>9 DEF RefreshStep, OrderStep

\* With the key, its refresh and its file in the picture too, the submissions of
\* every handler follow the loop of submitWithAuthRetry.
THEOREM LoopRefinement == Spec => ImplementsAuthRetry
<1>1. Init => Loop!Init
  BY IdleLegal DEF Init, Loop!Init, Loop!Idle, LoopStage, Tasks
<1>2. TypeOK /\ [Next]_vars => [Loop!Next]_Loop!vars
  <2> SUFFICES ASSUME TypeOK, [Next]_vars PROVE [Loop!Next]_Loop!vars
    OBVIOUS
  <2>1. ASSUME \A o \in Orders : task'[o] = task[o] PROVE UNCHANGED Loop!vars
    BY <2>1 DEF Loop!vars, LoopStage
  <2>2. CASE BootStep \/ Rotate \/ UNCHANGED vars
    <3>1. \A o \in Orders : task'[o] = task[o]
      BY <2>2, BridgeCredsAssumption
         DEF BootStep, BootFromDisk, BootFresh, Goto, Rotate, vars, TypeOK, Tasks
    <3> QED
      BY <2>1, <3>1
  <2>3. ASSUME RefreshStep(Boot) \/ VenueDerivesNothing(Boot) \/ RefreshThrows(Boot)
        PROVE  [Loop!Next]_Loop!vars
    <3>1. \A o \in Orders : task'[o] = task[o]
      BY <2>3, BridgeCredsAssumption
         DEF RefreshStep, VenueDerives, VenueDerivesNothing, KeyArrives, OpenFile,
             SaveSucceeds, RefreshThrows,
             Goto, Finish, TypeOK, Tasks
    <3> QED
      BY <2>1, <3>1
  <2>4. CASE Crash
    <3>1. \A o \in Orders : LoopStage(o)' = <<0, "idle">>
      BY <2>4, IdleLegal DEF Crash, LoopStage, Tasks
    <3>2. Loop!Die
      BY <3>1 DEF Loop!Die, Loop!Idle
    <3> QED
      BY <3>2 DEF Loop!Next
  <2> QED
    BY <2>2, <2>3, <2>4, HandlerLoops DEF Next, Tasks
<1> QED
  BY <1>1, <1>2, CredsTypeCorrect, PTL DEF Spec, ImplementsAuthRetry, Loop!Spec
=============================================================================
