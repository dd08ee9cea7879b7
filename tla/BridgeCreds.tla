----------------------------- MODULE BridgeCreds -----------------------------
(***************************************************************************)
(* The life of the bridge's CLOB API key (bridge/index.mjs): derived on    *)
(* the first boot, persisted to a file, loaded on later boots, and         *)
(* re-derived by the handler of an order that keeps being answered 401.    *)
(*                                                                         *)
(* `creds` and `client` are globals of the Node process, shared by all     *)
(* handlers; `disk` outlives the process.  Handlers interleave at every    *)
(* await: between asking the venue for a key and storing it, and between   *)
(* storing it, saving it and rebuilding the client.  fs.writeFile first    *)
(* truncates the file and then writes it.  The process may crash anywhere. *)
(*                                                                         *)
(* Keys are numbered in the order in which the venue registers them.  A    *)
(* derivation that fails may throw, or, as the bridge expects of the SDK   *)
(* elsewhere, return an object that describes the error: nothing checks    *)
(* that object for a key, so it is stored, saved and built into the        *)
(* client.                                                                 *)
(***************************************************************************)
EXTENDS Integers

CONSTANTS Orders,        \* the order handlers that can be active at once
          Boot,          \* the start-up code of the process
          MaxRotations,  \* bounds: rotations of the key at the venue,
          MaxBlips,      \*   401s given to a valid key,
          MaxFailures,   \*   derivations and saves that throw,
          MaxBlanks,     \*   derivations that return without a key,
          MaxCrashes     \*   crashes of the process

ASSUME BridgeCredsAssumption ==
    /\ Boot \notin Orders
    /\ {MaxRotations, MaxBlips, MaxFailures, MaxBlanks, MaxCrashes} \subseteq Nat

VARIABLES venueKey,  \* the key registered at the venue
          disk,      \* contents of the file at CREDS_PATH
          phase,     \* "down", "booting" or "up"
          creds,     \* global: the last key obtained
          client,    \* global: the key the authenticated client was built with
          task,      \* [Tasks -> where that code is]
          blips, failures, blanks, crashes

procVars == <<phase, creds, client>>
boundVars == <<blips, failures, blanks, crashes>>
vars == <<venueKey, disk, procVars, task, boundVars>>

Tasks  == Orders \cup {Boot}
Keys   == 0..MaxRotations
NoKey  == -1
Absent == -2   \* ENOENT
Torn   == -3   \* truncated: JSON.parse throws a SyntaxError
Blank  == -4   \* an object without key, secret and passphrase: {} in the file

Creds  == Keys \cup {NoKey, Blank}

(***************************************************************************)
(* pc is "idle"; "submitted", "accepted" or "401" around a submission, of  *)
(* which tries came before; "asking" or "derived" around                   *)
(* createOrDeriveApiKey; "opening" or "writing" in saveCreds.  used is the *)
(* key of the submission, got the key the task itself derived.             *)
(***************************************************************************)
TaskStates ==
    [pc : {"idle", "submitted", "accepted", "401",
           "asking", "derived", "opening", "writing"},
     tries : 0..2, used : Creds, got : Creds]
IdleTask == [pc |-> "idle", tries |-> 0, used |-> NoKey, got |-> NoKey]

Init ==
    /\ venueKey = 0
    /\ disk = Absent
    /\ phase = "down" /\ creds = NoKey /\ client = NoKey
    /\ task = [t \in Tasks |-> IdleTask]
    /\ blips = 0 /\ failures = 0 /\ blanks = 0 /\ crashes = 0

Goto(t, pc) == task' = [task EXCEPT ![t].pc = pc]
Finish(t)   == task' = [task EXCEPT ![t] = IdleTask]

\* submitFn of o, with the client as it is in the next state.
SubmitWith(o, tries, key) ==
    task' = [task EXCEPT ![o].pc = "submitted", ![o].tries = tries, ![o].used = key]

-----------------------------------------------------------------------------
(* Start-up. *)

\* loadCreds found a key: the client is built at once.
BootFromDisk ==
    /\ phase = "down" /\ disk \in Keys
    /\ phase' = "up" /\ creds' = disk /\ client' = disk
    /\ UNCHANGED <<venueKey, disk, task, boundVars>>

\* Mutation: a missing file is fatal, a torn one is not.
BootFreshFromTorn ==
    /\ phase = "down" /\ disk = Torn
    /\ phase' = "booting"
    /\ Goto(Boot, "asking")
    /\ UNCHANGED <<venueKey, disk, creds, client, boundVars>>

\* loadCreds found no file or a malformed one: derive a key.  There is no start
\* from a torn file: loadCreds rethrows the SyntaxError and the process ends.
BootFresh ==
    /\ phase = "down" /\ disk \in {Absent, Blank}
    /\ phase' = "booting"
    /\ Goto(Boot, "asking")
    /\ UNCHANGED <<venueKey, disk, creds, client, boundVars>>

-----------------------------------------------------------------------------
(* refreshCreds, and the part ensureCreds shares with it. *)

\* The venue registers or looks up the key and sends it back.
VenueDerives(t) ==
    /\ task[t].pc = "asking"
    /\ task' = [task EXCEPT ![t].pc = "derived", ![t].got = venueKey]
    /\ UNCHANGED <<venueKey, disk, procVars, boundVars>>

\* The derivation fails, and what comes back is an object without a key.
VenueDerivesNothing(t) ==
    /\ task[t].pc = "asking"
    /\ blanks < MaxBlanks
    /\ blanks' = blanks + 1
    /\ task' = [task EXCEPT ![t].pc = "derived", ![t].got = Blank]
    /\ UNCHANGED <<venueKey, disk, procVars, blips, failures, crashes>>

\* The answer arrives: store it in the global, as it is, and start saving it.
KeyArrives(t) ==
    /\ task[t].pc = "derived"
    /\ creds' = task[t].got
    /\ Goto(t, "opening")
    /\ UNCHANGED <<venueKey, disk, phase, client, boundVars>>

\* Mutation: saveCreds is not awaited, and its write is cut off.
OpenFileWithoutAwait(t) ==
    /\ task[t].pc = "opening"
    /\ disk' = Torn /\ client' = creds /\ phase' = "up"
    /\ IF t = Boot \/ creds = Blank THEN Finish(t) ELSE SubmitWith(t, 2, creds)
    /\ UNCHANGED <<venueKey, creds, boundVars>>

OpenFile(t) ==
    /\ task[t].pc = "opening"
    /\ disk' = Torn
    /\ Goto(t, "writing")
    /\ UNCHANGED <<venueKey, procVars, boundVars>>

\* Mutation: a refresh saves its key and leaves the client as it was.
SaveWithoutRebuild(t) ==
    /\ task[t].pc = "writing"
    /\ disk' = task[t].got
    /\ client' = IF t = Boot THEN creds ELSE client
    /\ phase' = "up"
    /\ IF t = Boot \/ creds = Blank THEN Finish(t) ELSE SubmitWith(t, 2, client)
    /\ UNCHANGED <<venueKey, creds, boundVars>>

\* The file is written and the client is built from the global creds.  The
\* order is then submitted a third time, in the same turn of the event loop;
\* without a key creds.key.slice throws first, and the order gives up.
SaveSucceeds(t) ==
    /\ task[t].pc = "writing"
    /\ disk' = task[t].got
    /\ client' = creds
    /\ phase' = "up"
    /\ IF t = Boot \/ creds = Blank THEN Finish(t) ELSE SubmitWith(t, 2, creds)
    /\ UNCHANGED <<venueKey, creds, boundVars>>

\* Mutation: an order whose refresh throws drops the key as well.
RefreshThrowsAndDrops(t) ==
    /\ failures < MaxFailures
    /\ task[t].pc \in {"asking", "derived", "opening", "writing"}
    /\ failures' = failures + 1
    /\ Finish(t)
    /\ phase' = (IF t = Boot THEN "down" ELSE phase) /\ creds' = NoKey /\ client' = NoKey
    /\ UNCHANGED <<venueKey, disk, blips, blanks, crashes>>

\* Deriving or saving throws: an order gives up with its 401, a start-up ends
\* the process.
RefreshThrows(t) ==
    /\ failures < MaxFailures
    /\ task[t].pc \in {"asking", "derived", "opening", "writing"}
    /\ failures' = failures + 1
    /\ Finish(t)
    /\ IF t = Boot
       THEN phase' = "down" /\ creds' = NoKey /\ client' = NoKey
       ELSE UNCHANGED procVars
    /\ UNCHANGED <<venueKey, disk, blips, blanks, crashes>>

-----------------------------------------------------------------------------
(* The handlers. *)

\* A new order reaches submitWithAuthRetry.
Submit(o) ==
    /\ phase = "up" /\ task[o].pc = "idle"
    /\ SubmitWith(o, 0, client)
    /\ UNCHANGED <<venueKey, disk, procVars, boundVars>>

\* The venue accepts the registered key and rejects every other one; now and
\* then it rejects the registered key too.
VenueJudges(o) ==
    /\ task[o].pc = "submitted"
    /\ \/ task[o].used = venueKey /\ Goto(o, "accepted") /\ UNCHANGED blips
       \/ task[o].used # venueKey /\ Goto(o, "401") /\ UNCHANGED blips
       \/ /\ task[o].used = venueKey /\ blips < MaxBlips
          /\ blips' = blips + 1
          /\ Goto(o, "401")
    /\ UNCHANGED <<venueKey, disk, procVars, failures, blanks, crashes>>

\* Without a secret to sign with the SDK may throw before anything is sent: no
\* 401, so submitWithAuthRetry rethrows it and refreshes nothing.
SigningFails(o) ==
    /\ task[o].pc = "submitted" /\ task[o].used = Blank
    /\ Finish(o)
    /\ UNCHANGED <<venueKey, disk, procVars, boundVars>>

\* Mutation: every 401 is followed by another submission, each counted.
ReactsByCounting(o) ==
    /\ \/ task[o].pc = "401" /\ SubmitWith(o, task[o].tries + 1, client)
       \/ task[o].pc = "accepted" /\ Finish(o)
    /\ UNCHANGED <<venueKey, disk, procVars, boundVars>>

\* Mutation: a 401 is followed by another submission with the same key.
ReactsByRepeating(o) ==
    /\ \/ task[o].pc = "401" /\ SubmitWith(o, 0, client)
       \/ task[o].pc = "accepted" /\ Finish(o)
    /\ UNCHANGED <<venueKey, disk, procVars, boundVars>>

\* Mutation: the second 401 is final; the key is never re-derived.
ReactsWithoutRefresh(o) ==
    /\ \/ task[o].pc = "401" /\ task[o].tries = 0 /\ SubmitWith(o, 1, client)
       \/ task[o].pc = "401" /\ task[o].tries = 1 /\ Finish(o)
       \/ task[o].pc = "accepted" /\ Finish(o)
    /\ UNCHANGED <<venueKey, disk, procVars, boundVars>>

\* One turn of the loop of submitWithAuthRetry, or its end.
HandlerReacts(o) ==
    /\ \/ task[o].pc = "401" /\ task[o].tries = 0 /\ SubmitWith(o, 1, client)
       \/ task[o].pc = "401" /\ task[o].tries = 1 /\ Goto(o, "asking")
       \/ task[o].pc = "401" /\ task[o].tries = 2 /\ Finish(o)
       \/ task[o].pc = "accepted" /\ Finish(o)
    /\ UNCHANGED <<venueKey, disk, procVars, boundVars>>

-----------------------------------------------------------------------------
(* The environment. *)

Rotate ==
    /\ venueKey < MaxRotations
    /\ venueKey' = venueKey + 1
    /\ UNCHANGED <<disk, procVars, task, boundVars>>

\* The process dies; only the file survives, as it is.
Crash ==
    /\ phase # "down" /\ crashes < MaxCrashes
    /\ crashes' = crashes + 1
    /\ phase' = "down" /\ creds' = NoKey /\ client' = NoKey
    /\ task' = [t \in Tasks |-> IdleTask]
    /\ UNCHANGED <<venueKey, disk, blips, failures, blanks>>

-----------------------------------------------------------------------------
BootStep == BootFromDisk \/ BootFresh

RefreshStep(t) ==
    VenueDerives(t) \/ KeyArrives(t) \/ OpenFile(t) \/ SaveSucceeds(t)

OrderStep(o) == Submit(o) \/ VenueJudges(o) \/ SigningFails(o) \/ HandlerReacts(o)

Next ==
    \/ BootStep
    \/ \E t \in Tasks : RefreshStep(t) \/ VenueDerivesNothing(t) \/ RefreshThrows(t)
    \/ \E o \in Orders : OrderStep(o)
    \/ Rotate
    \/ Crash

Spec == Init /\ [][Next]_vars

(***************************************************************************)
(* The container runtime starts a bridge that is down, the event loop runs *)
(* every handler that can run, the venue answers, and orders keep coming.  *)
(* Nothing forces a rotation, a blip, a failed derivation or a crash.      *)
(***************************************************************************)
FairSpec ==
    /\ Spec
    /\ WF_vars(BootStep)
    /\ \A t \in Tasks : WF_vars(RefreshStep(t))
    /\ \A o \in Orders : WF_vars(OrderStep(o))

-----------------------------------------------------------------------------
(* Properties. *)

TypeOK ==
    /\ venueKey \in Keys
    /\ disk \in Keys \cup {Absent, Torn, Blank}
    /\ phase \in {"down", "booting", "up"}
    /\ creds \in Creds /\ client \in Creds
    /\ task \in [Tasks -> TaskStates]
    /\ blips \in 0..MaxBlips /\ failures \in 0..MaxFailures
    /\ blanks \in 0..MaxBlanks /\ crashes \in 0..MaxCrashes

Saving(t) == task[t].pc \in {"opening", "writing"}

(***************************************************************************)
(* The client is rebuilt from the key last obtained: while the two differ, *)
(* some handler is still saving its key, or a refresh has thrown.          *)
(***************************************************************************)
ClientFollowsCreds ==
    (phase = "up" /\ client # creds) => (failures > 0 \/ \E t \in Tasks : Saving(t))

(***************************************************************************)
(* The file is unreadable only while it is being written, or after a write *)
(* that a crash or an error cut short.                                     *)
(***************************************************************************)
TornMeansCutShort ==
    disk = Torn =>
        \/ \E t \in Tasks : task[t].pc = "writing"
        \/ crashes + failures > 0

\* The bridge is down and cannot start: loadCreds rethrows the SyntaxError.
Stuck == phase = "down" /\ disk = Torn

\* The bridge is up with a client that has no key.
Keyless == phase = "up" /\ client = Blank

(***************************************************************************)
(* "derived on first boot, re-derived on a 401" (bridge/index.mjs): once   *)
(* up, while orders keep coming, the bridge ends up with the key the venue *)
(* has registered last, and stays with it; or it is stuck for good on a    *)
(* torn file, or stays up for good without a key.  Races of refreshes, an  *)
(* older key left on disk and a restart from it, late answers, and refusals*)
(* of a valid key only take it back for a while.                           *)
(***************************************************************************)
KeyRecovers == (phase = "up") ~> [](client = venueKey) \/ []Stuck \/ []Keyless

(***************************************************************************)
(* No order spins in the loop of submitWithAuthRetry: every submission     *)
(* leads to the end of its handler.                                        *)
(***************************************************************************)
OrdersEnd ==
    \A o \in Orders : (task[o].pc = "submitted") ~> (task[o].pc = "idle")

(***************************************************************************)
(* The steps a handler has ahead of it at most: the two submissions, the   *)
(* refresh and the last submission of submitWithAuthRetry.                 *)
(***************************************************************************)
StepsLeft(o) ==
    LET pc   == task[o].pc
        last == task[o].tries = 2
    IN  CASE pc = "submitted" -> IF last THEN 2 ELSE 10 - 2 * task[o].tries
          [] pc = "401"       -> IF last THEN 1 ELSE 9 - 2 * task[o].tries
          [] pc = "asking"    -> 6
          [] pc = "derived"   -> 5
          [] pc = "opening"   -> 4
          [] pc = "writing"   -> 3
          [] pc = "accepted"  -> 1
          [] OTHER            -> 0

\* Nothing that any handler, the venue or a crash does sends a handler back:
\* an order is submitted at most three times and refreshes the key at most once.
HandlersAdvance ==
    [][\A o \in Orders : task'[o] # task[o] =>
           task[o].pc = "idle" \/ StepsLeft(o)' < StepsLeft(o)]_vars

\* Where the handler of o is in the loop of submitWithAuthRetry.
LoopStage(o) ==
    CASE task[o].pc = "idle" -> <<0, "idle">>
      [] task[o].pc \in {"submitted", "accepted"} -> <<task[o].tries + 1, "sent">>
      [] task[o].pc = "401" -> <<task[o].tries + 1, "401">>
      [] OTHER -> <<2, "refreshing">>

Loop == INSTANCE AuthRetry WITH
            Handlers <- Orders, stage <- [o \in Orders |-> LoopStage(o)]

(***************************************************************************)
(* Each handler implements the loop of submitWithAuthRetry, the same as in *)
(* OrderPath; the steps of a refresh but its last do not show in it.       *)
(***************************************************************************)
ImplementsAuthRetry == Loop!Spec

\* No copy of the key is stale: in the globals, in the file or in a handler
\* between the venue's answer and the end of its save.
Settled ==
    /\ creds \in {NoKey, venueKey}
    /\ client = IF phase = "up" THEN venueKey ELSE NoKey
    /\ disk \in {Absent, Torn, Blank, venueKey}
    /\ \A t \in Tasks : task[t].pc \in {"derived", "opening", "writing"} =>
           task[t].got = venueKey

(***************************************************************************)
(* The reason KeyRecovers can end in [](client = venueKey): once no copy   *)
(* is stale, no order of the handlers, nothing that throws and no crash    *)
(* makes one stale again.  Only the venue can: by another rotation, or by  *)
(* answering a derivation without a key.                                   *)
(***************************************************************************)
SettledStays ==
    [][Settled /\ UNCHANGED <<venueKey, blanks>> => Settled']_vars

(***************************************************************************)
(* "createOrDeriveApiKey returns the existing registered key ... recovers  *)
(* a rotated key" (bridge/index.mjs): the submission after a refresh uses  *)
(* a key at least as recent as the one this refresh obtained.              *)
(***************************************************************************)
RefreshIsUsed ==
    \A o \in Orders : task[o].pc = "submitted" /\ task[o].tries = 2
        => task[o].used >= task[o].got

(***************************************************************************)
(* A bridge that is down comes up: whatever a crash or a failed start has  *)
(* left behind, only a torn file keeps it from starting.                   *)
(***************************************************************************)
BootRecovers == (phase = "down") ~> (phase = "up" \/ Stuck)
=============================================================================
