------------------------- MODULE GrowthSetupProofs --------------------------
(***************************************************************************)
(* What a set-up and a checkpoint promise, for any number of requests,     *)
(* objectives and revisions.                                               *)
(*                                                                         *)
(* A request awaits between its steps, and anything may happen meanwhile.  *)
(* What it may rely on when it goes on is that the runtime is where it has *)
(* seen it: every change of the session moves the revision on, so a        *)
(* request that finds the snapshot it has seen finds everything else as it *)
(* was, the texts included.  The invariant says, for each step, what that  *)
(* is; what was confirmed is on record whatever the runtime does.          *)
(***************************************************************************)
EXTENDS GrowthSetup, PairKernelProofs

SetupSteps == {"collect", "prepare", "dialog", "propose", "grant", "apply", "end"}
Steps == SetupSteps \cup {"idle", "report", "said", "checkpoint dialog"}

Snapshots ==
    [ revision : Nat, workspaceId : Workspaces, sessionId : SessionIds \cup {None},
      startedAt : Nat \cup {None}, epoch : Nat \cup {None} ]

Records ==
    [ unit : WorkUnitStatuses, ceiling : 0..5 \cup {None}, help : Assistance ]

Request ==
    [ step : Steps, stage : Stages \cup {None}, input : Objectives \cup {None},
      seen : Snapshots \cup {None}, id : GrantIds \cup {None},
      unitId : WorkUnitIds \cup {None}, resumes : BOOLEAN, aborted : BOOLEAN,
      outcome : Outcomes \cup {None}, record : Records \cup {None} ]

Texts == Objectives \cup {None}

Confirmations ==
    [ request : Requests, stage : Stages, objective : Objectives,
      startedAt : Nat \cup {None} ]

(* A grant was given out by a commit of its own.                           *)
SetupTypeOK ==
    /\ TypeOK
    /\ goal \in Texts /\ objective \in Texts
    /\ requests \in [Requests -> Request]
    /\ issued \in Nat /\ issued < revision
    /\ confirmed \subseteq Confirmations

-----------------------------------------------------------------------------
(* The invariant.                                                          *)

Completed(q) == q.step = "report" /\ q.outcome = "completed"

(* The steps whose request goes by a snapshot.                             *)
Looks(q) == q.step \in SetupSteps \cup {"checkpoint dialog"} \/ Completed(q)

(* What is looked at is not of the future.                                 *)
LooksBack(q) == Looks(q) => q.seen \in Snapshots /\ q.seen.revision <= revision

(* Which step is at which stage.                                           *)
StepFits(q) ==
    /\ q.step \in {"prepare", "dialog", "propose", "grant", "apply"} =>
           q.input \in Objectives
    /\ q.step \in {"dialog", "propose", "grant", "apply"} => q.stage \in Stages
    /\ q.step = "propose" => q.stage = "work-unit"
    /\ q.resumes /\ q.step \in {"grant", "apply"} => q.stage = "work-unit"
    /\ q.step \in {"collect", "prepare", "propose"} => ~q.resumes

Before(stage) ==
    CASE stage = "learning" -> {}
      [] stage = "mode" -> {"learning"}
      [] stage = "work-unit" -> {"learning", "mode"}

(* The stages a request has behind it.                                     *)
Passed(q) ==
    CASE q.step = "dialog" -> Before(q.stage)
      [] q.step \in {"propose", "grant", "apply"} -> Before(q.stage) \cup {q.stage}
      [] OTHER -> {}

(* Each was confirmed, for what was typed in and the session that was seen.*)
Confirmed(r, q) ==
    \A stage \in Passed(q) :
        [ request |-> r, stage |-> stage, objective |-> q.input,
          startedAt |-> q.seen.startedAt ] \in confirmed

(* A set-up of its own proposes where there is no proposal.                *)
NothingProposed(q) ==
    /\ ~q.resumes
    /\ \/ q.step \in {"collect", "prepare", "dialog", "propose"}
       \/ q.step \in {"grant", "apply"} /\ q.stage # "work-unit"

HasProposed(q) ==
    \/ q.step \in {"grant", "apply"} /\ q.stage = "work-unit"
    \/ q.step = "dialog" /\ q.resumes

HasLearned(q) ==
    \/ q.step \in {"dialog", "propose", "grant", "apply"} /\ q.stage \in {"mode", "work-unit"}
    \/ q.step = "dialog" /\ q.resumes

(* What holds at each step as long as the runtime is where it was seen.    *)
AsSeen(q) ==
    Looks(q) /\ Snapshot = q.seen =>
        /\ session # None
        /\ NothingProposed(q) => session.workUnit = None
        /\ HasProposed(q) => objective = q.input
        /\ HasLearned(q) => goal = q.input
        /\ q.step = "end" \/ Completed(q) =>
               Operational /\ HasAgreedWorkUnit /\ objective = q.input
        /\ q.step = "checkpoint dialog" =>
               /\ Operational
               /\ session.mode = "growth" /\ session.workUnit # None
               /\ session.workUnit.mode = "growth" /\ session.workUnit.owner = "human"
               /\ HasGrowthAgreement
               /\ q.record = Checkpoint

RequestSound(r, q) ==
    LooksBack(q) /\ StepFits(q) /\ Confirmed(r, q) /\ AsSeen(q)

WorkHolds ==
    /\ session # None /\ session.workUnit # None => objective \in Objectives
    /\ Briefing => ~HasAgreedWorkUnit
    /\ AgreedWasConfirmed

SetupInv ==
    /\ SetupTypeOK
    /\ WorkHolds
    /\ \A r \in Requests : RequestSound(r, requests[r])

-----------------------------------------------------------------------------
(* What a step leaves alone.                                               *)

(* The runtime stays as it is, or its revision moves on.                   *)
Moves ==
    \/ UNCHANGED <<vars, texts>>
    \/ revision' \in Nat /\ revision < revision'

(* A request that no step is taken of keeps what it relies on: a runtime   *)
(* that has moved on is not the one it has seen.                           *)
LEMMA SeenStays ==
  ASSUME revision \in Nat, NEW q, LooksBack(q), AsSeen(q), Moves
  PROVE  LooksBack(q)' /\ AsSeen(q)'
<1>1. LooksBack(q)'
  <2>1. revision' \in Nat /\ revision <= revision'
    BY DEF Moves, vars
  <2>2. Looks(q)' => Looks(q)
    BY DEF Looks, Completed
  <2>3. Looks(q) => /\ q.seen \in Snapshots
                    /\ q.seen.revision \in Nat /\ q.seen.revision <= revision
    BY DEF LooksBack, Snapshots
  <2> QED
    BY <2>1, <2>2, <2>3 DEF LooksBack
<1>2. AsSeen(q)'
  <2>1. CASE UNCHANGED <<vars, texts>>
    BY <2>1 DEF AsSeen, Looks, Completed, Snapshot, vars, texts,
         NothingProposed, HasProposed, HasLearned, Operational, InStatus,
         HasAgreedWorkUnit, HasGrowthAgreement, Checkpoint, CurrentAssistance
  <2>2. CASE revision' \in Nat /\ revision < revision'
    <3>1. Looks(q) => q.seen.revision # revision'
      BY <2>2 DEF LooksBack, Snapshots
    <3>2. Snapshot'.revision = revision'
      BY DEF Snapshot
    <3> QED
      BY <3>1, <3>2 DEF AsSeen, Looks, Completed
  <2> QED
    BY <2>1, <2>2 DEF Moves
<1> QED
  BY <1>1, <1>2

LEMMA SoundStays ==
  ASSUME revision \in Nat, NEW r, NEW q, RequestSound(r, q),
         confirmed \subseteq confirmed', Moves
  PROVE  RequestSound(r, q)'
<1>1. LooksBack(q)' /\ AsSeen(q)'
  BY SeenStays DEF RequestSound
<1>2. StepFits(q)'
  BY DEF RequestSound, StepFits
<1>3. Confirmed(r, q)'
  BY DEF RequestSound, Confirmed
<1> QED
  BY <1>1, <1>2, <1>3 DEF RequestSound

(* So a step of one request has only that request to show.                 *)
LEMMA OthersStaySound ==
  ASSUME revision \in Nat, requests \in [Requests -> Request],
         \A s \in Requests : RequestSound(s, requests[s]),
         NEW r \in Requests, NEW q \in Request, Set(r, q),
         confirmed \subseteq confirmed', Moves,
         RequestSound(r, q)'
  PROVE  /\ requests' \in [Requests -> Request]
         /\ \A s \in Requests : RequestSound(s, requests[s])'
<1>1. /\ requests' \in [Requests -> Request]
      /\ requests'[r] = q
      /\ \A s \in Requests \ {r} : requests'[s] = requests[s]
  BY DEF Set
<1>2. ASSUME NEW s \in Requests
      PROVE  RequestSound(s, requests[s])'
  <2>1. CASE s = r
    BY <1>1, <2>1
  <2>2. CASE s # r
    BY <1>1, <2>2, SoundStays
  <2> QED
    BY <2>1, <2>2
<1> QED
  BY <1>1, <1>2

(* Work that goes on keeps its unit and its session; a proposal is not     *)
(* agreed to; with the session goes everything.                            *)
Continues ==
    /\ session # None /\ session' # None
    /\ session'.workUnit = session.workUnit
    /\ session'.startedAtRevision = session.startedAtRevision
    /\ Briefing' => Briefing
    /\ objective' = objective
    /\ HasAgreedWorkUnit => goal' = goal

Proposes ==
    /\ session' # None /\ session'.workUnit # None
    /\ session'.workUnit.status = "proposed"
    /\ objective' \in Objectives

StartsAnew == session' = None \/ session'.workUnit = None

LEMMA WorkStays ==
  ASSUME WorkHolds, confirmed \subseteq confirmed',
         UNCHANGED <<session, texts>> \/ Continues \/ Proposes \/ StartsAnew
  PROVE  WorkHolds'
<1> USE DEF WorkHolds, HasAgreedWorkUnit, Briefing, InStatus
<1>1. CASE UNCHANGED <<session, texts>>
  BY <1>1 DEF AgreedWasConfirmed, texts
<1>2. CASE Continues
  BY <1>2 DEF AgreedWasConfirmed, Continues
<1>3. CASE Proposes
  BY <1>3 DEF AgreedWasConfirmed, Proposes
<1>4. CASE StartsAnew
  BY <1>4 DEF AgreedWasConfirmed, StartsAnew
<1> QED
  BY <1>1, <1>2, <1>3, <1>4

-----------------------------------------------------------------------------
(* What is done outside the requests.                                      *)

LEMMA CommitMoves ==
  ASSUME TypeOK, NEW n \in Nat, n > 0, Commit(n)
  PROVE  revision' \in Nat /\ revision < revision' /\ revision' \in 0..MaxRevision
  BY BoundAssumption DEF TypeOK, Commit

LEMMA ElsewhereMoves ==
  ASSUME SetupTypeOK, Elsewhere
  PROVE  /\ SetupTypeOK'
         /\ Moves
         /\ UNCHANGED <<session, texts>> \/ Continues \/ Proposes \/ StartsAnew
<1> DEFINE Good ==
             /\ TypeOK' /\ goal' \in Texts /\ objective' \in Texts
             /\ Moves
             /\ UNCHANGED <<session, texts>> \/ Continues \/ Proposes \/ StartsAnew
<1> DEFINE Told ==
             /\ goal' = IF session' = None THEN None ELSE goal
             /\ objective' = IF session' = None THEN None ELSE objective
<1>0. TypeOK /\ revision \in Nat /\ goal \in Texts /\ objective \in Texts
  BY BoundAssumption DEF SetupTypeOK, TypeOK
<1>1. ASSUME Told
      PROVE  goal' \in Texts /\ objective' \in Texts
  BY <1>0, <1>1 DEF Texts
<1>2. ASSUME ObserveWorkspace("host"), Told
      PROVE  Good
  <2>1. TypeOK'
    BY <1>0, <1>2, PresenceTypeStep DEF PresenceCommand, Actors
  <2>2. Moves
    BY <1>0, <1>2, CommitMoves DEF ObserveWorkspace, Moves
  <2>3. UNCHANGED session
    BY <1>2 DEF ObserveWorkspace, WorkspaceObserved
  <2>4. session' = None \/ UNCHANGED texts
    BY <1>2 DEF texts
  <2> QED
    BY <1>1, <1>2, <2>1, <2>2, <2>3, <2>4 DEF StartsAnew
<1>3. ASSUME NEW status \in {"observing", "paused", "off"}, SetPresence("human", status), Told
      PROVE  Good
  <2>1. TypeOK'
    BY <1>0, <1>3, PresenceTypeStep DEF PresenceCommand, Actors
  <2>2. CASE PauseSession
    <3>1. Moves
      BY <1>0, <2>2, CommitMoves, OpenOperationsCount DEF PauseSession, Moves
    <3>2. session \in Session /\ session' \in Session
      BY <1>0, <2>2, PauseTypeStep, StatusMeansSession DEF PauseSession, Pausable
    <3>3. Continues
      BY <1>3, <2>2, <3>2, NoneAssumption DEF PauseSession, SessionPaused, Continues, Session,
           Briefing, InStatus
    <3> QED
      BY <1>1, <1>3, <2>1, <3>1, <3>3
  <2>3. CASE ~PauseSession
    <3>1. PICK other : PresenceChanges(other) /\ Commit(1) /\ PresenceChanged(other)
      BY <1>3, <2>3 DEF SetPresence
    <3>2. Moves
      BY <1>0, <3>1, CommitMoves DEF Moves
    <3>3. session' = session \/ session' = None
      BY <3>1 DEF PresenceChanged
    <3>4. session' = None \/ UNCHANGED texts
      BY <1>3 DEF texts
    <3> QED
      BY <1>1, <1>3, <2>1, <3>2, <3>3, <3>4 DEF StartsAnew
  <2> QED
    BY <2>2, <2>3
<1>4. ASSUME NEW id \in SessionIds, StartSession(id), Told
      PROVE  Good
  <2>1. TypeOK'
    BY <1>0, <1>4, OpenTypeStep DEF OpenCommand
  <2>2. Moves
    BY <1>0, <1>4, CommitMoves DEF StartSession, Moves
  <2>3. StartsAnew
    BY <1>4 DEF StartSession, SessionStarted, CreateSession, StartsAnew
  <2> QED
    BY <1>1, <1>4, <2>1, <2>2, <2>3
<1>5. ASSUME NEW entry \in Entry, CaptureEntry("human", None, entry), Told
      PROVE  Good
  <2>1. TypeOK' /\ session' \in Session
    BY <1>0, <1>5, SessionTypeStep DEF SessionCommand, Actors
  <2>2. Moves
    BY <1>0, <1>5, CommitMoves DEF CaptureEntry, Events, Moves
  <2>3. session \in Session
    BY <1>0, <1>5, StatusMeansSession DEF CaptureEntry, Briefing
  <2>4. Continues
    BY <1>5, <2>1, <2>3, NoneAssumption DEF CaptureEntry, EntryCaptured, Continues, Session,
         Briefing, InStatus
  <2> QED
    BY <1>1, <1>5, <2>1, <2>2, <2>4
<1>6. ASSUME CloseSession("human", None), Told
      PROVE  Good
  <2>1. TypeOK' /\ session' \in Session
    BY <1>0, <1>6, SessionTypeStep DEF SessionCommand, Actors
  <2>2. Moves
    BY <1>0, <1>6, CommitMoves DEF CloseSession, Events, Moves
  <2>3. session \in Session
    BY <1>0, <1>6, StatusMeansSession DEF CloseSession, Closable
  <2>4. Continues
    BY <1>6, <2>1, <2>3, NoneAssumption DEF CloseSession, SessionClosed, Continues, Session,
         Briefing, InStatus
  <2> QED
    BY <1>1, <1>6, <2>1, <2>2, <2>4
<1>7. ASSUME NEW unitId \in WorkUnitIds, RecordAttempt("human", None, unitId), Told
      PROVE  Good
  <2>1. TypeOK' /\ session' \in Session
    BY <1>0, <1>7, GrowthTypeStep DEF GrowthCommand, Actors
  <2>2. Moves
    BY <1>0, <1>7, CommitMoves DEF RecordAttempt, Events, Moves
  <2>3. session \in Session
    BY <1>0, <1>7, StatusMeansSession DEF RecordAttempt, Working
  <2>4. Continues
    BY <1>7, <2>1, <2>3, NoneAssumption DEF RecordAttempt, AttemptRecorded, Assist, Continues,
         Session, Briefing, InStatus
  <2> QED
    BY <1>1, <1>7, <2>1, <2>2, <2>4
<1>8. ASSUME NEW unit \in Proposals, ProposeWorkUnit(unit),
             objective' \in Objectives, UNCHANGED goal
      PROVE  Good
  <2>1. TypeOK' /\ session' \in Session
    BY <1>0, <1>8, OpenTypeStep DEF OpenCommand
  <2>2. Moves
    BY <1>0, <1>8, CommitMoves DEF ProposeWorkUnit, Moves
  <2>3. session \in Session /\ unit \in WorkUnit /\ unit.status = "proposed"
    BY <1>0, <1>8, StatusMeansSession, ProposalAssumption
       DEF ProposeWorkUnit, ValidProposal, Briefing
  <2>4. Proposes
    BY <1>8, <2>1, <2>3, NoneAssumption DEF ProposeWorkUnit, WorkUnitProposed, Proposes, Session
  <2> QED
    BY <1>0, <1>8, <2>1, <2>2, <2>4 DEF Texts
<1>9. ASSUME UNCHANGED <<vars, texts>>
      PROVE  Good
  <2>1. TypeOK'
    BY <1>0, <1>9 DEF vars, TypeOK
  <2>2. Moves /\ UNCHANGED <<session, texts>>
    BY <1>9 DEF vars, Moves
  <2> QED
    BY <1>0, <1>9, <2>1, <2>2 DEF texts
<1> HIDE DEF Good
<1>10. Good
  <2>1. \/ /\ \/ ObserveWorkspace("host")
              \/ \E status \in {"observing", "paused", "off"} : SetPresence("human", status)
              \/ \E id \in SessionIds : StartSession(id)
              \/ \E entry \in Entry : CaptureEntry("human", None, entry)
              \/ CloseSession("human", None)
              \/ \E unitId \in WorkUnitIds : RecordAttempt("human", None, unitId)
           /\ Told
        \/ /\ \E unit \in Proposals : ProposeWorkUnit(unit)
           /\ objective' \in Objectives /\ UNCHANGED goal
        \/ UNCHANGED <<vars, texts>>
    BY Zenon DEF Elsewhere
  <2> HIDE DEF Told
  <2>2. ASSUME Told,
               \/ ObserveWorkspace("host")
               \/ \E status \in {"observing", "paused", "off"} : SetPresence("human", status)
               \/ \E id \in SessionIds : StartSession(id)
               \/ \E entry \in Entry : CaptureEntry("human", None, entry)
               \/ CloseSession("human", None)
               \/ \E unitId \in WorkUnitIds : RecordAttempt("human", None, unitId)
        PROVE  Good
    BY <2>2, <1>2, <1>3, <1>4, <1>5, <1>6, <1>7
  <2> QED
    BY <2>1, <2>2, <1>8, <1>9
<1>11. UNCHANGED <<requests, issued, confirmed>>
  BY Zenon DEF Elsewhere
<1> USE DEF Good
<1>12. revision' \in Nat /\ revision <= revision'
  BY <1>0, <1>10 DEF Moves, vars
<1> QED
  BY <1>0, <1>10, <1>11, <1>12 DEF SetupTypeOK

-----------------------------------------------------------------------------
(* The requests.                                                           *)

LEMMA SnapshotType ==
  ASSUME TypeOK
  PROVE  /\ Snapshot \in Snapshots
         /\ Snapshot.revision = revision
         /\ session # None => Snapshot.startedAt = session.startedAtRevision
<1>1. revision \in Nat /\ presence \in Presence /\ session \in Session \cup {None}
  BY BoundAssumption DEF TypeOK
<1>2. /\ (IF session = None THEN None ELSE session.sessionId) \in SessionIds \cup {None}
      /\ (IF session = None THEN None ELSE session.startedAtRevision) \in Nat \cup {None}
      /\ (IF session = None THEN None ELSE session.authorityEpoch) \in Nat \cup {None}
  BY <1>1 DEF Session
<1> QED
  BY <1>1, <1>2 DEF Snapshot, Snapshots, Presence

LEMMA StepKeeps ==
  ASSUME SetupInv, NEW r \in Requests, NEW q \in Request, Set(r, q),
         TypeOK', goal' \in Texts, objective' \in Texts,
         issued' \in Nat, issued' < revision',
         confirmed \subseteq confirmed', confirmed' \subseteq Confirmations,
         Moves, WorkHolds', RequestSound(r, q)'
  PROVE  SetupInv'
<1>1. revision \in Nat
  BY BoundAssumption DEF SetupInv, SetupTypeOK, TypeOK
<1>2. /\ requests' \in [Requests -> Request]
      /\ \A s \in Requests : RequestSound(s, requests[s])'
  BY <1>1, OthersStaySound DEF SetupInv, SetupTypeOK
<1> QED
  BY <1>2 DEF SetupInv, SetupTypeOK

LEMMA AloneKeeps ==
  ASSUME SetupInv, NEW r \in Requests, NEW q \in Request, Set(r, q), Alone,
         RequestSound(r, q)
  PROVE  SetupInv'
<1>1. TypeOK' /\ revision \in Nat
  BY BoundAssumption DEF Alone, vars, SetupInv, SetupTypeOK, TypeOK
<1>2. Moves /\ UNCHANGED <<session, texts>>
  BY DEF Alone, vars, Moves
<1>3. WorkHolds'
  BY <1>2, WorkStays DEF Alone, SetupInv
<1>4. RequestSound(r, q)'
  BY <1>1, <1>2, SoundStays DEF Alone
<1>5. goal' \in Texts /\ objective' \in Texts
  BY DEF Alone, texts, SetupInv, SetupTypeOK
<1>6. issued' \in Nat /\ issued' < revision'
  BY DEF Alone, vars, SetupInv, SetupTypeOK
<1>7. confirmed \subseteq confirmed' /\ confirmed' \subseteq Confirmations
  BY DEF Alone, SetupInv, SetupTypeOK
<1> QED
  BY <1>1, <1>2, <1>3, <1>4, <1>5, <1>6, <1>7, StepKeeps

(* A request that is not at work, and has nothing good to report, relies   *)
(* on nothing.                                                             *)
LEMMA QuietIsSound ==
  ASSUME NEW r, NEW q, q.step \in {"idle", "report", "said"}, ~Completed(q)
  PROVE  RequestSound(r, q)
<1>1. ~Looks(q) /\ Passed(q) = {}
  BY DEF Looks, SetupSteps, Passed
<1> QED
  BY <1>1 DEF RequestSound, LooksBack, StepFits, Confirmed, AsSeen

LEMMA IdleType == Idle \in Request
  BY DEF Idle, Request, Steps

LEMMA EndsKeeps ==
  ASSUME SetupInv, NEW r \in Requests, NEW outcome \in Outcomes \ {"completed"},
         Ends(r, outcome), Alone
  PROVE  SetupInv'
<1> DEFINE aborted == requests[r].aborted
           q == [Idle EXCEPT !.step = "report", !.outcome = outcome, !.aborted = aborted]
<1>1. aborted \in BOOLEAN
  BY DEF SetupInv, SetupTypeOK, Request
<1>3. Set(r, q)
  BY DEF Ends
<1> HIDE DEF aborted
<1>2. q \in Request /\ q.step = "report" /\ q.outcome = outcome
  BY <1>1, IdleType DEF Request, Steps
<1> HIDE DEF q
<1>4. RequestSound(r, q)
  BY <1>2, QuietIsSound DEF Completed
<1> QED
  BY <1>2, <1>3, <1>4, AloneKeeps

(* What the invariant says of a request depends on these fields alone.     *)
LEMMA SoundAlike ==
  ASSUME NEW r, NEW p, NEW q, RequestSound(r, p),
         q.step = p.step, q.stage = p.stage, q.input = p.input, q.seen = p.seen,
         q.resumes = p.resumes, q.outcome = p.outcome, q.record = p.record
  PROVE  RequestSound(r, q)
<1>1. LooksBack(q)
  BY DEF RequestSound, LooksBack, Looks, Completed
<1>2. StepFits(q)
  BY DEF RequestSound, StepFits
<1>3. Confirmed(r, q)
  BY DEF RequestSound, Confirmed, Passed
<1>4. AsSeen(q)
  BY DEF RequestSound, AsSeen, Looks, Completed, NothingProposed, HasProposed, HasLearned
<1> QED
  BY <1>1, <1>2, <1>3, <1>4 DEF RequestSound

-----------------------------------------------------------------------------
(* The steps that only look.                                               *)

LEMMA AskSetupKeeps ==
  ASSUME SetupInv, NEW r \in Requests, AskSetup(r)
  PROVE  SetupInv'
<1>1. Snapshot \in Snapshots /\ Snapshot.revision = revision /\ revision \in Nat
  BY SnapshotType, BoundAssumption DEF SetupInv, SetupTypeOK, TypeOK
<1>2. Idle \in Request
  BY IdleType
<1> DEFINE refused == [Idle EXCEPT !.step = "report", !.outcome = "unavailable"]
           collects == [Idle EXCEPT !.step = "collect", !.seen = Snapshot]
           resumed == [Idle EXCEPT !.step = "dialog", !.stage = "learning",
                           !.seen = Snapshot, !.input = objective, !.resumes = TRUE,
                           !.unitId = session.workUnit.id]
<1>3. \/ Set(r, refused)
      \/ CanSetUp /\ HasNoWorkUnit /\ Set(r, collects)
      \/ CanSetUp /\ ~HasNoWorkUnit /\ Resumable /\ Set(r, resumed)
  BY Zenon DEF AskSetup, Begins
<1>4. ASSUME Set(r, refused)
      PROVE  SetupInv'
  <2>1. refused \in Request /\ refused.step = "report" /\ refused.outcome = "unavailable"
    BY <1>2 DEF Request, Steps, SetupSteps, Outcomes
  <2> HIDE DEF refused
  <2>2. RequestSound(r, refused)
    BY <2>1, QuietIsSound DEF Completed
  <2> QED
    BY <1>4, <2>1, <2>2, AloneKeeps DEF AskSetup
<1>5. ASSUME CanSetUp, HasNoWorkUnit, Set(r, collects)
      PROVE  SetupInv'
  <2>1. collects \in Request /\ collects.step = "collect" /\ collects.seen = Snapshot
    BY <1>1, <1>2 DEF Request, Steps, SetupSteps
  <2>2. ~collects.resumes
    BY DEF Idle
  <2> HIDE DEF collects
  <2>3. LooksBack(collects)
    BY <1>1, <2>1 DEF LooksBack
  <2>4. StepFits(collects)
    BY <2>1, <2>2 DEF StepFits
  <2>5. Confirmed(r, collects)
    BY <2>1 DEF Confirmed, Passed
  <2>6. AsSeen(collects)
    BY <1>5, <2>1 DEF AsSeen, CanSetUp, Briefing, InStatus, HasNoWorkUnit, HasProposed,
       HasLearned, Completed
  <2> QED
    BY <1>5, <2>1, <2>3, <2>4, <2>5, <2>6, AloneKeeps DEF AskSetup, RequestSound
<1>6. ASSUME CanSetUp, ~HasNoWorkUnit, Resumable, Set(r, resumed)
      PROVE  SetupInv'
  <2>1. /\ session \in Session /\ session # None
        /\ session.workUnit \in WorkUnit /\ objective \in Objectives /\ goal = objective
    BY <1>6 DEF CanSetUp, Briefing, InStatus, HasNoWorkUnit, Resumable, SetupInv, WorkHolds,
       SetupTypeOK, TypeOK, Session
  <2>2. session.workUnit.id \in WorkUnitIds
    BY <2>1 DEF WorkUnit
  <2>3. /\ resumed \in Request /\ resumed.step = "dialog" /\ resumed.stage = "learning"
        /\ resumed.seen = Snapshot /\ resumed.input = objective
    BY <1>1, <1>2, <2>1, <2>2 DEF Request, Steps, SetupSteps, Stages
  <2>4. resumed.resumes
    BY DEF Idle
  <2> HIDE DEF resumed
  <2>5. LooksBack(resumed)
    BY <1>1, <2>3 DEF LooksBack
  <2>6. StepFits(resumed)
    BY <2>1, <2>3 DEF StepFits, Stages
  <2>7. Confirmed(r, resumed)
    BY <2>3 DEF Confirmed, Passed, Before
  <2>8. AsSeen(resumed)
    BY <2>1, <2>3, <2>4 DEF AsSeen, NothingProposed, Completed
  <2> QED
    BY <1>6, <2>3, <2>5, <2>6, <2>7, <2>8, AloneKeeps DEF AskSetup, RequestSound
<1> QED
  BY <1>3, <1>4, <1>5, <1>6

LEMMA CollectKeeps ==
  ASSUME SetupInv, NEW r \in Requests, Collect(r)
  PROVE  SetupInv'
<1> DEFINE p == requests[r]
<1>1. p \in Request /\ RequestSound(r, p) /\ p.step = "collect" /\ Alone
  BY DEF SetupInv, SetupTypeOK, Collect
<1>2. CASE \E outcome \in {"stale", "cancelled", "unavailable"} : Ends(r, outcome)
  BY <1>1, <1>2, EndsKeeps DEF Outcomes
<1>3. ASSUME NEW input \in Objectives, Set(r, [p EXCEPT !.step = "prepare", !.input = input])
      PROVE  SetupInv'
  <2> DEFINE q == [p EXCEPT !.step = "prepare", !.input = input]
  <2> HIDE DEF p
  <2>1. /\ q \in Request /\ q.step = "prepare" /\ q.input = input /\ q.stage = p.stage
        /\ q.seen = p.seen /\ q.resumes = p.resumes
    BY <1>1 DEF Request, Steps, SetupSteps
  <2> HIDE DEF q
  <2>2. LooksBack(q)
    BY <1>1, <2>1 DEF RequestSound, LooksBack, Looks, SetupSteps
  <2>3. StepFits(q)
    BY <1>1, <2>1 DEF RequestSound, StepFits
  <2>4. Confirmed(r, q)
    BY <2>1 DEF Confirmed, Passed
  <2>5. AsSeen(q)
    BY <1>1, <2>1 DEF RequestSound, AsSeen, Looks, SetupSteps, NothingProposed, HasProposed,
       HasLearned, Completed
  <2>6. Set(r, q)
    BY <1>3 DEF q
  <2> QED
    BY <1>1, <2>1, <2>2, <2>3, <2>4, <2>5, <2>6, AloneKeeps DEF RequestSound
<1> QED
  BY <1>2, <1>3 DEF Collect

LEMMA EndKeeps ==
  ASSUME SetupInv, NEW r \in Requests, End(r)
  PROVE  SetupInv'
<1> DEFINE p == requests[r]
           q == [p EXCEPT !.step = "report", !.outcome = "completed"]
<1>1. p \in Request /\ RequestSound(r, p) /\ p.step = "end" /\ Alone
  BY DEF SetupInv, SetupTypeOK, End
<1>2. CASE Ends(r, "stale")
  BY <1>1, <1>2, EndsKeeps DEF Outcomes
<1>3. CASE Sees(r) /\ Set(r, q)
  <2>1. Set(r, q)
    BY <1>3
  <2> HIDE DEF p
  <2>2. /\ q \in Request /\ q.step = "report" /\ q.input = p.input /\ q.seen = p.seen
    BY <1>1 DEF Request, Steps, SetupSteps, Outcomes
  <2> HIDE DEF q
  <2>3. LooksBack(q)
    BY <1>1, <2>2 DEF RequestSound, LooksBack, Looks, SetupSteps
  <2>4. StepFits(q)
    BY <2>2 DEF StepFits
  <2>5. Confirmed(r, q)
    BY <2>2 DEF Confirmed, Passed
  <2>6. AsSeen(q)
    BY <1>1, <2>2 DEF RequestSound, AsSeen, Looks, SetupSteps, NothingProposed, HasProposed,
       HasLearned, Completed
  <2> QED
    BY <1>1, <2>1, <2>2, <2>3, <2>4, <2>5, <2>6, AloneKeeps DEF RequestSound
<1> QED
  BY <1>2, <1>3 DEF End

LEMMA FailKeeps ==
  ASSUME SetupInv, NEW r \in Requests, Fail(r)
  PROVE  SetupInv'
  BY EndsKeeps DEF Fail, Outcomes

LEMMA ReportKeeps ==
  ASSUME SetupInv, NEW r \in Requests, Report(r)
  PROVE  SetupInv'
<1> DEFINE aborted == requests[r].aborted
           outcome == IF requests[r].aborted THEN None ELSE Says(r)
           q == [Idle EXCEPT !.step = "said", !.aborted = aborted, !.outcome = outcome]
<1>1. aborted \in BOOLEAN /\ outcome \in Outcomes \cup {None}
  BY DEF SetupInv, SetupTypeOK, Request, Says, Outcomes
<1>2. Set(r, q) /\ Alone
  BY DEF Report
<1> HIDE DEF aborted, outcome
<1>3. q \in Request /\ q.step = "said"
  BY <1>1, IdleType DEF Request, Steps, SetupSteps
<1> HIDE DEF q
<1>4. RequestSound(r, q)
  BY <1>3, QuietIsSound DEF Completed
<1> QED
  BY <1>2, <1>3, <1>4, AloneKeeps

LEMMA CancelKeeps ==
  ASSUME SetupInv, NEW r \in Requests, Cancel(r)
  PROVE  SetupInv'
<1> DEFINE p == requests[r]
           q == [p EXCEPT !.aborted = TRUE]
<1>1. p \in Request /\ RequestSound(r, p) /\ Alone /\ Set(r, q)
  BY DEF SetupInv, SetupTypeOK, Cancel
<1> HIDE DEF p
<1>2. /\ q \in Request
      /\ q.step = p.step /\ q.stage = p.stage /\ q.input = p.input /\ q.seen = p.seen
      /\ q.resumes = p.resumes /\ q.outcome = p.outcome /\ q.record = p.record
  BY <1>1 DEF Request
<1> HIDE DEF q
<1>3. RequestSound(r, q)
  BY <1>1, <1>2, SoundAlike
<1> QED
  BY <1>1, <1>2, <1>3, AloneKeeps

(* What the developer answers is on record, whether it still counts or not.*)
LEMMA ConfirmKeeps ==
  ASSUME SetupInv, NEW r \in Requests, NEW accepts \in BOOLEAN, Confirm(r, accepts)
  PROVE  SetupInv'
<1> DEFINE p == requests[r]
<1>1. /\ p \in Request /\ RequestSound(r, p) /\ p.step = "dialog" /\ p.stage \in Stages
      /\ p.input \in Objectives /\ p.seen \in Snapshots
  BY DEF SetupInv, SetupTypeOK, Confirm, RequestSound, StepFits, LooksBack, Looks, SetupSteps
<1>2. Confirmation(r) \in Confirmations
  BY <1>1 DEF Confirmation, Confirmations, Snapshots
<1>3. /\ confirmed \subseteq confirmed' /\ confirmed' \subseteq Confirmations
      /\ accepts => Confirmation(r) \in confirmed'
  BY <1>2 DEF Confirm, SetupInv, SetupTypeOK
<1>4. /\ Moves /\ UNCHANGED <<session, texts>> /\ TypeOK'
      /\ issued' \in Nat /\ issued' < revision'
      /\ goal' \in Texts /\ objective' \in Texts
  BY DEF Confirm, Moves, vars, texts, SetupInv, SetupTypeOK, TypeOK
<1>5. WorkHolds'
  BY <1>3, <1>4, WorkStays DEF SetupInv
<1>6. revision \in Nat
  BY BoundAssumption DEF SetupInv, SetupTypeOK, TypeOK
<1>7. ASSUME NEW outcome \in {"stale", "cancelled"}, Ends(r, outcome)
      PROVE  SetupInv'
  <2>1. PICK aborted \in BOOLEAN : aborted = p.aborted
    BY <1>1 DEF Request
  <2>2. PICK q : q = [Idle EXCEPT !.step = "report", !.outcome = outcome,
                                  !.aborted = aborted] /\ Set(r, q)
    BY <1>7, <2>1 DEF Ends
  <2>3. q \in Request /\ q.step = "report" /\ q.outcome = outcome
    BY <2>1, <2>2, IdleType DEF Request, Steps, Outcomes
  <2>4. RequestSound(r, q)
    BY <2>3, QuietIsSound DEF Completed
  <2>5. RequestSound(r, q)'
    BY <1>3, <1>4, <1>6, <2>4, SoundStays
  <2> QED
    BY <1>3, <1>4, <1>5, <2>2, <2>3, <2>5, StepKeeps
<1>8. ASSUME accepts, Sees(r), Set(r, AfterConfirming(p))
      PROVE  SetupInv'
  <2>1. PICK q : q = AfterConfirming(p) /\ Set(r, q)
    BY <1>8
  <2>2. Confirmation(r) = [ request |-> r, stage |-> p.stage, objective |-> p.input,
                            startedAt |-> p.seen.startedAt ]
    BY DEF Confirmation
  <2> HIDE DEF p
  <2>3. /\ q \in Request /\ q.input = p.input /\ q.seen = p.seen /\ q.resumes = p.resumes
        /\ \/ ~p.resumes /\ p.stage = "work-unit" /\ q.stage = p.stage /\ q.step = "propose"
           \/ ~p.resumes /\ p.stage # "work-unit" /\ q.stage = p.stage /\ q.step = "grant"
           \/ p.resumes /\ p.stage = "learning" /\ q.stage = "mode" /\ q.step = "dialog"
           \/ p.resumes /\ p.stage = "mode" /\ q.stage = "work-unit" /\ q.step = "dialog"
           \/ p.resumes /\ p.stage = "work-unit" /\ q.stage = p.stage /\ q.step = "grant"
    BY <1>1, <2>1 DEF AfterConfirming, Request, Stages, Steps, SetupSteps
  <2>4. LooksBack(q) /\ Looks(p)
    BY <1>1, <2>3 DEF RequestSound, LooksBack, Looks, SetupSteps
  <2>5. StepFits(q)'
    BY <1>1, <2>3 DEF StepFits, Stages
  <2>6. Confirmed(r, q)'
    <3>1. Passed(q) \subseteq Passed(p) \cup {p.stage}
      BY <1>1, <2>3 DEF Passed, Before, Stages
    <3> QED
      BY <1>1, <1>3, <1>8, <2>2, <2>3, <3>1 DEF RequestSound, Confirmed, Passed
  <2>7. AsSeen(q)
    <3>1. /\ NothingProposed(q) => NothingProposed(p)
          /\ HasProposed(q) => HasProposed(p)
          /\ HasLearned(q) => HasLearned(p)
      BY <1>1, <2>3 DEF NothingProposed, HasProposed, HasLearned, Stages
    <3> QED
      BY <1>1, <2>3, <2>4, <3>1 DEF RequestSound, AsSeen, Completed
  <2>8. RequestSound(r, q)'
    BY <1>4, <1>6, <2>4, <2>5, <2>6, <2>7, SeenStays DEF RequestSound
  <2> QED
    BY <1>3, <1>4, <1>5, <2>1, <2>3, <2>8, StepKeeps
<1> QED
  BY <1>7, <1>8 DEF Confirm

(* Checkpoints: the record is taken and kept with the snapshot.            *)
LEMMA CheckpointKeeps ==
  ASSUME SetupInv, NEW r \in Requests,
         AskCheckpoint(r) \/ SaveCheckpoint(r) \/ DropCheckpoint(r)
  PROVE  SetupInv'
<1>1. Snapshot \in Snapshots /\ Snapshot.revision <= revision
  BY SnapshotType, BoundAssumption DEF SetupInv, SetupTypeOK, TypeOK
<1>2. CASE AskCheckpoint(r)
  <2> DEFINE record == Checkpoint
             q == [Idle EXCEPT !.step = "checkpoint dialog", !.seen = Snapshot,
                               !.record = record]
  <2>1. /\ session \in Session /\ session.workUnit \in WorkUnit
        /\ CurrentAssistance \in Assistance
    <3>1. session \in Session
      BY <1>2 DEF AskCheckpoint, HasCheckpoint, Operational, InStatus, SetupInv, SetupTypeOK,
         TypeOK
    <3> QED
      BY <1>2, <3>1, AssistanceType DEF AskCheckpoint, HasCheckpoint, Session, SetupInv,
         SetupTypeOK
  <2>2. record \in Records
    BY <2>1 DEF Checkpoint, Records, Session, WorkUnit
  <2>3. Set(r, q) /\ Alone /\ HasCheckpoint
    BY <1>2 DEF AskCheckpoint
  <2>4. record = Checkpoint
    OBVIOUS
  <2> HIDE DEF record
  <2>5. /\ q \in Request /\ q.step = "checkpoint dialog" /\ q.seen = Snapshot
        /\ q.record = record
    BY <1>1, <2>2, IdleType DEF Request, Steps
  <2>6. ~q.resumes
    BY DEF Idle
  <2> HIDE DEF q
  <2>7. LooksBack(q)
    <3>1. q.seen \in Snapshots /\ q.seen.revision <= revision
      BY <1>1, <2>5
    <3> QED
      BY <3>1 DEF LooksBack
  <2>8. StepFits(q)
    BY <2>5, <2>6 DEF StepFits
  <2>9. Confirmed(r, q)
    BY <2>5 DEF Confirmed, Passed
  <2>10. AsSeen(q)
    BY <2>3, <2>4, <2>5 DEF AsSeen, HasCheckpoint, Operational, InStatus, NothingProposed,
       HasProposed, HasLearned, Completed
  <2> QED
    BY <2>3, <2>5, <2>7, <2>8, <2>9, <2>10, AloneKeeps DEF RequestSound
<1>3. CASE SaveCheckpoint(r)
  <2> DEFINE p == requests[r]
             q == [p EXCEPT !.step = "said"]
  <2>1. p \in Request /\ Set(r, q) /\ Alone
    BY <1>3 DEF SaveCheckpoint, SetupInv, SetupTypeOK
  <2> HIDE DEF p
  <2>2. q \in Request /\ q.step = "said"
    BY <2>1 DEF Request, Steps
  <2> HIDE DEF q
  <2> QED
    BY <2>1, <2>2, AloneKeeps, QuietIsSound DEF Completed
<1>4. CASE DropCheckpoint(r)
  <2> DEFINE q == [Idle EXCEPT !.step = "said"]
  <2>1. Set(r, q) /\ Alone
    BY <1>4 DEF DropCheckpoint
  <2>2. q \in Request /\ q.step = "said"
    BY IdleType DEF Request, Steps
  <2> HIDE DEF q
  <2> QED
    BY <2>1, <2>2, AloneKeeps, QuietIsSound DEF Completed
<1> QED
  BY <1>2, <1>3, <1>4

-----------------------------------------------------------------------------
(* The steps that commit: what was seen is still there, and what is seen   *)
(* next is what the commit has made of it.                                 *)

SnapshotIsTyped ==
    TypeOK => /\ Snapshot \in Snapshots
              /\ Snapshot.revision = revision
              /\ session # None => Snapshot.startedAt = session.startedAtRevision

LEMMA SnapshotTypeNext ==
  TypeOK' => /\ Snapshot' \in Snapshots
             /\ Snapshot'.revision = revision'
             /\ session' # None => Snapshot'.startedAt = session'.startedAtRevision
<1>1. SnapshotIsTyped
  BY SnapshotType DEF SnapshotIsTyped
<1>2. SnapshotIsTyped'
  BY <1>1, PTL
<1> QED
  BY <1>2 DEF SnapshotIsTyped

LEMMA CommitKeeps ==
  ASSUME SetupInv, NEW r \in Requests, NEW p, p = requests[r], Looks(p), Sees(r),
         NEW q \in Request, Set(r, q), TypeOK', goal' \in Texts, objective' \in Texts,
         issued' \in Nat, issued' < revision', revision < revision',
         UNCHANGED confirmed, WorkHolds',
         session' # None, session'.startedAtRevision = session.startedAtRevision,
         q.seen = Snapshot', q.input = p.input, Passed(q) \subseteq Passed(p),
         StepFits(q), AsSeen(q)'
  PROVE  SetupInv'
<1>1. /\ Snapshot' \in Snapshots /\ Snapshot'.revision = revision'
      /\ Snapshot'.startedAt = session'.startedAtRevision
  BY SnapshotTypeNext
<1>2. revision' \in Nat /\ Moves
  BY BoundAssumption DEF TypeOK, Moves
<1>3. RequestSound(r, p) /\ p.seen = Snapshot /\ session # None
  BY DEF SetupInv, Sees, RequestSound, AsSeen
<1>4. Snapshot.startedAt = session.startedAtRevision
  BY <1>3, SnapshotType DEF SetupInv, SetupTypeOK
<1>5. q.seen \in Snapshots /\ q.seen.revision <= revision'
  BY <1>1, <1>2
<1>6. LooksBack(q)'
  BY <1>5 DEF LooksBack
<1>7. StepFits(q)'
  BY DEF StepFits
<1>8. q.seen.startedAt = p.seen.startedAt
  BY <1>1, <1>3, <1>4
<1>9. Confirmed(r, q)'
  <2>1. Passed(q)' = Passed(q)
    BY DEF Passed
  <2> QED
    BY <1>3, <1>8, <2>1 DEF RequestSound, Confirmed
<1>10. RequestSound(r, q)'
  BY <1>6, <1>7, <1>9 DEF RequestSound
<1>11. confirmed \subseteq confirmed' /\ confirmed' \subseteq Confirmations
  BY DEF SetupInv, SetupTypeOK
<1> QED
  BY <1>2, <1>10, <1>11, StepKeeps

(* What a request may rely on when it goes on.                             *)
LEMMA SeenIsSo ==
  ASSUME SetupInv, NEW r \in Requests, Looks(requests[r]), Sees(r)
  PROVE  /\ RequestSound(r, requests[r]) /\ requests[r] \in Request
         /\ Snapshot = requests[r].seen
         /\ session \in Session /\ session # None
         /\ NothingProposed(requests[r]) => session.workUnit = None
         /\ HasProposed(requests[r]) => objective = requests[r].input
         /\ HasLearned(requests[r]) => goal = requests[r].input
<1>1. RequestSound(r, requests[r]) /\ requests[r] \in Request /\ Snapshot = requests[r].seen
  BY DEF SetupInv, SetupTypeOK, Sees
<1> QED
  BY <1>1 DEF RequestSound, AsSeen, SetupInv, SetupTypeOK, TypeOK

LEMMA PrepareKeeps ==
  ASSUME SetupInv, NEW r \in Requests, Prepare(r)
  PROVE  SetupInv'
<1>1. PICK p : p = requests[r]
  OBVIOUS
<1>2. Looks(p) /\ p.step = "prepare" /\ Sees(r)
  BY <1>1 DEF Prepare, Looks, SetupSteps
<1>3. /\ RequestSound(r, p) /\ p \in Request
      /\ session \in Session /\ session # None
      /\ NothingProposed(p) => session.workUnit = None
  BY <1>1, <1>2, SeenIsSo
<1>4. PICK entry \in Entry : CaptureEntry("human", None, entry)
  BY DEF Prepare
<1>5. TypeOK /\ TypeOK' /\ session' \in Session
  BY <1>4, SessionTypeStep DEF SessionCommand, Actors, SetupInv, SetupTypeOK
<1>6. revision' \in Nat /\ revision < revision'
  BY <1>4, <1>5, CommitMoves DEF CaptureEntry, Events
<1>7. UNCHANGED <<goal, objective, issued, confirmed>>
  BY DEF Prepare, Others, texts
<1>8. /\ session' # None /\ session'.workUnit = session.workUnit
      /\ session'.startedAtRevision = session.startedAtRevision
      /\ Continues
  BY <1>3, <1>4, <1>5, <1>7, NoneAssumption DEF CaptureEntry, EntryCaptured, Continues, Session,
     Briefing, InStatus
<1>9. WorkHolds'
  BY <1>7, <1>8, WorkStays DEF SetupInv
<1>10. issued' \in Nat /\ issued' < revision' /\ goal' \in Texts /\ objective' \in Texts
  BY <1>5, <1>6, <1>7, BoundAssumption DEF SetupInv, SetupTypeOK, TypeOK
<1>11. PICK q : /\ q = [p EXCEPT !.step = "dialog", !.stage = "learning", !.seen = Snapshot']
                /\ Set(r, q)
  BY <1>1 DEF Prepare
<1>12. Snapshot' \in Snapshots
  BY <1>5, SnapshotTypeNext
<1>13. /\ q \in Request /\ q.step = "dialog" /\ q.stage = "learning" /\ q.seen = Snapshot'
       /\ q.input = p.input /\ q.resumes = p.resumes
  BY <1>3, <1>11, <1>12 DEF Request, Steps, SetupSteps, Stages
<1>14. p.input \in Objectives /\ ~p.resumes
  BY <1>2, <1>3 DEF RequestSound, StepFits
<1>15. StepFits(q) /\ Passed(q) = {}
  BY <1>13, <1>14 DEF StepFits, Passed, Before, Stages
<1>16. NothingProposed(p)
  BY <1>2, <1>14 DEF NothingProposed
<1>17. AsSeen(q)'
  BY <1>3, <1>8, <1>13, <1>14, <1>16 DEF AsSeen, HasProposed, HasLearned, Completed
<1> QED
  BY <1>1, <1>2, <1>5, <1>6, <1>7, <1>8, <1>9, <1>10, <1>11, <1>13, <1>15, <1>17, CommitKeeps

LEMMA TakeGrantKeeps ==
  ASSUME SetupInv, NEW r \in Requests, TakeGrant(r)
  PROVE  SetupInv'
<1>1. PICK p : p = requests[r]
  OBVIOUS
<1>2. Looks(p) /\ p.step = "grant" /\ Sees(r)
  BY <1>1 DEF TakeGrant, Looks, SetupSteps
<1>3. /\ RequestSound(r, p) /\ p \in Request /\ session \in Session /\ session # None
      /\ NothingProposed(p) => session.workUnit = None
      /\ HasProposed(p) => objective = p.input
      /\ HasLearned(p) => goal = p.input
  BY <1>1, <1>2, SeenIsSo
<1>4. p.input \in Objectives /\ p.stage \in Stages
  BY <1>2, <1>3 DEF RequestSound, StepFits
<1>5. TypeOK /\ GrantUserAction("human", issued + 1, Tool(p)) /\ Commit(1)
  BY <1>1 DEF TakeGrant, GrantUserAction, SetupInv, SetupTypeOK
<1>6. revision' \in Nat /\ revision < revision'
  BY <1>5, CommitMoves
<1>7. issued + 1 \in GrantIds /\ issued + 1 < revision'
  BY <1>5, BoundAssumption, SetupAssumption DEF SetupInv, SetupTypeOK, TypeOK, Commit
<1>8. Tool(p) \in GrantTools
  BY <1>4, SetupAssumption DEF Tool, Stages
<1>9. TypeOK'
  BY <1>5, <1>7, <1>8, GrantTypeStep
<1>10. issued' = issued + 1 /\ UNCHANGED <<session, goal, objective, confirmed>>
  BY <1>5 DEF TakeGrant, GrantUserAction, UserActionGranted, Others, texts
<1>11. WorkHolds'
  BY <1>10, WorkStays DEF SetupInv, texts
<1>12. issued' \in Nat /\ issued' < revision' /\ goal' \in Texts /\ objective' \in Texts
  BY <1>7, <1>10 DEF SetupInv, SetupTypeOK
<1>13. PICK q : /\ q = [p EXCEPT !.step = "apply", !.id = issued + 1, !.seen = Snapshot']
                /\ Set(r, q)
  BY <1>1 DEF TakeGrant
<1>14. Snapshot' \in Snapshots
  BY <1>9, SnapshotTypeNext
<1>15. /\ q \in Request /\ q.step = "apply" /\ q.stage = p.stage /\ q.seen = Snapshot'
       /\ q.input = p.input /\ q.resumes = p.resumes
  BY <1>3, <1>7, <1>13, <1>14 DEF Request, Steps, SetupSteps
<1>16. StepFits(q) /\ Passed(q) = Passed(p)
  <2>1. StepFits(q)
    BY <1>2, <1>3, <1>15 DEF RequestSound, StepFits
  <2>2. Passed(q) = Passed(p)
    BY <1>2, <1>15 DEF Passed
  <2> QED
    BY <2>1, <2>2
<1>17. AsSeen(q)'
  <2>1. /\ NothingProposed(q) => NothingProposed(p)
        /\ HasProposed(q) => HasProposed(p)
        /\ HasLearned(q) => HasLearned(p)
    BY <1>2, <1>15 DEF NothingProposed, HasProposed, HasLearned
  <2>2. NothingProposed(q)' = NothingProposed(q) /\ HasProposed(q)' = HasProposed(q)
        /\ HasLearned(q)' = HasLearned(q)
    BY DEF NothingProposed, HasProposed, HasLearned
  <2> QED
    BY <1>3, <1>10, <1>15, <2>1, <2>2 DEF AsSeen, Completed
<1> QED
  BY <1>1, <1>2, <1>3, <1>6, <1>9, <1>10, <1>11, <1>12, <1>13, <1>15, <1>16, <1>17,
     CommitKeeps

LEMMA ProposeKeeps ==
  ASSUME SetupInv, NEW r \in Requests, Propose(r)
  PROVE  SetupInv'
<1>1. PICK p : p = requests[r]
  OBVIOUS
<1>2. Looks(p) /\ p.step = "propose" /\ Sees(r)
  BY <1>1 DEF Propose, Looks, SetupSteps
<1>3. /\ RequestSound(r, p) /\ p \in Request /\ session \in Session /\ session # None
      /\ HasLearned(p) => goal = p.input
  BY <1>1, <1>2, SeenIsSo
<1>4. p.input \in Objectives /\ p.stage = "work-unit" /\ ~p.resumes
  BY <1>2, <1>3 DEF RequestSound, StepFits
<1>5. PICK unit : /\ unit = [ id |-> revision, mode |-> "growth", owner |-> "human",
                               learningValue |-> "high", checked |-> TRUE,
                               status |-> "proposed" ]
                  /\ ProposeWorkUnit(unit)
  BY DEF Propose
<1>6. TypeOK /\ Commit(1) /\ WorkUnitProposed(unit)
  BY <1>5 DEF ProposeWorkUnit, SetupInv, SetupTypeOK
<1>7. revision \in WorkUnitIds /\ revision' \in Nat /\ revision < revision'
      /\ revision' \in 0..MaxRevision
  BY <1>6, CommitMoves, SetupAssumption DEF TypeOK
<1>8. unit \in WorkUnit /\ unit # None /\ unit.status = "proposed"
  <2>1. unit \in WorkUnit
    BY <1>5, <1>7 DEF WorkUnit, Modes, WorkUnitStatuses
  <2>2. unit.status = "proposed"
    BY <1>5
  <2> QED
    BY <2>1, <2>2, NoneAssumption
<1>9. /\ session' \in Session /\ session' # None /\ session'.workUnit = unit
      /\ session'.startedAtRevision = session.startedAtRevision
  BY <1>3, <1>6, <1>8, NoneAssumption DEF WorkUnitProposed, Session
<1>10. TypeOK'
  BY <1>6, <1>7, <1>9 DEF WorkUnitProposed, TypeOK
<1>11. objective' = p.input /\ UNCHANGED <<goal, issued, confirmed>>
  BY <1>1 DEF Propose, Others
<1>12. WorkHolds'
  BY <1>4, <1>8, <1>9, <1>11, WorkStays DEF SetupInv, Proposes
<1>13. issued' \in Nat /\ issued' < revision' /\ goal' \in Texts /\ objective' \in Texts
  BY <1>4, <1>6, <1>7, <1>11, BoundAssumption DEF SetupInv, SetupTypeOK, TypeOK, Texts
<1>14. PICK q : /\ q = [p EXCEPT !.step = "grant", !.unitId = revision, !.seen = Snapshot']
                /\ Set(r, q)
  BY <1>1 DEF Propose
<1>15. Snapshot' \in Snapshots
  BY <1>10, SnapshotTypeNext
<1>16. /\ q \in Request /\ q.step = "grant" /\ q.stage = p.stage /\ q.seen = Snapshot'
       /\ q.input = p.input /\ q.resumes = p.resumes
  BY <1>3, <1>7, <1>14, <1>15 DEF Request, Steps, SetupSteps
<1>17. StepFits(q)
  BY <1>4, <1>16 DEF StepFits, Stages
<1>18. Passed(q) = Passed(p)
  BY <1>2, <1>16 DEF Passed
<1>19. HasLearned(p)
  BY <1>2, <1>4 DEF HasLearned
<1>20. AsSeen(q)'
  BY <1>3, <1>4, <1>9, <1>11, <1>16, <1>19 DEF AsSeen, NothingProposed, Completed
<1> QED
  BY <1>1, <1>2, <1>7, <1>9, <1>10, <1>11, <1>12, <1>13, <1>14, <1>16, <1>17, <1>18, <1>20,
     CommitKeeps

(* What the three agreements have in common.                               *)
LEMMA AgreementMoves ==
  ASSUME SetupInv, NEW p \in Request,
         \/ ConfirmLearning("ai", p.id, Ceiling)
         \/ SelectMode("ai", p.id, "growth")
         \/ AgreeWorkUnit("ai", p.id, p.unitId)
  PROVE  /\ TypeOK' /\ session \in Session /\ session' \in Session
         /\ session # None /\ session' # None
         /\ revision' \in Nat /\ revision < revision'
<1>1. TypeOK /\ p.id \in GrantIds \cup {None}
  BY DEF Request, SetupInv, SetupTypeOK
<1>2. session \in Session /\ session # None /\ Commit(Events(p.id))
  BY <1>1, StatusMeansSession, NoneAssumption
     DEF ConfirmLearning, SelectMode, AgreeWorkUnit, Briefing, InStatus
<1>3. revision' \in Nat /\ revision < revision'
  <2>1. Events(p.id) \in Nat /\ Events(p.id) > 0
    BY DEF Events
  <2> QED
    BY <1>1, <1>2, <2>1, CommitMoves
<1>4. AgreementCommand("ai", p.id)
  <2>1. CASE ConfirmLearning("ai", p.id, Ceiling)
    BY <2>1, SetupAssumption DEF AgreementCommand
  <2>2. CASE SelectMode("ai", p.id, "growth")
    BY <2>2 DEF AgreementCommand, Modes
  <2>3. CASE AgreeWorkUnit("ai", p.id, p.unitId)
    <3>1. p.unitId \in WorkUnitIds
      BY <1>2, <2>3 DEF AgreeWorkUnit, Session, WorkUnit
    <3> QED
      BY <2>3, <3>1 DEF AgreementCommand
  <2> QED
    BY <2>1, <2>2, <2>3
<1>5. TypeOK' /\ session' \in Session
  BY <1>1, <1>4, AgreementTypeStep DEF Actors
<1> QED
  BY <1>2, <1>3, <1>5, NoneAssumption

LEMMA ApplyKeeps ==
  ASSUME SetupInv, NEW r \in Requests, Apply(r)
  PROVE  SetupInv'
<1>1. PICK p : p = requests[r]
  OBVIOUS
<1>2. Looks(p) /\ p.step = "apply" /\ Sees(r)
  BY <1>1 DEF Apply, Looks, SetupSteps
<1>3. /\ RequestSound(r, p) /\ p \in Request /\ Snapshot = p.seen
      /\ NothingProposed(p) => session.workUnit = None
      /\ HasProposed(p) => objective = p.input
      /\ HasLearned(p) => goal = p.input
  BY <1>1, <1>2, SeenIsSo
<1>4. /\ p.input \in Objectives /\ p.stage \in Stages
      /\ p.resumes => p.stage = "work-unit"
  BY <1>2, <1>3 DEF RequestSound, StepFits
<1>5. UNCHANGED <<objective, issued, confirmed>>
  BY DEF Apply, Others
<1>6. /\ revision \in Nat /\ issued \in Nat /\ issued < revision /\ goal \in Texts
      /\ objective \in Texts /\ p.input \in Texts
  BY <1>4, BoundAssumption DEF SetupInv, SetupTypeOK, TypeOK, Texts
<1>7. ASSUME NEW q, Set(r, q),
             \/ /\ p.stage = "learning"
                /\ q = [p EXCEPT !.step = "dialog", !.stage = "mode", !.id = None,
                                 !.seen = Snapshot']
             \/ /\ p.stage = "mode"
                /\ q = [p EXCEPT !.step = "dialog", !.stage = "work-unit", !.id = None,
                                 !.seen = Snapshot'],
             TypeOK', session' # None, session'.workUnit = session.workUnit,
             session'.startedAtRevision = session.startedAtRevision,
             revision' \in Nat, revision < revision', goal' = p.input, WorkHolds'
      PROVE  SetupInv'
  <2>1. Snapshot' \in Snapshots
    BY <1>7, SnapshotTypeNext
  <2>2. /\ q \in Request /\ q.step = "dialog" /\ q.seen = Snapshot'
        /\ q.input = p.input /\ q.resumes = p.resumes
        /\ \/ p.stage = "learning" /\ q.stage = "mode"
           \/ p.stage = "mode" /\ q.stage = "work-unit"
    BY <1>3, <1>7, <2>1 DEF Request, Steps, SetupSteps, Stages
  <2>3. StepFits(q)
    BY <1>4, <2>2 DEF StepFits, Stages
  <2>4. Passed(q) \subseteq Passed(p)
    BY <1>2, <2>2 DEF Passed, Before
  <2>5. ~p.resumes /\ NothingProposed(p)
    BY <1>2, <1>4, <1>7 DEF NothingProposed
  <2>6. AsSeen(q)'
    BY <1>3, <1>7, <2>2, <2>5 DEF AsSeen, HasProposed, Completed
  <2>7. issued' \in Nat /\ issued' < revision' /\ goal' \in Texts /\ objective' \in Texts
    BY <1>5, <1>6, <1>7
  <2> QED
    BY <1>1, <1>2, <1>5, <1>7, <2>2, <2>3, <2>4, <2>6, <2>7, CommitKeeps
<1>8. ASSUME p.stage = "learning", ConfirmLearning("ai", p.id, Ceiling), goal' = p.input,
             Set(r, [p EXCEPT !.step = "dialog", !.stage = "mode", !.id = None,
                              !.seen = Snapshot'])
      PROVE  SetupInv'
  <2>1. /\ TypeOK' /\ session \in Session /\ session' \in Session
        /\ session # None /\ session' # None /\ revision' \in Nat /\ revision < revision'
    BY <1>3, <1>8, AgreementMoves
  <2>2. /\ session'.workUnit = session.workUnit /\ session'.status = session.status
        /\ session'.startedAtRevision = session.startedAtRevision
    BY <1>8, <2>1 DEF ConfirmLearning, LearningConfirmed, Session
  <2>3. ~HasAgreedWorkUnit
    BY <1>8 DEF ConfirmLearning, SetupInv, WorkHolds
  <2>4. Continues
    BY <1>5, <2>1, <2>2, <2>3 DEF Continues, Briefing, InStatus
  <2>5. WorkHolds'
    BY <1>5, <2>4, WorkStays DEF SetupInv
  <2>6. PICK q : /\ q = [p EXCEPT !.step = "dialog", !.stage = "mode", !.id = None,
                                   !.seen = Snapshot']
                 /\ Set(r, q)
    BY <1>8
  <2> QED
    BY <1>7, <1>8, <2>1, <2>2, <2>5, <2>6
<1>9. ASSUME p.stage = "mode", SelectMode("ai", p.id, "growth"), UNCHANGED goal,
             Set(r, [p EXCEPT !.step = "dialog", !.stage = "work-unit", !.id = None,
                              !.seen = Snapshot'])
      PROVE  SetupInv'
  <2>1. /\ TypeOK' /\ session \in Session /\ session' \in Session
        /\ session # None /\ session' # None /\ revision' \in Nat /\ revision < revision'
    BY <1>3, <1>9, AgreementMoves
  <2>2. /\ session'.workUnit = session.workUnit /\ session'.status = session.status
        /\ session'.startedAtRevision = session.startedAtRevision
    BY <1>9, <2>1 DEF SelectMode, ModeSelected, Session
  <2>3. goal' = p.input
    BY <1>2, <1>3, <1>9 DEF HasLearned
  <2>4. Continues
    BY <1>5, <1>9, <2>1, <2>2 DEF Continues, Briefing, InStatus
  <2>5. WorkHolds'
    BY <1>5, <2>4, WorkStays DEF SetupInv
  <2>6. PICK q : /\ q = [p EXCEPT !.step = "dialog", !.stage = "work-unit", !.id = None,
                                   !.seen = Snapshot']
                 /\ Set(r, q)
    BY <1>9
  <2> QED
    BY <1>7, <1>9, <2>1, <2>2, <2>3, <2>5, <2>6
<1>10. ASSUME p.stage = "work-unit", AgreeWorkUnit("ai", p.id, p.unitId), UNCHANGED goal,
              Set(r, [p EXCEPT !.step = "end", !.id = None, !.seen = Snapshot'])
       PROVE  SetupInv'
  <2>1. /\ TypeOK' /\ session \in Session /\ session' \in Session
        /\ session # None /\ session' # None /\ revision' \in Nat /\ revision < revision'
    BY <1>3, <1>10, AgreementMoves
  <2>2. goal = p.input /\ objective = p.input
    BY <1>2, <1>3, <1>10 DEF HasLearned, HasProposed
  <2>3. /\ session'.workUnit # None /\ session'.workUnit.status = "agreed"
        /\ session'.status = "ready"
        /\ session'.startedAtRevision = session.startedAtRevision
    <3>1. session.workUnit \in WorkUnit /\ WorkUnitAgreed
      BY <1>10, <2>1 DEF AgreeWorkUnit, Session
    <3> DEFINE unit == [session.workUnit EXCEPT !.status = "agreed"]
    <3>2. unit \in WorkUnit /\ unit.status = "agreed"
      BY <3>1 DEF WorkUnit, WorkUnitStatuses
    <3>3. /\ session'.workUnit = unit /\ session'.status = "ready"
          /\ session'.startedAtRevision = session.startedAtRevision
      BY <2>1, <3>1 DEF WorkUnitAgreed, Session
    <3> QED
      BY <3>2, <3>3, NoneAssumption
  <2>4. AgreedWasConfirmed'
    <3>1. Passed(p) = Stages
      BY <1>2, <1>10 DEF Passed, Before, Stages
    <3>2. p.seen.startedAt = session'.startedAtRevision
      BY <1>3, <2>1, <2>3, SnapshotType DEF SetupInv, SetupTypeOK
    <3>3. \A stage \in Stages :
              [ request |-> r, stage |-> stage, objective |-> p.input,
                startedAt |-> session'.startedAtRevision ] \in confirmed
      BY <1>3, <3>1, <3>2 DEF RequestSound, Confirmed
    <3> QED
      BY <1>5, <1>10, <2>2, <3>3 DEF AgreedWasConfirmed
  <2>5. WorkHolds'
    BY <1>4, <1>5, <2>2, <2>3, <2>4 DEF WorkHolds, Briefing, InStatus
  <2>6. PICK q : /\ q = [p EXCEPT !.step = "end", !.id = None, !.seen = Snapshot']
                 /\ Set(r, q)
    BY <1>10
  <2>7. Snapshot' \in Snapshots
    BY <2>1, SnapshotTypeNext
  <2>8. /\ q \in Request /\ q.step = "end" /\ q.seen = Snapshot' /\ q.input = p.input
    BY <1>3, <2>6, <2>7 DEF Request, Steps, SetupSteps
  <2>9. StepFits(q) /\ Passed(q) = {}
    BY <2>8 DEF StepFits, Passed
  <2>10. AsSeen(q)'
    BY <1>5, <2>1, <2>2, <2>3, <2>8 DEF AsSeen, NothingProposed, HasProposed, HasLearned,
       Operational, InStatus, HasAgreedWorkUnit
  <2>11. issued' \in Nat /\ issued' < revision' /\ goal' \in Texts /\ objective' \in Texts
    BY <1>5, <1>6, <1>10, <2>1
  <2> QED
    BY <1>1, <1>2, <1>5, <2>1, <2>3, <2>5, <2>6, <2>8, <2>9, <2>10, <2>11, CommitKeeps
<1> QED
  BY <1>1, <1>8, <1>9, <1>10 DEF Apply

LEMMA ElsewhereKeeps ==
  ASSUME SetupInv, Elsewhere
  PROVE  SetupInv'
<1>1. SetupTypeOK' /\ Moves /\ WorkHolds' /\ UNCHANGED <<requests, confirmed>>
  BY ElsewhereMoves, WorkStays DEF SetupInv, Elsewhere
<1>2. revision \in Nat
  BY BoundAssumption DEF SetupInv, SetupTypeOK, TypeOK
<1>3. ASSUME NEW r \in Requests
      PROVE  RequestSound(r, requests[r])'
  <2>1. PICK q : q = requests[r] /\ q = requests'[r]
    BY <1>1
  <2>2. RequestSound(r, q)'
    BY <1>1, <1>2, <2>1, SoundStays DEF SetupInv
  <2> QED
    BY <2>1, <2>2
<1> QED
  BY <1>1, <1>3 DEF SetupInv

-----------------------------------------------------------------------------
(* The theorems.                                                           *)

LEMMA SetupInductive ==
  ASSUME SetupInv, [SetupNext]_all
  PROVE  SetupInv'
<1>1. CASE UNCHANGED all
  <2>1. SetupTypeOK'
    BY <1>1 DEF all, vars, texts, SetupInv, SetupTypeOK, TypeOK
  <2>2. Moves /\ WorkHolds'
    BY <1>1, WorkStays DEF all, vars, texts, Moves, SetupInv
  <2>3. revision \in Nat
    BY BoundAssumption DEF SetupInv, SetupTypeOK, TypeOK
  <2>4. ASSUME NEW r \in Requests
        PROVE  RequestSound(r, requests[r])'
    <3>1. PICK q : q = requests[r] /\ q = requests'[r]
      BY <1>1 DEF all
    <3>2. confirmed \subseteq confirmed'
      BY <1>1 DEF all
    <3>3. RequestSound(r, q)'
      BY <2>2, <2>3, <3>1, <3>2, SoundStays DEF SetupInv
    <3> QED
      BY <3>1, <3>3
  <2> QED
    BY <2>1, <2>2, <2>4 DEF SetupInv
<1>2. CASE Elsewhere
  BY <1>2, ElsewhereKeeps
<1>3. ASSUME NEW r \in Requests,
             \/ AskSetup(r) \/ Collect(r) \/ Prepare(r) \/ TakeGrant(r) \/ Propose(r)
             \/ Apply(r) \/ End(r) \/ Fail(r) \/ Report(r) \/ Cancel(r)
             \/ \E accepts \in BOOLEAN : Confirm(r, accepts)
             \/ AskCheckpoint(r) \/ SaveCheckpoint(r) \/ DropCheckpoint(r)
      PROVE  SetupInv'
  BY <1>3, AskSetupKeeps, CollectKeeps, PrepareKeeps, TakeGrantKeeps, ProposeKeeps,
     ApplyKeeps, EndKeeps, FailKeeps, ReportKeeps, CancelKeeps, ConfirmKeeps, CheckpointKeeps
<1> QED
  BY <1>1, <1>2, <1>3 DEF SetupNext

LEMMA SetupStarts == SetupInit => SetupInv
<1> SUFFICES ASSUME SetupInit PROVE SetupInv
  OBVIOUS
<1>1. PICK id \in SessionIds, workspace \in Workspaces :
          /\ session = CreateSession(id, 1)
          /\ presence = [CreatePresence(workspace) EXCEPT
                             !.status = "engaged", !.activeSessionId = id]
  BY DEF SetupInit
<1>2. session \in Session /\ presence \in Presence
  BY <1>1, CreatedType DEF CreatePresence, Presence, PresenceStatuses
<1>3. TypeOK
  BY <1>2, NoFunctionsType, BoundAssumption, SetupAssumption
     DEF SetupInit, TypeOK, OperationFunctions, GrantFunctions
<1>4. SetupTypeOK
  BY <1>3, IdleType DEF SetupInit, SetupTypeOK, Texts
<1>5. WorkHolds
  BY <1>1 DEF CreateSession, WorkHolds, AgreedWasConfirmed, HasAgreedWorkUnit
<1>6. Idle.step = "idle"
  BY DEF Idle
<1>7. \A r \in Requests : RequestSound(r, requests[r])
  BY <1>6, QuietIsSound DEF SetupInit, Completed
<1> QED
  BY <1>4, <1>5, <1>7 DEF SetupInv

(* The invariant of set-ups and checkpoints.                               *)
THEOREM SetupCorrect == SetupSpec => []SetupInv
<1>1. SetupInv /\ [SetupNext]_all => SetupInv'
  BY SetupInductive
<1> QED
  BY <1>1, SetupStarts, PTL DEF SetupSpec

(* No work is agreed to that one request did not have confirmed, stage by  *)
(* stage, for the objective that was typed in and in this life of the      *)
(* session.                                                                *)
THEOREM AgreedCorrect == SetupSpec => []AgreedWasConfirmed
<1>1. SetupInv => AgreedWasConfirmed
  BY DEF SetupInv, WorkHolds
<1> QED
  BY <1>1, SetupCorrect, PTL

(* A set-up proposes where there is no proposal.                           *)
THEOREM NothingReplaced == SetupSpec => SetupReplacesNothing
<1>1. ASSUME SetupInv, NEW r \in Requests, Propose(r)
      PROVE  session.workUnit = None
  <2>1. Looks(requests[r]) /\ requests[r].step = "propose" /\ Sees(r)
    BY <1>1 DEF Propose, Looks, SetupSteps
  <2>2. NothingProposed(requests[r])
    BY <1>1, <2>1, SeenIsSo DEF RequestSound, StepFits, NothingProposed
  <2> QED
    BY <1>1, <2>1, <2>2, SeenIsSo
<1>2. SetupInv => \A r \in Requests : Propose(r) => session.workUnit = None
  BY <1>1
<1> QED
  BY <1>2, SetupCorrect, PTL DEF SetupReplacesNothing

(* "Completed" is said of work that goes on as it was agreed.              *)
THEOREM CompletedCorrect == SetupSpec => CompletedIsTrue
<1>1. ASSUME SetupInv, NEW r \in Requests, Report(r), requests'[r].outcome = "completed"
      PROVE  /\ Operational /\ HasAgreedWorkUnit /\ available
             /\ Enabled(presence.status)
             /\ objective = requests[r].input
  <2>1. requests'[r].outcome = IF requests[r].aborted THEN None ELSE Says(r)
    BY <1>1 DEF Report, Set, Idle, SetupInv, SetupTypeOK
  <2>2. Completed(requests[r]) /\ Sees(r)
    BY <1>1, <2>1, SetupAssumption DEF Says, Report, Completed
  <2>3. AsSeen(requests[r]) /\ Snapshot = requests[r].seen
    BY <1>1, <2>2 DEF SetupInv, RequestSound, Sees
  <2> QED
    BY <2>2, <2>3 DEF AsSeen, Looks, Sees
<1>2. SetupInv => \A r \in Requests :
          Report(r) /\ requests'[r].outcome = "completed" =>
              /\ Operational /\ HasAgreedWorkUnit /\ available
              /\ Enabled(presence.status)
              /\ objective = requests[r].input
  BY <1>1
<1> QED
  BY <1>2, SetupCorrect, PTL DEF CompletedIsTrue

(* A checkpoint is saved while it still says what the session says.        *)
THEOREM CheckpointsCorrect == SetupSpec => CheckpointIsCurrent
<1>1. ASSUME SetupInv, NEW r \in Requests, SaveCheckpoint(r)
      PROVE  HasCheckpoint /\ requests[r].record = Checkpoint
  <2>1. requests[r].step = "checkpoint dialog" /\ Sees(r)
    BY <1>1 DEF SaveCheckpoint
  <2>2. AsSeen(requests[r]) /\ Snapshot = requests[r].seen /\ Looks(requests[r])
    BY <1>1, <2>1 DEF SetupInv, RequestSound, Sees, Looks
  <2> QED
    BY <2>1, <2>2 DEF AsSeen, Sees, HasCheckpoint
<1>2. SetupInv => \A r \in Requests : SaveCheckpoint(r) =>
          HasCheckpoint /\ requests[r].record = Checkpoint
  BY <1>1
<1> QED
  BY <1>2, SetupCorrect, PTL DEF CheckpointIsCurrent
=============================================================================
