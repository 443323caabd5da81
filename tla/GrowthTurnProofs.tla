--------------------------- MODULE GrowthTurnProofs ---------------------------
(***************************************************************************)
(* No request to a model carries a context that the developer did not      *)
(* agree to share with that model in that life of the session; no reveal   *)
(* is on record in a session in which none was confirmed; what a turn      *)
(* shows is of the moment it is shown in; and what is said of the last     *)
(* product check is how that check ended: for any number of turns, models  *)
(* and sessions.                                                           *)
(*                                                                         *)
(* ContextIsConsented speaks of the turns that are counting or have sent.  *)
(* Sound follows each turn from the answer that let it share, over the     *)
(* actions of the developer's it may send first, to that point; and        *)
(* RegistryAgreed says that a model in the registry is there because of an *)
(* answer given in the session the registry is for.  The snapshot changes  *)
(* freely: of the kernel this part uses nothing.                           *)
(*                                                                         *)
(* RevealsAreConfirmed rests on what the kernel does with grants: Entitled *)
(* ties the grant a turn holds to the session the turn was asked in, and   *)
(* Frame is what every command does not do to it.                          *)
(*                                                                         *)
(* AnswersFitTheMoment and CheckIsTheSessions rest on what the kernel does *)
(* with the revision and with operations.  Every command is Steady: it     *)
(* moves the revision on, gives an operation an identifier that was never  *)
(* used, and leaves what is settled alone for the rest of the life of the  *)
(* session.  Fits and LastCheckFits say what a turn, and the last check,   *)
(* may rely on because of it.                                              *)
(***************************************************************************)
EXTENDS GrowthTurn, PairKernelProofs

KeyOf(intent) == <<intent.workspaceId, intent.sessionId, intent.startedAtRevision>>

SharedIn(sharings, model, key) ==
    \E sharing \in sharings : sharing.model = model /\ KeyOf(sharing.intent) = key

ModelRoutes == {"chat", "hint", "reveal", "transfer"}

(* A turn sends what its route is for, and no other route asks the model.  *)
Sound(turn, sharings) ==
    /\ DOMAIN turn = DOMAIN Idle
    /\ turn.step \in Dialogs \cup {"prepare", "call", "count", "sent", "read", "publish"}
           => turn.route \in ModelRoutes
    /\ turn.route \in ModelRoutes /\ turn.step \notin {"idle", "ended"}
           => turn.intent.agreement # None
    /\ turn.step = "grant" => turn.route \in {"hint", "reveal", "check", "attempt"}
    /\ turn.step = "effect" => turn.route \in ModelRoutes \cup {"check"}
    /\ turn.step = "invoke" =>
           \/ turn.route \in {"hint", "reveal"}
              /\ turn.tool \in {"request_hint", "reveal_solution"}
           \/ turn.route = "check" /\ turn.tool = "run_verification"
           \/ turn.route = "attempt" /\ turn.tool = "record_attempt"
    /\ ( /\ turn.route \in ModelRoutes
         /\ turn.step \in {"grant", "invoke", "effect", "prepare", "call", "count",
                            "sent", "read"} )
           => SharedIn(sharings, turn.model, KeyOf(turn.intent))

RegistryAgreed ==
    \A model \in registry.models : SharedIn(agreed, model, registry.key)

TurnInv ==
    /\ DOMAIN turns = Turns
    /\ \A t \in Turns : Sound(turns[t], agreed)
    /\ RegistryAgreed

-----------------------------------------------------------------------------
LEMMA EndedIsSound ==
  ASSUME NEW sharings
  PROVE  Sound(Idle, sharings) /\ Sound(Ended, sharings)
BY DEF Sound, Idle, Ended, Dialogs

LEMMA SoundGrows ==
  ASSUME NEW turn, NEW sharings, NEW more, sharings \subseteq more, Sound(turn, sharings)
  PROVE  Sound(turn, more)
BY DEF Sound, SharedIn

(* The other turns do not notice that one takes a step.                    *)
LEMMA OneTurnMoves ==
  ASSUME TurnInv, NEW t \in Turns, NEW turn,
         turns' = [turns EXCEPT ![t] = turn], Sound(turn, agreed'),
         agreed \subseteq agreed', RegistryAgreed'
  PROVE  TurnInv'
<1>1. /\ DOMAIN turns' = Turns /\ turns'[t] = turn
      /\ \A u \in Turns : u # t => turns'[u] = turns[u]
  BY DEF TurnInv
<1>2. ASSUME NEW u \in Turns
      PROVE  Sound(turns'[u], agreed')
  <2>1. CASE u = t
    BY <1>1, <2>1
  <2>2. CASE u # t
    BY <1>1, <2>2, SoundGrows DEF TurnInv
  <2> QED
    BY <2>1, <2>2
<1> QED
  BY <1>1, <1>2 DEF TurnInv

(* Nothing is agreed to, and one turn takes a step.                        *)
LEMMA OneTurnGoesOn ==
  ASSUME TurnInv, NEW t \in Turns, NEW turn,
         turns' = [turns EXCEPT ![t] = turn], Sound(turn, agreed),
         UNCHANGED <<registry, agreed>>
  PROVE  TurnInv'
<1>1. Sound(turn, agreed') /\ agreed \subseteq agreed' /\ RegistryAgreed'
  BY DEF TurnInv, RegistryAgreed
<1> QED
  BY <1>1, OneTurnMoves

LEMMA TurnEnds ==
  ASSUME TurnInv, NEW t \in Turns, Ends(t), UNCHANGED <<registry, agreed>>
  PROVE  TurnInv'
BY EndedIsSound, OneTurnGoesOn DEF Ends

(* A turn of the session that is running may share with a granted model.   *)
LEMMA GrantedIsAgreed ==
  ASSUME TurnInv, NEW model, Granted(model), NEW intent, intent = CurrentIntent
  PROVE  SharedIn(agreed, model, KeyOf(intent))
<1>1. KeyOf(CurrentIntent) = SessionKey
  BY DEF Granted, SessionKey, KeyOf, CurrentIntent
<1> QED
  BY <1>1 DEF TurnInv, RegistryAgreed, Granted

-----------------------------------------------------------------------------
LEMMA AsksKeeps ==
  ASSUME TurnInv, NEW t \in Turns, Asks(t)
  PROVE  TurnInv'
<1>1. ASSUME NEW route \in Routes \ {"check", "attempt"}, NEW model \in Models,
             AskModel(t, route, model)
      PROVE  TurnInv'
  <2> DEFINE turn == [Request(route, model) EXCEPT !.intent = CurrentIntent]
             dialog(step) == [turn EXCEPT !.step = step]
  <2>1. /\ DOMAIN turn = DOMAIN Idle
        /\ turn.route = route /\ turn.model = model /\ turn.intent = CurrentIntent
        /\ turn.intent.agreement # None
    BY <1>1 DEF Request, Idle, AskModel, CanCapture, HasGrowthAgreement, CurrentIntent
  <2>2. route \in ModelRoutes
    BY DEF Routes, ModelRoutes
  <2> HIDE DEF turn
  <2>3. ASSUME NEW step \in Dialogs
        PROVE  Sound(dialog(step), agreed)
    BY <2>1, <2>2 DEF Sound, Dialogs, Idle
  <2>4. CASE Granted(model)
    <3>1. SharedIn(agreed, model, KeyOf(turn.intent))
      BY <2>1, <2>4, GrantedIsAgreed
    <3>2. Sound(dialog(AfterSharing(route)), agreed)
      BY <2>1, <2>2, <3>1 DEF Sound, Dialogs, Idle, AfterSharing
    <3> QED
      BY <1>1, <2>1, <2>3, <2>4, <3>2, OneTurnGoesOn
         DEF AskModel, Gathers, caches, history, turn, Dialogs
  <2>5. CASE ~Granted(model)
    BY <1>1, <2>1, <2>3, <2>5, OneTurnGoesOn
       DEF AskModel, Gathers, caches, history, turn, Dialogs
  <2> QED
    BY <2>4, <2>5
<1>2. ASSUME NEW route \in {"check", "attempt"}, AskAction(t, route)
      PROVE  TurnInv'
  <2> DEFINE turn == [Request(route, None) EXCEPT !.step = "grant"]
  <2>1. Sound(turn, agreed)
    BY DEF Sound, Dialogs, Request, Idle, ModelRoutes
  <2> QED
    BY <1>2, <2>1, OneTurnGoesOn DEF AskAction, caches, history
<1>3. CASE Cancel(t)
  <2> DEFINE turn == [turns[t] EXCEPT !.aborted = TRUE]
  <2>1. Sound(turn, agreed)
    BY DEF TurnInv, Sound, Idle
  <2>2. turns' = [turns EXCEPT ![t] = turn]
    BY <1>3 DEF Cancel
  <2> QED
    BY <1>3, <2>1, <2>2, OneTurnGoesOn DEF Cancel, caches, history
<1> QED
  BY <1>1, <1>2, <1>3 DEF Asks

LEMMA DialogKeeps ==
  ASSUME TurnInv, NEW t \in Turns, AnswerDialog(t)
  PROVE  TurnInv'
<1>0. Sound(turns[t], agreed)
  BY DEF TurnInv
<1>1. ASSUME NEW accepts \in BOOLEAN, RevealAnswered(t, accepts)
      PROVE  TurnInv'
  <2> DEFINE turn(step) == [turns[t] EXCEPT !.step = step]
  <2>0. turns[t].step = "reveal dialog" /\ UNCHANGED <<registry, agreed>>
    BY <1>1 DEF RevealAnswered, caches
  <2>1. /\ turns[t].route \in ModelRoutes /\ DOMAIN turns[t] = DOMAIN Idle
        /\ turns[t].intent.agreement # None
    BY <1>0, <2>0 DEF Sound, Dialogs
  <2>2. CASE accepts /\ IsCurrent(t) /\ Granted(turns[t].model)
    <3>1. SharedIn(agreed, turns[t].model, KeyOf(turns[t].intent))
      BY <2>2, GrantedIsAgreed DEF IsCurrent, IsIntentCurrent
    <3>2. Sound(turn(AfterSharing(turns[t].route)), agreed)
      BY <2>1, <3>1 DEF Sound, Dialogs, Idle, AfterSharing
    <3>3. turns' = [turns EXCEPT ![t] = turn(AfterSharing(turns[t].route))]
      BY <1>1, <2>2 DEF RevealAnswered, Gathers
    <3> QED
      BY <2>0, <3>2, <3>3, OneTurnGoesOn
  <2>3. CASE accepts /\ IsCurrent(t) /\ ~Granted(turns[t].model)
    <3>1. Sound(turn("consent dialog"), agreed)
      BY <2>1 DEF Sound, Dialogs, Idle
    <3>2. turns' = [turns EXCEPT ![t] = turn("consent dialog")]
      BY <1>1, <2>3 DEF RevealAnswered, Gathers
    <3> QED
      BY <2>0, <3>1, <3>2, OneTurnGoesOn
  <2>4. CASE ~(accepts /\ IsCurrent(t))
    BY <1>1, <2>0, <2>4, TurnEnds DEF RevealAnswered
  <2> QED
    BY <2>2, <2>3, <2>4
<1>2. ASSUME NEW accepts \in BOOLEAN, ConsentAnswered(t, accepts)
      PROVE  TurnInv'
  <2>0. turns[t].step = "consent dialog"
    BY <1>2 DEF ConsentAnswered
  <2>1. /\ turns[t].route \in ModelRoutes /\ DOMAIN turns[t] = DOMAIN Idle
        /\ turns[t].intent.agreement # None
    BY <1>0, <2>0 DEF Sound, Dialogs
  <2>2. agreed \subseteq agreed'
    BY <1>2 DEF ConsentAnswered
  <2>3. CASE accepts /\ IsCurrent(t)
    <3> DEFINE turn == [turns[t] EXCEPT !.step = AfterSharing(turns[t].route)]
    <3>1. KeyOf(turns[t].intent) = SessionKey
      BY <2>3 DEF IsCurrent, IsIntentCurrent, CurrentIntent, KeyOf, SessionKey
    <3>2. SharedIn(agreed', turns[t].model, KeyOf(turns[t].intent))
      <4>1. agreed' = agreed \cup {Sharing(t)}
        BY <1>2, <2>3 DEF ConsentAnswered
      <4>2. /\ Sharing(t) \in agreed'
            /\ Sharing(t).model = turns[t].model /\ Sharing(t).intent = turns[t].intent
        BY <4>1 DEF Sharing
      <4> QED
        BY <4>2 DEF SharedIn
    <3>3. Sound(turn, agreed')
      BY <2>1, <3>2 DEF Sound, Dialogs, Idle, AfterSharing
    <3>4. turns' = [turns EXCEPT ![t] = turn]
      BY <1>2, <2>3 DEF ConsentAnswered, To
    <3>5. /\ registry'.key = SessionKey
          /\ registry'.models = {turns[t].model} \cup
                (IF registry.key = SessionKey THEN registry.models ELSE {})
      <4>1. registry' = [ key |-> SessionKey,
                          models |-> {turns[t].model} \cup
                              (IF registry.key = SessionKey THEN registry.models ELSE {}) ]
        BY <1>2, <2>3 DEF ConsentAnswered
      <4> HIDE DEF turn
      <4> QED
        BY <4>1
    <3>6. ASSUME NEW model \in registry'.models
          PROVE  SharedIn(agreed', model, registry'.key)
      <4>1. CASE model = turns[t].model
        BY <3>1, <3>2, <3>5, <4>1
      <4>2. CASE model \in registry.models /\ registry.key = SessionKey
        BY <2>2, <3>5, <4>2 DEF TurnInv, RegistryAgreed, SharedIn
      <4> QED
        BY <3>5, <3>6, <4>1, <4>2
    <3>7. RegistryAgreed'
      BY <3>6 DEF RegistryAgreed
    <3> QED
      BY <2>2, <3>3, <3>4, <3>7, OneTurnMoves
  <2>4. CASE ~(accepts /\ IsCurrent(t))
    <3>1. turns' = [turns EXCEPT ![t] = Ended] /\ UNCHANGED registry
      BY <1>2, <2>4 DEF ConsentAnswered, Ends
    <3>2. RegistryAgreed'
      BY <2>2, <3>1 DEF TurnInv, RegistryAgreed, SharedIn
    <3> QED
      BY <2>2, <3>1, <3>2, EndedIsSound, OneTurnMoves
  <2> QED
    BY <2>3, <2>4
<1> QED
  BY <1>1, <1>2 DEF AnswerDialog

LEMMA ActionKeeps ==
  ASSUME TurnInv, NEW t \in Turns, GrantFor(t) \/ Invoke(t)
  PROVE  TurnInv'
<1>0. Sound(turns[t], agreed)
  BY DEF TurnInv
<1>1. ASSUME NEW tool, NEW level, TakeGrant(t, tool, level),
             \/ turns[t].route \in {"hint", "reveal"}
                /\ tool \in {"request_hint", "reveal_solution"}
             \/ turns[t].route = "check" /\ tool = "run_verification"
             \/ turns[t].route = "attempt" /\ tool = "record_attempt"
      PROVE  TurnInv'
  <2> DEFINE turn == [turns[t] EXCEPT !.step = "invoke", !.id = NextId, !.tool = tool,
                                      !.level = level]
  <2>1. turns[t].step = "grant" /\ UNCHANGED <<registry, agreed>>
    BY <1>1 DEF TakeGrant, caches, history
  <2>2. Sound(turn, agreed)
    BY <1>0, <1>1, <2>1 DEF Sound, Dialogs, Idle, ModelRoutes
  <2>3. turns' = [turns EXCEPT ![t] = turn]
    BY <1>1 DEF TakeGrant
  <2> QED
    BY <2>1, <2>2, <2>3, OneTurnGoesOn
<1>2. CASE GrantFor(t)
  BY <1>1, <1>2 DEF GrantFor
<1>3. CASE Invoke(t)
  <2>1. /\ turns[t].step = "invoke" /\ UNCHANGED <<registry, agreed>>
        /\ DOMAIN turns[t] = DOMAIN Idle
    BY <1>0, <1>3 DEF Invoke, caches, history, Sound
  <2>2. \/ turns[t].route \in {"hint", "reveal"}
           /\ turns[t].tool \in {"request_hint", "reveal_solution"}
        \/ turns[t].route = "check" /\ turns[t].tool = "run_verification"
        \/ turns[t].route = "attempt" /\ turns[t].tool = "record_attempt"
    BY <1>0, <2>1 DEF Sound
  <2>3. turns[t].route \in {"hint", "reveal"}
            => /\ SharedIn(agreed, turns[t].model, KeyOf(turns[t].intent))
               /\ turns[t].intent.agreement # None
    BY <1>0, <2>1 DEF Sound, ModelRoutes
  <2>4. CASE turns[t].tool = "reveal_solution"
    <3> DEFINE turn == [turns[t] EXCEPT !.step = "grant", !.id = None,
                           !.revision = revision', !.epoch = session.authorityEpoch]
    <3>1. Sound(turn, agreed)
      BY <2>1, <2>2, <2>3, <2>4 DEF Sound, Dialogs, Idle, ModelRoutes
    <3>2. turns' = [turns EXCEPT ![t] = turn]
      BY <1>3, <2>4 DEF Invoke
    <3> QED
      BY <2>1, <3>1, <3>2, OneTurnGoesOn
  <2>5. CASE turns[t].tool = "request_hint"
    <3> DEFINE turn == [turns[t] EXCEPT !.step = "prepare", !.route = "chat", !.id = None,
                                        !.tool = None, !.level = 0]
    <3>1. Sound(turn, agreed)
      BY <2>1, <2>2, <2>3, <2>5 DEF Sound, Dialogs, Idle, ModelRoutes
    <3>2. turns' = [turns EXCEPT ![t] = turn]
      BY <1>3, <2>5 DEF Invoke
    <3> QED
      BY <2>1, <3>1, <3>2, OneTurnGoesOn
  <2>6. CASE turns[t].tool = "record_attempt"
    BY <1>3, <2>1, <2>6, TurnEnds DEF Invoke
  <2>7. CASE turns[t].tool = "run_verification"
    <3> DEFINE turn == [turns[t] EXCEPT !.step = "effect", !.id = NextId,
                           !.intent = Identity, !.epoch = session.authorityEpoch]
    <3>1. Sound(turn, agreed)
      BY <2>1, <2>2, <2>7 DEF Sound, Dialogs, Idle, ModelRoutes
    <3>2. turns' = [turns EXCEPT ![t] = turn]
      BY <1>3, <2>7 DEF Invoke
    <3> QED
      BY <2>1, <3>1, <3>2, OneTurnGoesOn
  <2> QED
    BY <2>2, <2>4, <2>5, <2>6, <2>7
<1> QED
  BY <1>2, <1>3

(* The steps that ask the model, and those that show what came of a turn.  *)
LEMMA ModelKeeps ==
  ASSUME TurnInv, NEW t \in Turns, Continue(t)
  PROVE  TurnInv'
<1>0. Sound(turns[t], agreed)
  BY DEF TurnInv
<1>1. CASE Prepare(t)
  <2> DEFINE turn == [turns[t] EXCEPT !.step = "call", !.told = Told,
                         !.revision = revision, !.epoch = session.authorityEpoch]
  <2>1. Sound(turn, agreed)
    BY <1>0, <1>1 DEF Prepare, Sound, Dialogs, Idle
  <2>2. turns' = [turns EXCEPT ![t] = turn]
    BY <1>1 DEF Prepare
  <2> QED
    BY <1>1, <2>1, <2>2, OneTurnGoesOn DEF Prepare, caches, history
<1>2. CASE CallModel(t)
  <2> DEFINE turn == [turns[t] EXCEPT !.step = "count", !.calls = @ + 1]
  <2>1. Sound(turn, agreed)
    BY <1>0, <1>2 DEF CallModel, Sound, Dialogs, Idle
  <2>2. turns' = [turns EXCEPT ![t] = turn]
    BY <1>2 DEF CallModel
  <2> QED
    BY <1>2, <2>1, <2>2, OneTurnGoesOn DEF CallModel, caches, history
<1>3. CASE Send(t)
  <2> DEFINE turn == [turns[t] EXCEPT !.step = "sent"]
  <2>1. Sound(turn, agreed)
    BY <1>0, <1>3 DEF Send, Sound, Dialogs, Idle
  <2>2. turns' = [turns EXCEPT ![t] = turn]
    BY <1>3 DEF Send, To
  <2> QED
    BY <1>3, <2>1, <2>2, OneTurnGoesOn DEF Send, caches, history
<1>4. CASE Answers(t)
  <2>1. turns[t].step = "sent" /\ UNCHANGED <<registry, agreed>>
    BY <1>4 DEF Answers, caches, history
  <2>2. ASSUME NEW response,
               turns' = [turns EXCEPT ![t].step = "publish", ![t].response = response]
        PROVE  TurnInv'
    <3> DEFINE turn == [turns[t] EXCEPT !.step = "publish", !.response = response]
    <3>1. Sound(turn, agreed)
      BY <1>0, <2>1 DEF Sound, Dialogs, Idle
    <3> QED
      BY <2>1, <2>2, <3>1, OneTurnGoesOn
  <2>3. CASE To(t, "read")
    <3> DEFINE turn == [turns[t] EXCEPT !.step = "read"]
    <3>1. Sound(turn, agreed)
      BY <1>0, <2>1 DEF Sound, Dialogs, Idle
    <3> QED
      BY <2>1, <2>3, <3>1, OneTurnGoesOn DEF To
  <2> QED
    BY <1>4, <2>2, <2>3 DEF Answers
<1>5. CASE Read(t)
  <2> DEFINE turn == [turns[t] EXCEPT !.step = "effect", !.id = NextId]
  <2>1. Sound(turn, agreed)
    BY <1>0, <1>5 DEF Read, Sound, Dialogs, Idle
  <2>2. turns' = [turns EXCEPT ![t] = turn]
    BY <1>5 DEF Read
  <2> QED
    BY <1>5, <2>1, <2>2, OneTurnGoesOn DEF Read, caches, history
<1>6. ASSUME NEW status, EffectEnds(t, status)
      PROVE  TurnInv'
  <2>1. turns[t].step = "effect" /\ UNCHANGED <<registry, agreed>>
    BY <1>6 DEF EffectEnds, caches, history
  <2>2. CASE Ends(t)
    BY <2>1, <2>2, TurnEnds
  <2>3. CASE ~Ends(t)
    <3> DEFINE turn == [turns[t] EXCEPT
               !.step = IF turns[t].route = "check" THEN "report" ELSE "call",
               !.revision = revision',
               !.id = IF turns[t].route = "check" THEN @ ELSE None]
    <3>1. Sound(turn, agreed)
      BY <1>0, <2>1 DEF Sound, Dialogs, Idle
    <3>2. turns' = [turns EXCEPT ![t] = turn]
      BY <1>6, <2>3 DEF EffectEnds
    <3> QED
      BY <2>1, <3>1, <3>2, OneTurnGoesOn
  <2> QED
    BY <2>2, <2>3
<1>7. CASE Publish(t)
  <2> DEFINE turn == [turns[t] EXCEPT !.step = "transfer"]
  <2>1. UNCHANGED <<registry, agreed>>
    BY <1>7 DEF Publish, caches, history
  <2>2. Sound(turn, agreed)
    BY <1>0, <1>7 DEF Publish, Sound, Dialogs, Idle
  <2>3. turns' = [turns EXCEPT ![t] = turn] \/ Ends(t)
    BY <1>7 DEF Publish, To
  <2> QED
    BY <2>1, <2>2, <2>3, TurnEnds, OneTurnGoesOn
<1>8. CASE ReportCheck(t) \/ StartTransfer(t) \/ Fail(t)
  BY <1>8, TurnEnds DEF ReportCheck, StartTransfer, Fail, caches, history
<1> QED
  BY <1>1, <1>2, <1>3, <1>4, <1>5, <1>6, <1>7, <1>8, ActionKeeps DEF Continue

LEMMA TurnInitially ==
  ASSUME TurnInit
  PROVE  TurnInv
BY EndedIsSound DEF TurnInit, TurnInv, RegistryAgreed

LEMMA TurnStepKeeps ==
  ASSUME TurnInv, [TurnNext]_all
  PROVE  TurnInv'
<1>1. CASE Elsewhere \/ UNCHANGED all
  BY <1>1 DEF Elsewhere, all, participant, caches, history, TurnInv, RegistryAgreed
<1>2. CASE \E t \in Turns : Asks(t) \/ AnswerDialog(t) \/ Continue(t)
  BY <1>2, AsksKeeps, DialogKeeps, ModelKeeps
<1> QED
  BY <1>1, <1>2 DEF TurnNext

(* What a request to a model carries is shared with that model only after  *)
(* the developer agreed to it in that life of that session.                *)
THEOREM ContextConsented == TurnSpec => []ContextIsConsented
<1>1. TurnInit => TurnInv
  BY TurnInitially
<1>2. TurnInv /\ [TurnNext]_all => TurnInv'
  BY TurnStepKeeps
<1>3. TurnInv => ContextIsConsented
  <2> SUFFICES ASSUME TurnInv, NEW t \in Turns, turns[t].step \in {"count", "sent"}
               PROVE  \E sharing \in agreed :
                        /\ sharing.model = turns[t].model
                        /\ sharing.intent.workspaceId = turns[t].intent.workspaceId
                        /\ sharing.intent.sessionId = turns[t].intent.sessionId
                        /\ sharing.intent.startedAtRevision = turns[t].intent.startedAtRevision
    BY DEF ContextIsConsented
  <2>1. SharedIn(agreed, turns[t].model, KeyOf(turns[t].intent))
    BY DEF TurnInv, Sound
  <2> QED
    BY <2>1 DEF SharedIn, KeyOf
<1> QED
  BY <1>1, <1>2, <1>3, PTL DEF TurnSpec

-----------------------------------------------------------------------------
(* Reveals.  A turn that may reveal was confirmed, and while its grant is  *)
(* there the session is the one the turn was asked in: nothing replaces a  *)
(* session and leaves a grant behind, and no identifier is given twice.    *)

LifeOf(s) == <<s.sessionId, s.startedAtRevision>>

Reveals == session # None /\ session.assistance # None /\ session.assistance.reveal

Entitled(t) ==
    /\ turns[t].route = "reveal" /\ turns[t].step \in {"consent dialog", "grant", "invoke"}
           => turns[t].intent \in confirmed
    /\ turns[t].step = "invoke" => turns[t].id \in GrantIds /\ turns[t].id <= issued
    /\ turns[t].step = "invoke" /\ turns[t].tool = "reveal_solution" =>
           /\ turns[t].route = "reveal"
           /\ grants[turns[t].id] # None => LifeOf(session) = LifeOf(turns[t].intent)

(* What the proof needs of the snapshot's types.                           *)
Shaped ==
    /\ DOMAIN grants = GrantIds
    /\ session # None =>
           /\ DOMAIN session = DOMAIN CreateSession(None, 0)
           /\ session.assistance # None
                  => DOMAIN session.assistance = DOMAIN NoAssistance

RevealInv ==
    /\ TurnInv /\ Shaped /\ issued \in Nat
    /\ \A t \in Turns : Entitled(t)
    /\ RevealsAreConfirmed

(* What a command leaves alone: no earlier grant appears, and none stays   *)
(* when the session changes; no reveal appears.                            *)
GrantsStay ==
    \A id \in GrantIds :
        id <= issued /\ grants'[id] # None
            => grants[id] # None /\ LifeOf(session)' = LifeOf(session)

RevealsStay == Reveals' => Reveals /\ LifeOf(session)' = LifeOf(session)

Frame == Shaped' /\ GrantsStay /\ RevealsStay

LEMMA ResetFrame ==
  ASSUME grants' = NoGrants, ~Reveals',
         session' # None => /\ DOMAIN session' = DOMAIN CreateSession(None, 0)
                            /\ session'.assistance # None
                                   => DOMAIN session'.assistance = DOMAIN NoAssistance
  PROVE  Frame
BY DEF Frame, Shaped, GrantsStay, RevealsStay, NoGrants

LEMMA UnchangedFrame ==
  ASSUME Shaped, UNCHANGED <<session, grants>>
  PROVE  Frame
BY DEF Frame, Shaped, GrantsStay, RevealsStay, Reveals, LifeOf, CreateSession, NoAssistance

(* A grant that is spent was there.                                        *)
LEMMA SpentGrant ==
  ASSUME Shaped, NEW actor, NEW id \in GrantIds \cup {None}, NEW tool,
         HumanAction(actor, id, tool)
  PROVE  /\ DOMAIN grants' = GrantIds
         /\ \A i \in GrantIds : grants'[i] # None => grants[i] # None
<1>1. CASE UNCHANGED grants
  BY <1>1 DEF Shaped
<1>2. CASE CurrentGrant(id, tool) /\ UserActionConsumed(id)
  BY <1>2 DEF Shaped, CurrentGrant, UserActionConsumed
<1> QED
  BY <1>1, <1>2 DEF HumanAction

(* A step of the session's own life.                                       *)
LEMMA SameLifeFrame ==
  ASSUME Shaped, session # None,
         DOMAIN grants' = GrantIds,
         \A i \in GrantIds : grants'[i] # None => grants[i] # None,
         DOMAIN session' = DOMAIN CreateSession(None, 0),
         session'.sessionId = session.sessionId,
         session'.startedAtRevision = session.startedAtRevision,
         session'.assistance # None =>
             /\ DOMAIN session'.assistance = DOMAIN NoAssistance
             /\ session'.assistance.reveal => Reveals
  PROVE  Frame
<1>1. LifeOf(session)' = LifeOf(session)
  BY DEF LifeOf
<1>2. GrantsStay /\ RevealsStay
  BY <1>1 DEF GrantsStay, RevealsStay, Reveals
<1>3. Shaped'
  BY DEF Shaped, CreateSession, NoAssistance
<1> QED
  BY <1>2, <1>3 DEF Frame

(* What Assist does to the session.                                        *)
LEMMA AssistKeepsLife ==
  ASSUME Shaped, session # None, NEW assistance, Assist(assistance)
  PROVE  /\ DOMAIN session' = DOMAIN CreateSession(None, 0)
         /\ session'.assistance = assistance
         /\ session'.sessionId = session.sessionId
         /\ session'.startedAtRevision = session.startedAtRevision
BY DEF Shaped, Assist, CreateSession

LEMMA CurrentAssistanceShape ==
  ASSUME Shaped, session # None
  PROVE  /\ DOMAIN CurrentAssistance = DOMAIN NoAssistance
         /\ CurrentAssistance.reveal => Reveals
BY DEF Shaped, CurrentAssistance, Reveals, NoAssistance

LEMMA HintFrame ==
  ASSUME Shaped, NEW id \in GrantIds, NEW unitId, NEW level,
         RequestHint("ai", id, unitId, level)
  PROVE  Frame
<1> DEFINE assistance == [CurrentAssistance EXCEPT !.hint = IF level > @ THEN level ELSE @]
<1>1. session # None /\ Assist(assistance) /\ HumanAction("ai", id, "request_hint")
  BY DEF RequestHint, Working, InStatus, HintRequested
<1>2. /\ DOMAIN assistance = DOMAIN NoAssistance
      /\ assistance.reveal => Reveals
  BY <1>1, CurrentAssistanceShape DEF NoAssistance
<1> HIDE DEF assistance
<1>3. /\ DOMAIN grants' = GrantIds
      /\ \A i \in GrantIds : grants'[i] # None => grants[i] # None
  BY <1>1, SpentGrant
<1> QED
  BY <1>1, <1>2, <1>3, AssistKeepsLife, SameLifeFrame

LEMMA AttemptFrame ==
  ASSUME Shaped, NEW id \in GrantIds, NEW unitId, RecordAttempt("ai", id, unitId)
  PROVE  Frame
<1> DEFINE assistance == [CurrentAssistance EXCEPT !.attempt = TRUE]
<1>1. session # None /\ Assist(assistance) /\ HumanAction("ai", id, "record_attempt")
  BY DEF RecordAttempt, Working, InStatus, AttemptRecorded
<1>2. /\ DOMAIN assistance = DOMAIN NoAssistance
      /\ assistance.reveal => Reveals
  BY <1>1, CurrentAssistanceShape DEF NoAssistance
<1> HIDE DEF assistance
<1>3. /\ DOMAIN grants' = GrantIds
      /\ \A i \in GrantIds : grants'[i] # None => grants[i] # None
  BY <1>1, SpentGrant
<1> QED
  BY <1>1, <1>2, <1>3, AssistKeepsLife, SameLifeFrame

(* A reveal is put on record in the life of the session its grant is for.  *)
LEMMA RevealStep ==
  ASSUME Shaped, NEW id \in GrantIds, NEW unitId,
         AuthorizeSolutionReveal("ai", id, unitId, TRUE)
  PROVE  Shaped' /\ GrantsStay /\ grants[id] # None /\ LifeOf(session)' = LifeOf(session)
<1> DEFINE assistance == [CurrentAssistance EXCEPT !.reveal = TRUE]
<1>1. session # None /\ Assist(assistance) /\ HumanAction("ai", id, "reveal_solution")
  BY DEF AuthorizeSolutionReveal, Working, InStatus, SolutionRevealAuthorized
<1>2. DOMAIN assistance = DOMAIN NoAssistance
  BY <1>1, CurrentAssistanceShape
<1> HIDE DEF assistance
<1>3. /\ DOMAIN grants' = GrantIds
      /\ \A i \in GrantIds : grants'[i] # None => grants[i] # None
  BY <1>1, SpentGrant
<1>4. grants[id] # None
  BY <1>1 DEF HumanAction, CurrentGrant
<1>5. /\ DOMAIN session' = DOMAIN CreateSession(None, 0)
      /\ session'.assistance = assistance
      /\ session'.sessionId = session.sessionId
      /\ session'.startedAtRevision = session.startedAtRevision
  BY <1>1, AssistKeepsLife
<1>6. LifeOf(session)' = LifeOf(session)
  BY <1>5 DEF LifeOf
<1>7. GrantsStay
  BY <1>3, <1>6 DEF GrantsStay
<1>8. Shaped'
  BY <1>2, <1>3, <1>5 DEF Shaped, CreateSession, NoAssistance
<1> QED
  BY <1>4, <1>6, <1>7, <1>8

LEMMA AuthorizeFrame ==
  ASSUME Shaped, NEW id, NEW tool, NEW grantId \in GrantIds \cup {None},
         AuthorizeOperation(id, tool, grantId)
  PROVE  Frame
<1>1. /\ DOMAIN grants' = GrantIds
      /\ \A i \in GrantIds : grants'[i] # None => grants[i] # None
  <2>1. CASE UNCHANGED grants
    BY <2>1 DEF Shaped
  <2>2. CASE CurrentGrant(grantId, tool) /\ UserActionConsumed(grantId)
    BY <2>2 DEF Shaped, CurrentGrant, UserActionConsumed
  <2> QED
    BY <2>1, <2>2 DEF AuthorizeOperation
<1>2. session # None /\ UNCHANGED session
  BY DEF AuthorizeOperation, Operational, InStatus, OperationAuthorized
<1>3. session'.assistance # None =>
          /\ DOMAIN session'.assistance = DOMAIN NoAssistance
          /\ session'.assistance.reveal => Reveals
  BY <1>2 DEF Shaped, Reveals
<1>4. DOMAIN session' = DOMAIN CreateSession(None, 0)
  BY <1>2 DEF Shaped
<1> QED
  BY <1>1, <1>2, <1>3, <1>4, SameLifeFrame

LEMMA ObserveFrame ==
  ASSUME Shaped, NEW id, NEW epoch, NEW status, ObserveOperationResult(id, epoch, status)
  PROVE  Frame
BY UnchangedFrame DEF ObserveOperationResult, OperationObserved

LEMMA ElsewhereFrame ==
  ASSUME Shaped, Elsewhere
  PROVE  Frame
<1>1. CASE ObserveWorkspace("host")
  BY <1>1, UnchangedFrame DEF ObserveWorkspace, WorkspaceObserved
<1>2. ASSUME NEW status \in {"paused", "off"}, SetPresence("human", status)
      PROVE  Frame
  <2>1. CASE PauseSession
    <3>1. session # None /\ UNCHANGED grants
      BY <2>1 DEF PauseSession, Pausable, InStatus
    <3>2. session' = [session EXCEPT !.status = "paused", !.authorityEpoch = @ + 1]
      BY <2>1 DEF PauseSession, SessionPaused
    <3>3. DOMAIN session = DOMAIN CreateSession(None, 0)
      BY <3>1 DEF Shaped
    <3>4. /\ DOMAIN session' = DOMAIN CreateSession(None, 0)
          /\ session'.sessionId = session.sessionId
          /\ session'.startedAtRevision = session.startedAtRevision
          /\ session'.assistance = session.assistance
      BY <3>2, <3>3 DEF CreateSession
    <3>5. session'.assistance # None =>
              /\ DOMAIN session'.assistance = DOMAIN NoAssistance
              /\ session'.assistance.reveal => Reveals
      BY <3>1, <3>4 DEF Shaped, Reveals
    <3>6. /\ DOMAIN grants' = GrantIds
          /\ \A i \in GrantIds : grants'[i] # None => grants[i] # None
      BY <3>1 DEF Shaped
    <3> QED
      BY <3>1, <3>4, <3>5, <3>6, SameLifeFrame
  <2>2. ASSUME NEW changed, PresenceChanged(changed)
        PROVE  Frame
    <3>1. CASE changed = "off"
      <4>1. grants' = NoGrants /\ session' = None
        BY <2>2, <3>1 DEF PresenceChanged
      <4> QED
        BY <4>1, ResetFrame DEF Reveals
    <3>2. CASE changed # "off"
      BY <2>2, <3>2, UnchangedFrame DEF PresenceChanged
    <3> QED
      BY <3>1, <3>2
  <2> QED
    BY <1>2, <2>1, <2>2 DEF SetPresence
<1>3. CASE CloseSession("human", None)
  <2>1. session # None /\ HumanAction("human", None, "close_session")
    BY <1>3 DEF CloseSession, Closable, InStatus
  <2>2. session' = [session EXCEPT !.status = "closed"]
    BY <1>3 DEF CloseSession, SessionClosed
  <2>3. DOMAIN session = DOMAIN CreateSession(None, 0)
    BY <2>1 DEF Shaped
  <2>4. /\ DOMAIN session' = DOMAIN CreateSession(None, 0)
        /\ session'.sessionId = session.sessionId
        /\ session'.startedAtRevision = session.startedAtRevision
        /\ session'.assistance = session.assistance
    BY <2>2, <2>3 DEF CreateSession
  <2>5. session'.assistance # None =>
            /\ DOMAIN session'.assistance = DOMAIN NoAssistance
            /\ session'.assistance.reveal => Reveals
    BY <2>1, <2>4 DEF Shaped, Reveals
  <2>6. /\ DOMAIN grants' = GrantIds
        /\ \A i \in GrantIds : grants'[i] # None => grants[i] # None
    BY <2>1, SpentGrant
  <2> QED
    BY <2>1, <2>4, <2>5, <2>6, SameLifeFrame
<1>4. CASE StartOver
  <2>1. PICK id \in SessionIds, ceiling \in Ceilings, unit \in Proposals :
            session' = SetUp(revision + 2, id, ceiling, unit) /\ grants' = NoGrants
    BY <1>4 DEF StartOver
  <2>2. /\ DOMAIN session' = DOMAIN CreateSession(None, 0)
        /\ session'.assistance = NoAssistance
    BY <2>1 DEF SetUp, CreateSession
  <2>3. ~Reveals'
    BY <2>2 DEF Reveals, NoAssistance
  <2> QED
    BY <2>1, <2>2, <2>3, ResetFrame
<1> QED
  BY <1>1, <1>2, <1>3, <1>4 DEF Elsewhere

-----------------------------------------------------------------------------
OnlyMoves(t) == \A u \in Turns \ {t} : turns'[u] = turns[u]

LEMMA OthersStayEntitled ==
  ASSUME RevealInv, GrantsStay, NEW u \in Turns, turns'[u] = turns[u],
         confirmed \subseteq confirmed', issued' \in Nat, issued <= issued'
  PROVE  Entitled(u)'
<1>1. Entitled(u) /\ issued \in Nat /\ GrantIds \subseteq Nat
  BY TurnAssumption DEF RevealInv
<1>2. turns[u].step = "invoke" => turns[u].id <= issued'
  <2> SUFFICES ASSUME turns[u].step = "invoke"
               PROVE  turns[u].id <= issued'
    OBVIOUS
  <2>1. turns[u].id \in Nat /\ turns[u].id <= issued
    BY <1>1 DEF Entitled
  <2> QED
    BY <1>1, <2>1
<1>3. ( /\ turns[u].step = "invoke" /\ turns[u].tool = "reveal_solution"
        /\ grants'[turns[u].id] # None )
          => LifeOf(session)' = LifeOf(turns[u].intent)
  BY <1>1 DEF Entitled, GrantsStay
<1> QED
  BY <1>1, <1>2, <1>3 DEF Entitled, LifeOf

LEMMA NoRevealAppears ==
  ASSUME RevealInv, RevealsStay, confirmed \subseteq confirmed'
  PROVE  RevealsAreConfirmed'
<1> SUFFICES ASSUME Reveals'
             PROVE  \E intent \in confirmed' :
                      /\ intent.sessionId = session'.sessionId
                      /\ intent.startedAtRevision = session'.startedAtRevision
  BY DEF RevealsAreConfirmed, Reveals
<1>1. Reveals /\ LifeOf(session)' = LifeOf(session)
  BY DEF RevealsStay
<1>2. /\ session'.sessionId = session.sessionId
      /\ session'.startedAtRevision = session.startedAtRevision
  BY <1>1 DEF LifeOf
<1> QED
  BY <1>1, <1>2 DEF RevealInv, RevealsAreConfirmed, Reveals

(* A turn takes a step to a place where it may not reveal.                 *)
LEMMA PlainStep ==
  ASSUME RevealInv, TurnInv', NEW t \in Turns, OnlyMoves(t), Frame,
         turns'[t].step \notin {"consent dialog", "grant", "invoke"},
         confirmed \subseteq confirmed', issued' \in Nat, issued <= issued'
  PROVE  RevealInv'
<1>1. Entitled(t)'
  BY DEF Entitled
<1>2. \A u \in Turns : Entitled(u)'
  BY <1>1, OthersStayEntitled DEF Frame, OnlyMoves
<1> QED
  BY <1>2, NoRevealAppears DEF RevealInv, Frame

LEMMA EntitledStep ==
  ASSUME RevealInv, TurnInv', NEW t \in Turns, OnlyMoves(t), Frame, Entitled(t)',
         confirmed \subseteq confirmed', issued' \in Nat, issued <= issued'
  PROVE  RevealInv'
<1>1. \A u \in Turns : Entitled(u)'
  BY OthersStayEntitled DEF Frame, OnlyMoves
<1> QED
  BY <1>1, NoRevealAppears DEF RevealInv, Frame

LEMMA AsksAndDialogsAreEntitled ==
  ASSUME RevealInv, TurnInv', NEW t \in Turns, Asks(t) \/ AnswerDialog(t)
  PROVE  RevealInv'
<1>0. /\ DOMAIN turns = Turns /\ DOMAIN turns[t] = DOMAIN Idle /\ Entitled(t)
      /\ Shaped /\ issued \in Nat
  BY DEF RevealInv, TurnInv, Sound
<1>1. UNCHANGED <<session, grants, issued>> /\ OnlyMoves(t) /\ confirmed \subseteq confirmed'
  BY <1>0 DEF Asks, AskModel, AskAction, Cancel, AnswerDialog, RevealAnswered,
       ConsentAnswered, vars, history, OnlyMoves, Ends, To
<1>2. Frame
  BY <1>0, <1>1, UnchangedFrame
<1>3. Entitled(t)'
  <2>1. ASSUME NEW route \in Routes \ {"check", "attempt"}, NEW model \in Models,
               AskModel(t, route, model)
        PROVE  Entitled(t)'
    <3> DEFINE turn == [Request(route, model) EXCEPT !.intent = CurrentIntent]
    <3>1. DOMAIN turn = DOMAIN Idle /\ turn.route = route
      BY DEF Request, Idle
    <3>2. turns'[t] = IF route = "reveal" THEN [turn EXCEPT !.step = "reveal dialog"]
                                          ELSE Gathers(turn)
      BY <1>0, <2>1 DEF AskModel
    <3> HIDE DEF turn
    <3>3. CASE route = "reveal"
      BY <3>1, <3>2, <3>3 DEF Entitled, Idle
    <3>4. CASE route # "reveal"
      <4>1. /\ turns'[t].route = route
            /\ turns'[t].step \in {"consent dialog", "grant", "prepare"}
        BY <3>1, <3>2, <3>4 DEF Gathers, AfterSharing, Idle
      <4> QED
        BY <3>4, <4>1 DEF Entitled
    <3> QED
      BY <3>3, <3>4
  <2>2. ASSUME NEW route \in {"check", "attempt"}, AskAction(t, route)
        PROVE  Entitled(t)'
    <3>1. turns'[t] = [Request(route, None) EXCEPT !.step = "grant"]
      BY <1>0, <2>2 DEF AskAction
    <3> QED
      BY <3>1 DEF Entitled, Request, Idle
  <2>3. CASE Cancel(t)
    <3>1. turns'[t] = [turns[t] EXCEPT !.aborted = TRUE] /\ UNCHANGED confirmed
      BY <1>0, <2>3 DEF Cancel, history
    <3> QED
      BY <1>0, <1>1, <3>1 DEF Entitled, Idle, LifeOf
  <2>4. ASSUME NEW accepts \in BOOLEAN, RevealAnswered(t, accepts)
        PROVE  Entitled(t)'
    <3>1. CASE accepts /\ IsCurrent(t)
      <4>1. /\ turns'[t] = Gathers(turns[t])
            /\ confirmed' = confirmed \cup {turns[t].intent}
        BY <1>0, <2>4, <3>1 DEF RevealAnswered
      <4>2. turns'[t].intent = turns[t].intent /\ turns'[t].step # "invoke"
        BY <1>0, <4>1 DEF Gathers, AfterSharing, Idle
      <4> QED
        BY <4>1, <4>2 DEF Entitled
    <3>2. CASE ~(accepts /\ IsCurrent(t))
      <4>1. turns'[t] = Ended
        BY <1>0, <2>4, <3>2 DEF RevealAnswered, Ends
      <4> QED
        BY <4>1 DEF Entitled, Ended, Idle
    <3> QED
      BY <3>1, <3>2
  <2>5. ASSUME NEW accepts \in BOOLEAN, ConsentAnswered(t, accepts)
        PROVE  Entitled(t)'
    <3>1. turns[t].step = "consent dialog" /\ UNCHANGED confirmed
      BY <2>5 DEF ConsentAnswered
    <3>2. CASE accepts /\ IsCurrent(t)
      <4>1. turns'[t] = [turns[t] EXCEPT !.step = AfterSharing(turns[t].route)]
        BY <1>0, <2>5, <3>2 DEF ConsentAnswered, To
      <4>2. /\ turns'[t].route = turns[t].route /\ turns'[t].intent = turns[t].intent
            /\ turns'[t].step # "invoke"
        BY <1>0, <4>1 DEF AfterSharing, Idle
      <4> QED
        BY <1>0, <3>1, <4>2 DEF Entitled
    <3>3. CASE ~(accepts /\ IsCurrent(t))
      <4>1. turns'[t] = Ended
        BY <1>0, <2>5, <3>3 DEF ConsentAnswered, Ends
      <4> QED
        BY <4>1 DEF Entitled, Ended, Idle
    <3> QED
      BY <3>2, <3>3
  <2> QED
    BY <2>1, <2>2, <2>3, <2>4, <2>5 DEF Asks, AnswerDialog
<1> QED
  BY <1>0, <1>1, <1>2, <1>3, EntitledStep

LEMMA GrantsAreEntitled ==
  ASSUME RevealInv, TurnInv', NEW t \in Turns, GrantFor(t)
  PROVE  RevealInv'
<1>0. /\ DOMAIN turns = Turns /\ DOMAIN turns[t] = DOMAIN Idle /\ Entitled(t)
      /\ Shaped /\ issued \in Nat /\ GrantIds \subseteq Nat
  BY TurnAssumption DEF RevealInv, TurnInv, Sound
<1>1. ASSUME NEW tool, NEW level, TakeGrant(t, tool, level),
             tool = "reveal_solution" => turns[t].route = "reveal" /\ IsCurrent(t)
      PROVE  RevealInv'
  <2>1. /\ turns[t].step = "grant" /\ issued' = issued + 1 /\ NextId \in GrantIds
        /\ GrantUserAction("human", NextId, tool) /\ UNCHANGED confirmed
        /\ turns' = [turns EXCEPT ![t] = [turns[t] EXCEPT
                !.step = "invoke", !.id = NextId, !.tool = tool, !.level = level]]
    BY <1>1 DEF TakeGrant, NextId, history
  <2>2. /\ OnlyMoves(t)
        /\ turns'[t].step = "invoke" /\ turns'[t].id = NextId /\ turns'[t].tool = tool
        /\ turns'[t].route = turns[t].route /\ turns'[t].intent = turns[t].intent
    BY <1>0, <2>1 DEF OnlyMoves, Idle
  <2>3. /\ UNCHANGED session /\ DOMAIN grants' = GrantIds
        /\ \A id \in GrantIds : id # NextId => grants'[id] = grants[id]
    BY <1>0, <2>1 DEF GrantUserAction, UserActionGranted, Shaped
  <2>4. \A id \in GrantIds : id <= issued => id # NextId
    BY <1>0 DEF NextId
  <2>5. Frame
    BY <1>0, <2>3, <2>4
       DEF Frame, Shaped, GrantsStay, RevealsStay, Reveals, LifeOf, CreateSession, NoAssistance
  <2>6. NextId <= issued' /\ issued' \in Nat /\ issued <= issued'
    BY <1>0, <2>1 DEF NextId
  <2>7. tool = "reveal_solution" => LifeOf(session)' = LifeOf(turns'[t].intent)
    <3> SUFFICES ASSUME tool = "reveal_solution"
                 PROVE  LifeOf(session)' = LifeOf(turns[t].intent)
      BY <2>2
    <3>1. turns[t].intent = CurrentIntent
      BY <1>1 DEF IsCurrent, IsIntentCurrent
    <3> QED
      BY <2>3, <3>1 DEF CurrentIntent, LifeOf
  <2>8. turns[t].route = "reveal" => turns[t].intent \in confirmed
    BY <1>0, <2>1 DEF Entitled
  <2>9. Entitled(t)'
    <3>1. turns'[t].route = "reveal" => turns'[t].intent \in confirmed'
      BY <2>1, <2>2, <2>8
    <3>2. turns'[t].id \in GrantIds /\ turns'[t].id <= issued'
      BY <2>1, <2>2, <2>6
    <3>3. turns'[t].tool = "reveal_solution" =>
              /\ turns'[t].route = "reveal"
              /\ LifeOf(session)' = LifeOf(turns'[t].intent)
      BY <1>1, <2>2, <2>7
    <3> QED
      BY <3>1, <3>2, <3>3 DEF Entitled, LifeOf
  <2> QED
    BY <2>1, <2>2, <2>5, <2>6, <2>9, EntitledStep
<1> QED
  BY <1>1 DEF GrantFor

LEMMA InvokesAreEntitled ==
  ASSUME RevealInv, TurnInv', NEW t \in Turns, Invoke(t)
  PROVE  RevealInv'
<1>0. /\ DOMAIN turns = Turns /\ DOMAIN turns[t] = DOMAIN Idle /\ Entitled(t)
      /\ Shaped /\ issued \in Nat /\ GrantIds \subseteq Nat
  BY TurnAssumption DEF RevealInv, TurnInv, Sound
<1>1. /\ turns[t].step = "invoke" /\ UNCHANGED confirmed
      /\ turns[t].id \in GrantIds /\ confirmed \subseteq confirmed'
  BY <1>0 DEF Invoke, history, Entitled
<1>2. OnlyMoves(t)
  BY <1>0 DEF Invoke, Ends, OnlyMoves
<1>7. UNCHANGED issued => issued' \in Nat /\ issued <= issued'
  BY <1>0
<1> DEFINE id == turns[t].id
           unitId == session.workUnit.id
<1>3. CASE /\ turns[t].tool = "reveal_solution"
           /\ AuthorizeSolutionReveal("ai", id, unitId, TRUE)
           /\ turns' = [turns EXCEPT ![t].step = "grant", ![t].id = None,
                                     ![t].revision = revision',
                                     ![t].epoch = session.authorityEpoch]
           /\ UNCHANGED issued
  <2>1. /\ turns'[t].step = "grant" /\ turns'[t].intent = turns[t].intent
    BY <1>0, <1>3 DEF Idle
  <2>2. Shaped' /\ GrantsStay /\ grants[id] # None /\ LifeOf(session)' = LifeOf(session)
    BY <1>0, <1>1, <1>3, RevealStep
  <2>3. turns[t].intent \in confirmed /\ LifeOf(session) = LifeOf(turns[t].intent)
    BY <1>0, <1>1, <1>3, <2>2 DEF Entitled
  <2>4. Entitled(t)'
    BY <1>1, <2>1, <2>3 DEF Entitled
  <2>5. \A u \in Turns : Entitled(u)'
    BY <1>0, <1>1, <1>2, <1>3, <2>2, <2>4, OthersStayEntitled DEF OnlyMoves
  <2>6. /\ turns[t].intent \in confirmed'
        /\ turns[t].intent.sessionId = session'.sessionId
        /\ turns[t].intent.startedAtRevision = session'.startedAtRevision
    BY <1>1, <2>2, <2>3 DEF LifeOf
  <2>7. RevealsAreConfirmed'
    BY <2>6 DEF RevealsAreConfirmed
  <2> QED
    BY <1>0, <1>3, <2>2, <2>5, <2>7 DEF RevealInv
<1>4. CASE /\ RequestHint("ai", id, unitId, turns[t].level)
           /\ turns' = [turns EXCEPT ![t].step = "prepare", ![t].route = "chat",
                                     ![t].id = None, ![t].tool = None, ![t].level = 0]
           /\ UNCHANGED issued
  <2>1. turns'[t].step \notin {"consent dialog", "grant", "invoke"}
    BY <1>0, <1>4 DEF Idle
  <2>2. Frame
    BY <1>0, <1>1, <1>4, HintFrame
  <2> QED
    BY <1>1, <1>2, <1>4, <1>7, <2>1, <2>2, PlainStep
<1>5. CASE RecordAttempt("ai", id, unitId) /\ Ends(t) /\ UNCHANGED issued
  <2>1. turns'[t].step \notin {"consent dialog", "grant", "invoke"}
    BY <1>0, <1>5 DEF Ends, Ended, Idle
  <2>2. Frame
    BY <1>0, <1>1, <1>5, AttemptFrame
  <2> QED
    BY <1>1, <1>2, <1>5, <1>7, <2>1, <2>2, PlainStep
<1>6. CASE /\ AuthorizeOperation(NextId, "run_verification", id)
           /\ issued' = NextId
           /\ turns' = [turns EXCEPT ![t].step = "effect", ![t].id = NextId,
                                     ![t].intent = Identity,
                                     ![t].epoch = session.authorityEpoch]
  <2>1. turns'[t].step \notin {"consent dialog", "grant", "invoke"}
    BY <1>0, <1>6 DEF Idle
  <2>2. Frame
    BY <1>0, <1>1, <1>6, AuthorizeFrame
  <2>3. issued' \in Nat /\ issued <= issued'
    BY <1>0, <1>6 DEF NextId
  <2> QED
    BY <1>1, <1>2, <2>1, <2>2, <2>3, PlainStep
<1> QED
  BY <1>3, <1>4, <1>5, <1>6 DEF Invoke

LEMMA ContinueIsEntitled ==
  ASSUME RevealInv, TurnInv', NEW t \in Turns, Continue(t), ~GrantFor(t), ~Invoke(t)
  PROVE  RevealInv'
<1>0. /\ DOMAIN turns = Turns /\ DOMAIN turns[t] = DOMAIN Idle
      /\ Shaped /\ issued \in Nat
  BY DEF RevealInv, TurnInv, Sound
<1>1. CASE Prepare(t) \/ CallModel(t) \/ Send(t) \/ Answers(t) \/ ReportCheck(t)
           \/ Publish(t) \/ StartTransfer(t) \/ Fail(t)
  <2>1. UNCHANGED <<session, grants, issued, confirmed>>
    BY <1>1 DEF Prepare, CallModel, Send, Answers, ReportCheck, Publish, StartTransfer,
         Fail, vars, history
  <2>2. OnlyMoves(t)
    BY <1>0, <1>1 DEF Prepare, CallModel, Send, Answers, ReportCheck, Publish,
         StartTransfer, Fail, Ends, To, OnlyMoves
  <2>3. turns'[t].step \notin {"consent dialog", "grant", "invoke"}
    <3>1. CASE Prepare(t) \/ CallModel(t)
      <4>1. CASE Prepare(t)
        <5>1. turns'[t] = [turns[t] EXCEPT !.step = "call", !.told = Told,
                              !.revision = revision, !.epoch = session.authorityEpoch]
          BY <1>0, <4>1 DEF Prepare
        <5> QED
          BY <1>0, <5>1 DEF Idle
      <4>2. CASE CallModel(t)
        <5>1. turns'[t] = [turns[t] EXCEPT !.step = "count", !.calls = @ + 1]
          BY <1>0, <4>2 DEF CallModel
        <5> QED
          BY <1>0, <5>1 DEF Idle
      <4> QED
        BY <3>1, <4>1, <4>2
    <3>2. CASE Send(t) \/ To(t, "read")
      BY <1>0, <3>2 DEF Send, Idle, To
    <3>3. ASSUME NEW response,
                 turns' = [turns EXCEPT ![t].step = "publish", ![t].response = response]
          PROVE  turns'[t].step = "publish"
      BY <1>0, <3>3 DEF Idle
    <3>4. CASE ReportCheck(t) \/ Publish(t) \/ StartTransfer(t) \/ Fail(t)
      BY <1>0, <3>4 DEF ReportCheck, Publish, StartTransfer, Fail, Ends, Ended, Idle, To
    <3> QED
      BY <1>1, <3>1, <3>2, <3>3, <3>4 DEF Answers
  <2>4. Frame
    BY <1>0, <2>1, UnchangedFrame
  <2>5. confirmed \subseteq confirmed' /\ issued' \in Nat /\ issued <= issued'
    BY <1>0, <2>1
  <2> QED
    BY <2>2, <2>3, <2>4, <2>5, PlainStep
<1>2. CASE Read(t)
  <2>1. /\ AuthorizeOperation(NextId, "read_scope", None)
        /\ issued' = issued + 1 /\ UNCHANGED confirmed
    BY <1>2 DEF Read, NextId, history
  <2>2. OnlyMoves(t) /\ turns'[t].step \notin {"consent dialog", "grant", "invoke"}
    BY <1>0, <1>2 DEF Read, OnlyMoves, Idle
  <2>3. Frame
    BY <1>0, <2>1, AuthorizeFrame
  <2>4. confirmed \subseteq confirmed' /\ issued' \in Nat /\ issued <= issued'
    BY <1>0, <2>1
  <2> QED
    BY <2>2, <2>3, <2>4, PlainStep
<1>3. ASSUME NEW status, EffectEnds(t, status)
      PROVE  RevealInv'
  <2>1. UNCHANGED <<issued, confirmed>> /\ OnlyMoves(t)
    BY <1>0, <1>3 DEF EffectEnds, Ends, OnlyMoves, history
  <2>2. turns'[t].step \notin {"consent dialog", "grant", "invoke"}
    <3>1. CASE Ends(t)
      BY <1>0, <3>1 DEF Ends, Ended, Idle
    <3>2. CASE ~Ends(t)
      <4>1. turns'[t] = [turns[t] EXCEPT
                !.step = IF turns[t].route = "check" THEN "report" ELSE "call",
                !.revision = revision',
                !.id = IF turns[t].route = "check" THEN @ ELSE None]
        BY <1>0, <1>3, <3>2 DEF EffectEnds
      <4> QED
        BY <1>0, <4>1 DEF Idle
    <3> QED
      BY <3>1, <3>2
  <2>3. Frame
    BY <1>0, <1>3, ObserveFrame, UnchangedFrame DEF EffectEnds, vars
  <2>4. confirmed \subseteq confirmed' /\ issued' \in Nat /\ issued <= issued'
    BY <1>0, <2>1
  <2> QED
    BY <2>1, <2>2, <2>3, <2>4, PlainStep
<1> QED
  BY <1>1, <1>2, <1>3 DEF Continue

LEMMA RevealInitially ==
  ASSUME TurnInit
  PROVE  RevealInv
<1>1. TurnInv /\ issued \in Nat
  BY TurnInitially DEF TurnInit
<1>2. \A t \in Turns : Entitled(t)
  BY DEF TurnInit, Entitled, Idle
<1>3. PICK id \in SessionIds, ceiling \in Ceilings, unit \in Proposals :
          session = SetUp(1, id, ceiling, unit)
  BY DEF TurnInit
<1>4. /\ DOMAIN session = DOMAIN CreateSession(None, 0)
      /\ session.assistance = NoAssistance
  BY <1>3 DEF SetUp, CreateSession
<1>5. DOMAIN grants = GrantIds
  BY DEF TurnInit, NoGrants
<1>6. RevealsAreConfirmed
  BY <1>4 DEF RevealsAreConfirmed, NoAssistance
<1> QED
  BY <1>1, <1>2, <1>4, <1>5, <1>6 DEF RevealInv, Shaped

LEMMA RevealStepKeeps ==
  ASSUME RevealInv, [TurnNext]_all
  PROVE  RevealInv'
<1>0. TurnInv' /\ Shaped /\ issued \in Nat
  BY TurnStepKeeps DEF RevealInv
<1>1. CASE Elsewhere
  <2>1. UNCHANGED <<turns, issued, confirmed>>
    BY <1>1 DEF Elsewhere, participant, history
  <2>2. Frame
    BY <1>0, <1>1, ElsewhereFrame
  <2>3. \A u \in Turns : Entitled(u)'
    BY <1>0, <2>1, <2>2, OthersStayEntitled DEF Frame
  <2> QED
    BY <1>0, <2>1, <2>2, <2>3, NoRevealAppears DEF RevealInv, Frame
<1>2. CASE UNCHANGED all
  BY <1>0, <1>2 DEF all, vars, participant, history, RevealInv, Shaped, Entitled, LifeOf,
       RevealsAreConfirmed, CreateSession, NoAssistance
<1>3. CASE \E t \in Turns : Asks(t) \/ AnswerDialog(t) \/ Continue(t)
  BY <1>0, <1>3, AsksAndDialogsAreEntitled, GrantsAreEntitled, InvokesAreEntitled,
     ContinueIsEntitled
<1> QED
  BY <1>1, <1>2, <1>3 DEF TurnNext

(* A reveal on record was confirmed by the developer in that very life of  *)
(* the session, however long a dialog or a grant was under way.            *)
THEOREM RevealsConfirmed == TurnSpec => []RevealsAreConfirmed
<1>1. TurnInit => RevealInv
  BY RevealInitially
<1>2. RevealInv /\ [TurnNext]_all => RevealInv'
  BY RevealStepKeeps
<1>3. RevealInv => RevealsAreConfirmed
  BY DEF RevealInv
<1> QED
  BY <1>1, <1>2, <1>3, PTL DEF TurnSpec
-----------------------------------------------------------------------------
(* Answers and checks.  A turn that took no read stands at the revision it *)
(* was compiled at, and every commit leaves that revision behind: as long  *)
(* as the revision is the turn's own, what it told its model holds.  A     *)
(* check's operation has an identifier of its own and, once it is settled, *)
(* stays as it is for the rest of the session's life.                      *)

Settled(id) == operations[id] # None /\ operations[id].status \in TerminalStatuses

(* A session is told from those before it by where it started.             *)
IsLife(startedAt) == session # None /\ session.startedAtRevision = startedAt

Numbered(turn) ==
    turn.calls \in Nat /\ turn.revision \in Nat /\ turn.level \in 0..5

(* A turn that has gone to its model counts that; an effect of such a turn *)
(* is a read.                                                              *)
HasCalled(turn) ==
    \/ turn.step \in {"count", "sent", "read", "publish"}
    \/ turn.step = "effect" /\ turn.route # "check"

(* Nothing was read since the turn was compiled.                           *)
AsCompiled(turn) ==
    \/ turn.step = "call" /\ turn.calls = 0
    \/ turn.step \in {"count", "sent", "publish"} /\ turn.calls = 1

ToldFits(turn) ==
    AsCompiled(turn) =>
        /\ turn.revision <= revision
        /\ turn.revision = revision => turn.told = Told

CheckFits(turn) ==
    /\ turn.step \in {"effect", "report"} =>
           /\ turn.id \in OperationIds /\ turn.id <= issued
           /\ turn.route = "check" /\ operations[turn.id] # None
                  => operations[turn.id].toolName = "run_verification"
    /\ turn.step = "report" =>
           /\ turn.route = "check"
           /\ turn.revision <= revision
           /\ turn.revision = revision => Settled(turn.id)

Fits(t) ==
    /\ Numbered(turns[t])
    /\ HasCalled(turns[t]) => turns[t].calls > 0
    /\ ToldFits(turns[t])
    /\ turns[t].step = "publish" => turns[t].response \in Responses
    /\ CheckFits(turns[t])

LastCheckFits ==
    lastCheck # None =>
        /\ lastCheck.id \in OperationIds /\ lastCheck.id <= issued
        /\ lastCheck.of.startedAtRevision \in Nat
        /\ lastCheck.of.startedAtRevision <= revision
        /\ IsLife(lastCheck.of.startedAtRevision) =>
               /\ Settled(lastCheck.id)
               /\ operations[lastCheck.id].toolName = "run_verification"
               /\ operations[lastCheck.id].status = lastCheck.status

(* Nothing is of the future: neither the session nor an operation.         *)
SoFar ==
    /\ session # None => session.startedAtRevision <= revision
    /\ \A id \in OperationIds : operations[id] # None => id <= issued

MomentInv ==
    /\ TypeOK
    /\ SoFar
    /\ \A t \in Turns : Fits(t)
    /\ LastCheckFits

-----------------------------------------------------------------------------
(* What commands do to the revision, to the life of the session and to     *)
(* what is settled.                                                        *)

Moves ==
    \/ UNCHANGED vars
    \/ revision' \in Nat /\ revision < revision'

GoesOn ==
    /\ session # None /\ session'.startedAtRevision = session.startedAtRevision
    /\ \A id \in OperationIds : Settled(id) => operations'[id] = operations[id]

Begins ==
    revision < session'.startedAtRevision /\ session'.startedAtRevision <= revision'

(* An operation appears only under an identifier that is given out now.    *)
Appears ==
    \A id \in OperationIds : operations'[id] # None =>
        \/ operations[id] # None /\ operations'[id].toolName = operations[id].toolName
        \/ issued < id /\ id <= issued'

Steady ==
    /\ TypeOK' /\ Moves /\ Appears
    /\ session' # None => GoesOn \/ Begins

LEMMA CommitMoves ==
  ASSUME TypeOK, NEW n \in Nat, n > 0, Commit(n)
  PROVE  Moves
BY BoundAssumption DEF TypeOK, Commit, Moves

LEMMA EventsMove ==
  ASSUME TypeOK, NEW grantId, Commit(Events(grantId))
  PROVE  Moves
<1>1. Events(grantId) \in Nat /\ Events(grantId) > 0
  BY DEF Events
<1> QED
  BY <1>1, CommitMoves

LEMMA NothingIsSteady ==
  ASSUME TypeOK, UNCHANGED vars
  PROVE  Steady
<1>1. TypeOK'
  BY DEF TypeOK, vars
<1> QED
  BY <1>1 DEF vars, Steady, Moves, Appears, GoesOn

(* A command of the session's that has no operation to do with.            *)
LEMMA OperationsStay ==
  ASSUME TypeOK', Moves, UNCHANGED operations,
         session' # None =>
             session # None /\ session'.startedAtRevision = session.startedAtRevision
  PROVE  Steady
BY DEF Steady, Appears, GoesOn

LEMMA OperationsGo ==
  ASSUME TypeOK', Moves, operations' = NoOperations, session' = None \/ Begins
  PROVE  Steady
BY DEF Steady, Appears, NoOperations

LEMMA GrantIsSteady ==
  ASSUME TypeOK, NEW id \in GrantIds, NEW tool \in GrantTools,
         GrantUserAction("human", id, tool)
  PROVE  Steady
<1>1. TypeOK'
  BY GrantTypeStep
<1>2. Moves
  BY CommitMoves DEF GrantUserAction
<1>3. UNCHANGED <<session, operations>>
  BY DEF GrantUserAction, UserActionGranted
<1> QED
  BY <1>1, <1>2, <1>3, OperationsStay

(* A hint may be of any level.                                             *)
LEMMA AssistIsSteady ==
  ASSUME TypeOK, NEW id \in GrantIds, NEW unitId, NEW level \in 0..5,
         \/ RecordAttempt("ai", id, unitId)
         \/ RequestHint("ai", id, unitId, level)
         \/ AuthorizeSolutionReveal("ai", id, unitId, TRUE)
  PROVE  Steady
<1>1. /\ Working
      /\ \E tool : HumanAction("ai", id, tool)
      /\ Commit(Events(id))
  BY DEF RecordAttempt, RequestHint, AuthorizeSolutionReveal
<1>2. /\ session \in Session /\ grants' \in GrantFunctions
      /\ revision' \in 0..MaxRevision
  BY <1>1, StatusMeansSession, HumanActionType, CommitType, EventsType DEF Working
<1>3. CurrentAssistance \in Assistance
  BY <1>2, AssistanceType
<1>4. \E assistance \in Assistance : Assist(assistance)
  <2>1. CASE RecordAttempt("ai", id, unitId)
    <3>1. [CurrentAssistance EXCEPT !.attempt = TRUE] \in Assistance
      BY <1>3 DEF Assistance
    <3> QED
      BY <2>1, <3>1 DEF RecordAttempt, AttemptRecorded
  <2>2. CASE RequestHint("ai", id, unitId, level)
    <3>1. [CurrentAssistance EXCEPT !.hint = IF level > @ THEN level ELSE @] \in Assistance
      BY <1>3 DEF Assistance
    <3> QED
      BY <2>2, <3>1 DEF RequestHint, HintRequested
  <2>3. CASE AuthorizeSolutionReveal("ai", id, unitId, TRUE)
    <3>1. [CurrentAssistance EXCEPT !.reveal = TRUE] \in Assistance
      BY <1>3 DEF Assistance
    <3> QED
      BY <2>3, <3>1 DEF AuthorizeSolutionReveal, SolutionRevealAuthorized
  <2> QED
    BY <2>1, <2>2, <2>3
<1>5. session' \in Session /\ UNCHANGED <<presence, operations>>
  BY <1>2, <1>4, AssistType
<1>6. TypeOK'
  BY <1>2, <1>5 DEF TypeOK, GrantFunctions
<1>7. session # None /\ session'.startedAtRevision = session.startedAtRevision
  BY <1>1, <1>2, <1>4 DEF Assist, Session, Working, InStatus
<1> QED
  BY <1>1, <1>5, <1>6, <1>7, EventsMove, OperationsStay

LEMMA AuthorizeIsSteady ==
  ASSUME TypeOK, NEW id \in OperationIds, NEW tool \in OperationTools,
         NEW grantId \in GrantIds \cup {None}, AuthorizeOperation(id, tool, grantId),
         issued < id, id <= issued'
  PROVE  Steady /\ operations'[id].toolName = tool
<1>1. TypeOK'
  BY OperationTypeStep DEF OperationCommand
<1>2. Moves
  BY EventsMove DEF AuthorizeOperation
<1>3. /\ session # None /\ UNCHANGED session /\ operations[id] = None
      /\ OperationAuthorized(id, tool, grantId)
  BY DEF AuthorizeOperation, OperationAuthorized, Operational, InStatus
<1>4. /\ \A other \in OperationIds : other # id => operations'[other] = operations[other]
      /\ operations'[id].toolName = tool
  BY <1>3 DEF OperationAuthorized, TypeOK
<1>5. Appears
  BY <1>4 DEF Appears
<1>6. GoesOn
  BY <1>3, <1>4 DEF GoesOn, Settled
<1> QED
  BY <1>1, <1>2, <1>4, <1>5, <1>6 DEF Steady

LEMMA ObserveIsSteady ==
  ASSUME TypeOK, NEW id \in OperationIds, NEW epoch, NEW status \in TerminalStatuses,
         ObserveOperationResult(id, epoch, status)
  PROVE  /\ Steady
         /\ Settled(id)' /\ operations[id] # None
         /\ operations'[id].toolName = operations[id].toolName
<1>1. /\ revision' \in 0..MaxRevision /\ OperationObserved(id, status)
      /\ session # None /\ IsOpen(id) /\ operations[id] \in Operation
  BY CommitType DEF ObserveOperationResult, IsOpen, TypeOK
<1> DEFINE settled == [operations[id] EXCEPT !.status = status]
<1>2. /\ settled \in Operation /\ settled.status = status
      /\ settled.toolName = operations[id].toolName
  BY <1>1 DEF Operation
<1>3. operations' = [operations EXCEPT ![id] = settled]
  BY <1>1 DEF OperationObserved
<1> HIDE DEF settled
<1>4. /\ operations'[id] = settled
      /\ \A other \in OperationIds : other # id => operations'[other] = operations[other]
      /\ operations' \in [OperationIds -> Operation \cup {None}]
  BY <1>2, <1>3 DEF TypeOK
<1>5. TypeOK' /\ UNCHANGED session
  BY <1>1, <1>4 DEF TypeOK, OperationObserved
<1>6. Moves
  BY CommitMoves DEF ObserveOperationResult
<1>7. operations[id] # None /\ operations'[id].toolName = operations[id].toolName
  BY <1>1, <1>2, <1>4 DEF IsOpen
<1>8. Appears
  BY <1>4, <1>7 DEF Appears
<1>9. GoesOn
  BY <1>1, <1>4, <1>5 DEF GoesOn, Settled, IsOpen
<1>10. Settled(id)'
  BY <1>2, <1>4, NoneAssumption DEF Settled
<1> QED
  BY <1>5, <1>6, <1>7, <1>8, <1>9, <1>10 DEF Steady

LEMMA PauseIsSteady ==
  ASSUME TypeOK, PauseSession
  PROVE  Steady
<1>1. TypeOK' /\ session \in Session /\ session' \in Session /\ session # None
  BY PauseTypeStep, StatusMeansSession DEF PauseSession, Pausable, InStatus
<1>2. Moves
  BY OpenOperationsCount, CommitMoves DEF PauseSession
<1>3. session'.startedAtRevision = session.startedAtRevision
  BY <1>1 DEF PauseSession, SessionPaused, Session
<1>4. \A id \in OperationIds :
        operations'[id] = IF IsOpen(id) THEN [operations[id] EXCEPT !.status = "cancelled"]
                                        ELSE operations[id]
  BY DEF PauseSession, OpenOperationsCancelled
<1>5. ASSUME NEW id \in OperationIds, operations'[id] # None
      PROVE  operations[id] # None /\ operations'[id].toolName = operations[id].toolName
  <2>1. CASE IsOpen(id)
    <3>1. operations[id] \in Operation
      BY <2>1 DEF IsOpen, TypeOK
    <3> QED
      BY <1>4, <2>1, <3>1 DEF IsOpen, Operation
  <2>2. CASE ~IsOpen(id)
    BY <1>4, <1>5, <2>2
  <2> QED
    BY <2>1, <2>2
<1>6. \A id \in OperationIds : Settled(id) => operations'[id] = operations[id]
  BY <1>4 DEF Settled, IsOpen
<1> QED
  BY <1>1, <1>2, <1>3, <1>5, <1>6 DEF Steady, Appears, GoesOn

LEMMA SetUpType ==
  ASSUME NEW startedAt \in Nat, NEW id \in SessionIds, NEW ceiling \in Ceilings,
         NEW unit \in Proposals
  PROVE  SetUp(startedAt, id, ceiling, unit) \in Session
<1>1. /\ CreateSession(id, startedAt) \in Session
      /\ unit \in WorkUnit /\ ceiling \in 0..5
  BY CreatedType, ProposalAssumption, LevelAssumption
<1>2. [unit EXCEPT !.status = "agreed"] \in WorkUnit
  BY <1>1 DEF WorkUnit, WorkUnitStatuses
<1>3. [dirty |-> {}, protected |-> {}] \in Entry /\ NoAssistance \in Assistance
  BY DEF Entry, NoAssistance, Assistance
<1> QED
  BY <1>1, <1>2, <1>3 DEF SetUp, Session, SessionStatuses, Modes

(* Another session starts after everything there was.                      *)
LEMMA StartOverIsSteady ==
  ASSUME TypeOK, StartOver
  PROVE  Steady
<1>1. PICK id \in SessionIds, ceiling \in Ceilings, unit \in Proposals :
        /\ Commit(3)
        /\ session' = SetUp(revision + 2, id, ceiling, unit)
        /\ presence' = [CreatePresence(presence.workspaceId) EXCEPT
                            !.status = "engaged", !.activeSessionId = id]
        /\ operations' = NoOperations /\ grants' = NoGrants
  BY DEF StartOver
<1>2. revision' \in 0..MaxRevision /\ Moves /\ revision \in Nat /\ revision' = revision + 3
  BY <1>1, CommitType, CommitMoves DEF Commit, TypeOK
<1>3. SetUp(revision + 2, id, ceiling, unit) \in Session
  BY <1>2, SetUpType
<1>4. presence' \in Presence
  BY <1>1, CreatedType DEF TypeOK, Presence, PresenceStatuses
<1>5. TypeOK'
  BY <1>1, <1>2, <1>3, <1>4, NoFunctionsType DEF TypeOK, OperationFunctions, GrantFunctions
<1>6. session'.startedAtRevision = revision + 2
  BY <1>1 DEF SetUp, CreateSession
<1>7. Begins
  BY <1>2, <1>6 DEF Begins
<1> QED
  BY <1>1, <1>2, <1>5, <1>7, OperationsGo

LEMMA ElsewhereIsSteady ==
  ASSUME TypeOK, Elsewhere
  PROVE  Steady
<1>1. CASE ObserveWorkspace("host")
  <2>1. TypeOK'
    BY <1>1, PresenceTypeStep DEF PresenceCommand, Actors
  <2>2. Moves
    BY <1>1, CommitMoves DEF ObserveWorkspace
  <2>3. UNCHANGED <<session, operations>>
    BY <1>1 DEF ObserveWorkspace, WorkspaceObserved
  <2> QED
    BY <2>1, <2>2, <2>3, OperationsStay
<1>2. ASSUME NEW status \in {"paused", "off"}, SetPresence("human", status)
      PROVE  Steady
  <2>1. TypeOK'
    BY <1>2, PresenceTypeStep DEF PresenceCommand, Actors
  <2>2. ASSUME NEW changed, Commit(1), PresenceChanged(changed)
        PROVE  Steady
    <3>1. Moves
      BY <2>2, CommitMoves
    <3>2. CASE changed = "off"
      BY <2>1, <2>2, <3>1, <3>2, OperationsGo DEF PresenceChanged
    <3>3. CASE changed # "off"
      BY <2>1, <2>2, <3>1, <3>3, OperationsStay DEF PresenceChanged
    <3> QED
      BY <3>2, <3>3
  <2> QED
    BY <1>2, <2>2, PauseIsSteady DEF SetPresence
<1>3. CASE CloseSession("human", None)
  <2>1. TypeOK'
    BY <1>3, SessionTypeStep DEF SessionCommand, Actors
  <2>2. Moves
    BY <1>3, EventsMove DEF CloseSession
  <2>3. session \in Session /\ session # None
    BY <1>3, StatusMeansSession DEF CloseSession, Closable, InStatus
  <2>4. UNCHANGED operations /\ session'.startedAtRevision = session.startedAtRevision
    BY <1>3, <2>3 DEF CloseSession, SessionClosed, Session
  <2> QED
    BY <2>1, <2>2, <2>3, <2>4, OperationsStay
<1> QED
  BY <1>1, <1>2, <1>3, StartOverIsSteady DEF Elsewhere
-----------------------------------------------------------------------------
(* What a step leaves as it was.                                           *)

LEMMA RevisionMoves ==
  ASSUME TypeOK, Steady
  PROVE  /\ revision \in Nat /\ revision' \in Nat /\ revision <= revision'
         /\ revision' = revision => UNCHANGED vars
BY BoundAssumption DEF Steady, Moves, TypeOK, vars

LEMMA OthersFit ==
  ASSUME TypeOK, Steady, issued \in Nat, issued' \in Nat, issued <= issued',
         NEW u \in Turns, turns'[u] = turns[u], Fits(u)
  PROVE  Fits(u)'
<1>1. /\ revision \in Nat /\ revision' \in Nat /\ revision <= revision'
      /\ revision' = revision => UNCHANGED vars
  BY RevisionMoves
<1>2. turns[u].revision \in Nat
  BY DEF Fits, Numbered
<1>3. ToldFits(turns[u])'
  <2>1. SUFFICES ASSUME AsCompiled(turns[u])
                 PROVE  /\ turns[u].revision <= revision'
                        /\ turns[u].revision = revision' => turns[u].told = Told'
    BY DEF ToldFits, AsCompiled
  <2>2. /\ turns[u].revision <= revision
        /\ turns[u].revision = revision => turns[u].told = Told
    BY <2>1 DEF Fits, ToldFits
  <2>3. turns[u].revision = revision' => revision' = revision
    BY <1>1, <1>2, <2>2
  <2>4. UNCHANGED vars => Told' = Told
    BY DEF vars, Told, AuthorizedLevel, CurrentAssistance
  <2>5. turns[u].revision <= revision'
    BY <1>1, <1>2, <2>2
  <2> QED
    BY <1>1, <2>2, <2>3, <2>4, <2>5
<1>4. CheckFits(turns[u])'
  <2>1. CheckFits(turns[u])
    BY DEF Fits
  <2>2. ASSUME turns[u].step \in {"effect", "report"}
        PROVE  /\ turns[u].id \in OperationIds /\ turns[u].id <= issued'
               /\ turns[u].route = "check" /\ operations'[turns[u].id] # None
                      => operations'[turns[u].id].toolName = "run_verification"
    <3>1. turns[u].id \in OperationIds /\ turns[u].id <= issued /\ turns[u].id \in Nat
      BY <2>1, <2>2, TurnAssumption DEF CheckFits
    <3>2. turns[u].id <= issued' /\ ~(issued < turns[u].id)
      BY <3>1
    <3>3. operations'[turns[u].id] # None =>
              /\ operations[turns[u].id] # None
              /\ operations'[turns[u].id].toolName = operations[turns[u].id].toolName
      BY <3>1, <3>2 DEF Steady, Appears
    <3> QED
      BY <2>1, <2>2, <3>1, <3>2, <3>3 DEF CheckFits
  <2>3. ASSUME turns[u].step = "report"
        PROVE  /\ turns[u].route = "check"
               /\ turns[u].revision <= revision'
               /\ turns[u].revision = revision' => Settled(turns[u].id)'
    <3>1. /\ turns[u].route = "check" /\ turns[u].revision <= revision
          /\ turns[u].revision = revision => Settled(turns[u].id)
      BY <2>1, <2>3 DEF CheckFits
    <3>2. turns[u].revision = revision' => revision' = revision
      BY <1>1, <1>2, <3>1
    <3>3. UNCHANGED vars => (Settled(turns[u].id)' <=> Settled(turns[u].id))
      BY DEF vars, Settled
    <3>4. turns[u].revision <= revision'
      BY <1>1, <1>2, <3>1
    <3> QED
      BY <1>1, <3>1, <3>2, <3>3, <3>4
  <2> QED
    BY <2>2, <2>3 DEF CheckFits
<1>5. Numbered(turns[u])' /\ (HasCalled(turns[u])' => turns'[u].calls > 0)
  BY DEF Fits, Numbered, HasCalled
<1> QED
  BY <1>3, <1>4, <1>5 DEF Fits

LEMMA LastCheckStays ==
  ASSUME TypeOK, Steady, issued \in Nat, issued' \in Nat, issued <= issued',
         LastCheckFits, UNCHANGED lastCheck
  PROVE  LastCheckFits'
<1>1. /\ revision \in Nat /\ revision' \in Nat /\ revision <= revision'
  BY RevisionMoves
<1> SUFFICES ASSUME lastCheck # None
             PROVE  LastCheckFits'
  BY DEF LastCheckFits
<1> DEFINE id == lastCheck.id
           startedAt == lastCheck.of.startedAtRevision
<1>2. /\ id \in OperationIds /\ id <= issued
      /\ startedAt \in Nat /\ startedAt <= revision
  BY DEF LastCheckFits
<1>3. IsLife(startedAt) => /\ Settled(id)
                           /\ operations[id].toolName = "run_verification"
                           /\ operations[id].status = lastCheck.status
  BY DEF LastCheckFits
<1>4. ASSUME session' # None, session'.startedAtRevision = startedAt
      PROVE  GoesOn
  <2>1. ~Begins
    BY <1>1, <1>2, <1>4 DEF Begins
  <2> QED
    BY <1>4, <2>1 DEF Steady
<1>5. ASSUME session' # None, session'.startedAtRevision = startedAt
      PROVE  /\ Settled(id)'
             /\ operations'[id].toolName = "run_verification"
             /\ operations'[id].status = lastCheck.status
  <2>1. IsLife(startedAt)
    BY <1>4, <1>5 DEF GoesOn, IsLife
  <2>2. operations'[id] = operations[id]
    BY <1>2, <1>3, <1>4, <1>5, <2>1 DEF GoesOn
  <2> QED
    BY <1>3, <2>1, <2>2 DEF Settled
<1>6. id <= issued' /\ startedAt <= revision'
  <2>1. id \in Nat
    BY <1>2, TurnAssumption
  <2> HIDE DEF id, startedAt
  <2> QED
    BY <1>1, <1>2, <2>1
<1> QED
  BY <1>2, <1>5, <1>6 DEF LastCheckFits, IsLife

LEMMA SoFarStays ==
  ASSUME TypeOK, Steady, SoFar, issued \in Nat, issued' \in Nat, issued <= issued'
  PROVE  SoFar'
<1>1. /\ revision \in Nat /\ revision' \in Nat /\ revision <= revision'
  BY RevisionMoves
<1>2. ASSUME session' # None
      PROVE  session'.startedAtRevision <= revision'
  <2>1. CASE Begins
    BY <2>1 DEF Begins
  <2>2. CASE GoesOn
    <3>1. session \in Session /\ session.startedAtRevision <= revision
      BY <2>2 DEF GoesOn, SoFar, TypeOK
    <3>2. session.startedAtRevision \in Nat
      BY <3>1 DEF Session
    <3> QED
      BY <1>1, <2>2, <3>1, <3>2 DEF GoesOn
  <2> QED
    BY <1>2, <2>1, <2>2 DEF Steady
<1>3. ASSUME NEW id \in OperationIds, operations'[id] # None
      PROVE  id <= issued'
  <2>1. id \in Nat
    BY TurnAssumption
  <2>2. CASE issued < id /\ id <= issued'
    BY <2>2
  <2>3. CASE operations[id] # None
    <3>1. id <= issued
      BY <2>3 DEF SoFar
    <3> QED
      BY <2>1, <3>1
  <2> QED
    BY <1>3, <2>2, <2>3 DEF Steady, Appears
<1> QED
  BY <1>2, <1>3 DEF SoFar

(* One turn takes a step.                                                  *)
LEMMA OneTurnFits ==
  ASSUME MomentInv, Steady, issued \in Nat, issued' \in Nat, issued <= issued',
         NEW t \in Turns, OnlyMoves(t), Fits(t)', LastCheckFits'
  PROVE  MomentInv'
<1>1. TypeOK' /\ SoFar'
  BY SoFarStays DEF MomentInv, Steady
<1>2. \A u \in Turns : Fits(u)'
  BY OthersFit DEF MomentInv, OnlyMoves
<1> QED
  BY <1>1, <1>2 DEF MomentInv

Quiet == Dialogs \cup {"idle", "grant", "invoke", "prepare", "transfer", "ended"}

(* Where nothing is asked of a turn.                                       *)
LEMMA QuietFits ==
  ASSUME NEW t \in Turns, turns'[t].step \in Quiet, Numbered(turns[t])'
  PROVE  Fits(t)'
BY DEF Fits, Quiet, Dialogs, HasCalled, ToldFits, AsCompiled, CheckFits

LEMMA EndedFits ==
  ASSUME NEW t \in Turns, DOMAIN turns = Turns, Ends(t)
  PROVE  Fits(t)'
<1>1. turns'[t] = Ended
  BY DEF Ends
<1>2. turns'[t].step \in Quiet /\ Numbered(turns[t])'
  BY <1>1 DEF Ended, Idle, Quiet, Numbered
<1> QED
  BY <1>2, QuietFits
-----------------------------------------------------------------------------
(* Step by step.                                                           *)

LEMMA AsksAndDialogsFit ==
  ASSUME MomentInv, TurnInv, issued \in Nat, NEW t \in Turns, Asks(t) \/ AnswerDialog(t)
  PROVE  MomentInv'
<1>0. /\ DOMAIN turns = Turns /\ DOMAIN turns[t] = DOMAIN Idle
      /\ Fits(t) /\ Numbered(turns[t]) /\ TypeOK /\ LastCheckFits
  BY DEF MomentInv, TurnInv, Sound, Fits
<1>1. UNCHANGED <<vars, issued, lastCheck>> /\ OnlyMoves(t)
  BY <1>0 DEF Asks, AskModel, AskAction, Cancel, AnswerDialog, RevealAnswered,
       ConsentAnswered, caches, OnlyMoves, Ends, To
<1>2. Steady /\ LastCheckFits'
  BY <1>0, <1>1, NothingIsSteady, LastCheckStays
<1>3. Fits(t)'
  <2>1. ASSUME NEW route \in Routes \ {"check", "attempt"}, NEW model \in Models,
               AskModel(t, route, model)
        PROVE  Fits(t)'
    <3> DEFINE turn == [Request(route, model) EXCEPT !.intent = CurrentIntent]
    <3>1. DOMAIN turn = DOMAIN Idle /\ turn.route = route /\ Numbered(turn)
      BY DEF Request, Idle, Numbered
    <3>2. turns'[t] = IF route = "reveal" THEN [turn EXCEPT !.step = "reveal dialog"]
                                          ELSE Gathers(turn)
      BY <1>0, <2>1 DEF AskModel
    <3> HIDE DEF turn
    <3>3. /\ turns'[t].step \in {"reveal dialog", "consent dialog", "grant", "prepare"}
          /\ Numbered(turns'[t])
      BY <3>1, <3>2 DEF Gathers, AfterSharing, Idle, Numbered
    <3> QED
      BY <3>3, QuietFits DEF Quiet, Dialogs, Numbered
  <2>2. ASSUME NEW route \in {"check", "attempt"}, AskAction(t, route)
        PROVE  Fits(t)'
    <3>1. turns'[t] = [Request(route, None) EXCEPT !.step = "grant"]
      BY <1>0, <2>2 DEF AskAction
    <3>2. turns'[t].step = "grant" /\ Numbered(turns'[t])
      BY <3>1 DEF Request, Idle, Numbered
    <3> QED
      BY <3>2, QuietFits DEF Quiet, Numbered
  <2>3. CASE Cancel(t)
    <3>1. turns'[t] = [turns[t] EXCEPT !.aborted = TRUE]
      BY <1>0, <2>3 DEF Cancel
    <3>2. /\ turns'[t].step = turns[t].step /\ turns'[t].calls = turns[t].calls
          /\ turns'[t].revision = turns[t].revision /\ turns'[t].level = turns[t].level
          /\ turns'[t].route = turns[t].route /\ turns'[t].id = turns[t].id
          /\ turns'[t].told = turns[t].told /\ turns'[t].response = turns[t].response
      BY <1>0, <3>1 DEF Idle
    <3>3. turns[t].step \in Dialogs \cup {"effect", "report", "transfer"}
      BY <2>3 DEF Cancel
    <3>4. CheckFits(turns[t])'
      BY <1>0, <1>1, <3>2 DEF Fits, CheckFits, Settled, vars
    <3>5. ~AsCompiled(turns[t])' /\ turns'[t].step # "publish"
      BY <3>2, <3>3 DEF AsCompiled, Dialogs
    <3>6. Numbered(turns[t])' /\ (HasCalled(turns[t])' => turns'[t].calls > 0)
      BY <1>0, <3>2 DEF Fits, Numbered, HasCalled
    <3> QED
      BY <3>4, <3>5, <3>6 DEF Fits, ToldFits
  <2>4. ASSUME NEW accepts \in BOOLEAN, RevealAnswered(t, accepts)
        PROVE  Fits(t)'
    <3>1. CASE accepts /\ IsCurrent(t)
      <4>1. turns'[t] = Gathers(turns[t])
        BY <1>0, <2>4, <3>1 DEF RevealAnswered
      <4>2. /\ turns'[t].step \in {"consent dialog", "grant", "prepare"}
            /\ Numbered(turns'[t])
        BY <1>0, <4>1 DEF Gathers, AfterSharing, Idle, Numbered
      <4> QED
        BY <4>2, QuietFits DEF Quiet, Dialogs, Numbered
    <3>2. CASE ~(accepts /\ IsCurrent(t))
      BY <1>0, <2>4, <3>2, EndedFits DEF RevealAnswered
    <3> QED
      BY <3>1, <3>2
  <2>5. ASSUME NEW accepts \in BOOLEAN, ConsentAnswered(t, accepts)
        PROVE  Fits(t)'
    <3>1. CASE accepts /\ IsCurrent(t)
      <4>1. turns'[t] = [turns[t] EXCEPT !.step = AfterSharing(turns[t].route)]
        BY <1>0, <2>5, <3>1 DEF ConsentAnswered, To
      <4>2. turns'[t].step \in {"grant", "prepare"} /\ Numbered(turns'[t])
        BY <1>0, <4>1 DEF AfterSharing, Idle, Numbered
      <4> QED
        BY <4>2, QuietFits DEF Quiet, Numbered
    <3>2. CASE ~(accepts /\ IsCurrent(t))
      BY <1>0, <2>5, <3>2, EndedFits DEF ConsentAnswered
    <3> QED
      BY <3>1, <3>2
  <2> QED
    BY <2>1, <2>2, <2>3, <2>4, <2>5 DEF Asks, AnswerDialog
<1> QED
  BY <1>0, <1>1, <1>2, <1>3, OneTurnFits

LEMMA GrantsFit ==
  ASSUME MomentInv, TurnInv, issued \in Nat, NEW t \in Turns, GrantFor(t)
  PROVE  MomentInv'
<1>0. /\ DOMAIN turns = Turns /\ DOMAIN turns[t] = DOMAIN Idle
      /\ Numbered(turns[t]) /\ TypeOK /\ LastCheckFits
  BY DEF MomentInv, TurnInv, Sound, Fits
<1>1. ASSUME NEW tool \in GrantTools, NEW level \in 0..5, TakeGrant(t, tool, level)
      PROVE  MomentInv'
  <2>1. /\ issued' = issued + 1 /\ NextId \in GrantIds
        /\ GrantUserAction("human", NextId, tool) /\ UNCHANGED lastCheck
        /\ turns' = [turns EXCEPT ![t] = [turns[t] EXCEPT
                !.step = "invoke", !.id = NextId, !.tool = tool, !.level = level]]
    BY <1>1 DEF TakeGrant, NextId, caches
  <2>2. /\ OnlyMoves(t)
        /\ turns'[t].step = "invoke" /\ turns'[t].calls = turns[t].calls
        /\ turns'[t].revision = turns[t].revision /\ turns'[t].level = level
    BY <1>0, <2>1 DEF OnlyMoves, Idle
  <2>3. issued' \in Nat /\ issued <= issued'
    BY <2>1
  <2>4. Steady
    BY <1>0, <2>1, GrantIsSteady
  <2>5. Fits(t)'
    BY <1>0, <2>2, QuietFits DEF Quiet, Numbered
  <2>6. LastCheckFits'
    BY <1>0, <2>1, <2>3, <2>4, LastCheckStays
  <2> QED
    BY <2>2, <2>3, <2>4, <2>5, <2>6, OneTurnFits
<1>2. /\ {"reveal_solution", "request_hint", "record_attempt", "run_verification"}
             \subseteq GrantTools
      /\ HintLevels \subseteq 0..5 /\ 0 \in 0..5 /\ 5 \in 0..5
  BY TurnAssumption, LevelAssumption
<1>3. \E tool \in GrantTools, level \in 0..5 : TakeGrant(t, tool, level)
  BY <1>2 DEF GrantFor
<1> QED
  BY <1>1, <1>3

LEMMA InvokesFit ==
  ASSUME MomentInv, RevealInv, NEW t \in Turns, Invoke(t)
  PROVE  MomentInv'
<1>0. /\ DOMAIN turns = Turns /\ DOMAIN turns[t] = DOMAIN Idle
      /\ Numbered(turns[t]) /\ TypeOK /\ LastCheckFits /\ issued \in Nat
      /\ Sound(turns[t], agreed) /\ Entitled(t)
  BY DEF MomentInv, RevealInv, TurnInv, Sound, Fits
<1>1. /\ turns[t].step = "invoke" /\ turns[t].id \in GrantIds /\ UNCHANGED lastCheck
      /\ turns[t].level \in 0..5
  BY <1>0 DEF Invoke, caches, Entitled, Numbered
<1>2. OnlyMoves(t)
  BY <1>0 DEF Invoke, Ends, OnlyMoves
<1> DEFINE id == turns[t].id
           unitId == session.workUnit.id
<1>3. ASSUME Steady, UNCHANGED issued, Fits(t)'
      PROVE  MomentInv'
  <2>1. issued' \in Nat /\ issued <= issued'
    BY <1>0, <1>3
  <2> QED
    BY <1>0, <1>1, <1>2, <1>3, <2>1, LastCheckStays, OneTurnFits
<1>4. CASE /\ AuthorizeSolutionReveal("ai", id, unitId, TRUE)
           /\ turns' = [turns EXCEPT ![t].step = "grant", ![t].id = None,
                                     ![t].revision = revision',
                                     ![t].epoch = session.authorityEpoch]
           /\ UNCHANGED issued
  <2>1. Steady
    BY <1>0, <1>1, <1>4, AssistIsSteady
  <2>2. /\ turns'[t].step = "grant" /\ turns'[t].calls = turns[t].calls
        /\ turns'[t].revision = revision' /\ turns'[t].level = turns[t].level
    BY <1>0, <1>4 DEF Idle
  <2>3. revision' \in Nat
    BY <1>0, <2>1, RevisionMoves
  <2>4. Fits(t)'
    BY <1>0, <2>2, <2>3, QuietFits DEF Quiet, Numbered
  <2> QED
    BY <1>3, <1>4, <2>1, <2>4
<1>5. CASE /\ RequestHint("ai", id, unitId, turns[t].level)
           /\ turns' = [turns EXCEPT ![t].step = "prepare", ![t].route = "chat",
                                     ![t].id = None, ![t].tool = None, ![t].level = 0]
           /\ UNCHANGED issued
  <2>1. Steady
    BY <1>0, <1>1, <1>5, AssistIsSteady
  <2>2. /\ turns'[t].step = "prepare" /\ turns'[t].calls = turns[t].calls
        /\ turns'[t].revision = turns[t].revision /\ turns'[t].level = 0
    BY <1>0, <1>5 DEF Idle
  <2>3. Fits(t)'
    BY <1>0, <2>2, QuietFits DEF Quiet, Numbered
  <2> QED
    BY <1>3, <1>5, <2>1, <2>3
<1>6. CASE RecordAttempt("ai", id, unitId) /\ Ends(t) /\ UNCHANGED issued
  <2>1. Steady
    BY <1>0, <1>1, <1>6, AssistIsSteady
  <2> QED
    BY <1>0, <1>3, <1>6, <2>1, EndedFits
<1>7. CASE /\ turns[t].tool = "run_verification" /\ NextId \in OperationIds
           /\ AuthorizeOperation(NextId, "run_verification", id)
           /\ issued' = NextId
           /\ turns' = [turns EXCEPT ![t].step = "effect", ![t].id = NextId,
                                     ![t].intent = Identity,
                                     ![t].epoch = session.authorityEpoch]
  <2>1. /\ issued' \in Nat /\ issued <= issued'
        /\ issued < NextId /\ NextId <= issued'
    BY <1>0, <1>7 DEF NextId
  <2>2. Steady /\ operations'[NextId].toolName = "run_verification"
    BY <1>0, <1>1, <1>7, <2>1, TurnAssumption, AuthorizeIsSteady
  <2>3. /\ turns'[t].step = "effect" /\ turns'[t].calls = turns[t].calls
        /\ turns'[t].revision = turns[t].revision /\ turns'[t].level = turns[t].level
        /\ turns'[t].route = turns[t].route /\ turns'[t].id = NextId
    BY <1>0, <1>7 DEF Idle
  <2>4. turns[t].route = "check"
    BY <1>0, <1>1, <1>7 DEF Sound
  <2>5. Fits(t)'
    <3>1. Numbered(turns[t])'
      BY <1>0, <2>3 DEF Numbered
    <3>2. CheckFits(turns[t])'
      BY <1>7, <2>1, <2>2, <2>3 DEF CheckFits
    <3>3. ~HasCalled(turns[t])' /\ ~AsCompiled(turns[t])' /\ turns'[t].step # "publish"
      BY <2>3, <2>4 DEF HasCalled, AsCompiled
    <3> QED
      BY <3>1, <3>2, <3>3 DEF Fits, ToldFits
  <2> QED
    BY <1>0, <1>1, <1>2, <2>1, <2>2, <2>5, LastCheckStays, OneTurnFits
<1> QED
  BY <1>4, <1>5, <1>6, <1>7 DEF Invoke

(* Steps that commit nothing and have nothing to do with checks.           *)
LEMMA AskingFits ==
  ASSUME MomentInv, TurnInv, issued \in Nat, NEW t \in Turns,
         Prepare(t) \/ CallModel(t) \/ Send(t) \/ Answers(t) \/ Publish(t) \/ Fail(t)
  PROVE  MomentInv'
<1>0. /\ DOMAIN turns = Turns /\ DOMAIN turns[t] = DOMAIN Idle
      /\ Fits(t) /\ Numbered(turns[t]) /\ TypeOK /\ LastCheckFits
  BY DEF MomentInv, TurnInv, Sound, Fits
<1>1. UNCHANGED <<vars, issued, lastCheck>> /\ OnlyMoves(t)
  BY <1>0 DEF Prepare, CallModel, Send, Answers, Publish, Fail, caches, OnlyMoves, Ends, To
<1>2. Steady /\ LastCheckFits'
  BY <1>0, <1>1, NothingIsSteady, LastCheckStays
<1>3. /\ revision' = revision /\ revision \in Nat /\ Told' = Told
  BY <1>0, <1>1, <1>2, RevisionMoves DEF vars, Told, AuthorizedLevel, CurrentAssistance
<1>4. Fits(t)'
  <2>1. CASE Prepare(t)
    <3>1. turns'[t] = [turns[t] EXCEPT !.step = "call", !.told = Told,
                          !.revision = revision, !.epoch = session.authorityEpoch]
      BY <1>0, <2>1 DEF Prepare
    <3>2. /\ turns'[t].step = "call" /\ turns'[t].told = Told
          /\ turns'[t].revision = revision /\ turns'[t].calls = turns[t].calls
          /\ turns'[t].level = turns[t].level
      BY <1>0, <3>1 DEF Idle
    <3>3. Numbered(turns[t])' /\ ToldFits(turns[t])'
      BY <1>0, <1>3, <3>2 DEF Numbered, ToldFits
    <3> QED
      BY <3>2, <3>3 DEF Fits, HasCalled, CheckFits
  <2>2. CASE CallModel(t)
    <3>1. turns'[t] = [turns[t] EXCEPT !.step = "count", !.calls = @ + 1]
      BY <1>0, <2>2 DEF CallModel
    <3>2. /\ turns'[t].step = "count" /\ turns'[t].told = turns[t].told
          /\ turns'[t].revision = turns[t].revision /\ turns'[t].calls = turns[t].calls + 1
          /\ turns'[t].level = turns[t].level /\ turns[t].step = "call"
      BY <1>0, <2>2, <3>1 DEF Idle, CallModel
    <3>3. turns[t].calls \in Nat
      BY <1>0 DEF Numbered
    <3>4. /\ turns'[t].calls \in Nat /\ turns'[t].calls > 0
          /\ turns'[t].calls = 1 => turns[t].calls = 0
      <4> DEFINE calls == turns[t].calls
      <4>1. turns'[t].calls = calls + 1 /\ calls \in Nat
        BY <3>2, <3>3
      <4> HIDE DEF calls
      <4>2. calls + 1 \in Nat /\ calls + 1 > 0 /\ (calls + 1 = 1 => calls = 0)
        BY <4>1
      <4> QED
        BY <4>1, <4>2 DEF calls
    <3>5. AsCompiled(turns[t])' => AsCompiled(turns[t])
      BY <3>2, <3>4 DEF AsCompiled
    <3>6. Numbered(turns[t])'
      BY <1>0, <3>2, <3>4 DEF Numbered
    <3>7. ToldFits(turns[t])'
      BY <1>0, <1>3, <3>2, <3>5 DEF Fits, ToldFits
    <3> QED
      BY <3>2, <3>4, <3>6, <3>7 DEF Fits, CheckFits
  <2>3. CASE Send(t) \/ Answers(t)
    <3>1. turns[t].step \in {"count", "sent"}
      BY <2>3 DEF Send, Answers
    <3> DEFINE answered ==
          /\ turns'[t].step \in {"sent", "read", "publish"}
          /\ turns'[t].told = turns[t].told
          /\ turns'[t].revision = turns[t].revision /\ turns'[t].calls = turns[t].calls
          /\ turns'[t].level = turns[t].level
          /\ turns'[t].step = "publish" => turns'[t].response \in Responses
    <3>2. answered
      <4>1. ASSUME NEW step \in {"sent", "read"}, To(t, step)
            PROVE  answered
        <5>1. turns'[t] = [turns[t] EXCEPT !.step = step]
          BY <1>0, <4>1 DEF To
        <5> QED
          BY <1>0, <5>1 DEF Idle
      <4>2. ASSUME NEW response \in Responses,
                   turns' = [turns EXCEPT ![t].step = "publish", ![t].response = response]
            PROVE  answered
        <5>1. turns'[t] = [turns[t] EXCEPT !.step = "publish", !.response = response]
          BY <1>0, <4>2
        <5> QED
          BY <1>0, <5>1 DEF Idle
      <4> QED
        BY <2>3, <4>1, <4>2 DEF Send, Answers
    <3>3. turns'[t].calls > 0
      BY <1>0, <3>1, <3>2 DEF Fits, HasCalled
    <3>4. AsCompiled(turns[t])' => AsCompiled(turns[t])
      BY <3>1, <3>2 DEF AsCompiled
    <3>5. Numbered(turns[t])' /\ ToldFits(turns[t])'
      BY <1>0, <1>3, <3>2, <3>4 DEF Fits, Numbered, ToldFits
    <3> QED
      BY <3>2, <3>3, <3>5 DEF Fits, CheckFits
  <2>4. CASE To(t, "transfer")
    <3>1. turns'[t] = [turns[t] EXCEPT !.step = "transfer"]
      BY <1>0, <2>4 DEF To
    <3>2. /\ turns'[t].step = "transfer" /\ turns'[t].calls = turns[t].calls
          /\ turns'[t].revision = turns[t].revision /\ turns'[t].level = turns[t].level
      BY <1>0, <3>1 DEF Idle
    <3> QED
      BY <1>0, <3>2, QuietFits DEF Quiet, Numbered
  <2>5. CASE Ends(t)
    BY <1>0, <2>5, EndedFits
  <2> QED
    BY <2>1, <2>2, <2>3, <2>4, <2>5 DEF Publish, Fail
<1> QED
  BY <1>0, <1>1, <1>2, <1>4, OneTurnFits

(* A read's operation is a new one, and its result moves the turn on past  *)
(* what it was compiled from; a check's waits to be reported.              *)
LEMMA EffectsFit ==
  ASSUME MomentInv, TurnInv, issued \in Nat, NEW t \in Turns,
         Read(t) \/ (\E status \in {"confirmed", "failed"} : EffectEnds(t, status))
  PROVE  MomentInv'
<1>0. /\ DOMAIN turns = Turns /\ DOMAIN turns[t] = DOMAIN Idle
      /\ Fits(t) /\ Numbered(turns[t]) /\ TypeOK /\ LastCheckFits
      /\ Sound(turns[t], agreed)
  BY DEF MomentInv, TurnInv, Sound, Fits
<1>1. OnlyMoves(t) /\ UNCHANGED lastCheck
  BY <1>0 DEF Read, EffectEnds, caches, OnlyMoves, Ends
<1>2. CASE Read(t)
  <2>1. /\ issued' = issued + 1 /\ NextId \in OperationIds /\ turns[t].step = "read"
        /\ AuthorizeOperation(NextId, "read_scope", None)
        /\ turns'[t] = [turns[t] EXCEPT !.step = "effect", !.id = NextId]
    BY <1>0, <1>2 DEF Read, NextId
  <2>2. /\ issued' \in Nat /\ issued <= issued'
        /\ issued < NextId /\ NextId <= issued'
    BY <2>1 DEF NextId
  <2>3. Steady
    BY <1>0, <2>1, <2>2, TurnAssumption, AuthorizeIsSteady
  <2>4. /\ turns'[t].step = "effect" /\ turns'[t].calls = turns[t].calls
        /\ turns'[t].revision = turns[t].revision /\ turns'[t].level = turns[t].level
        /\ turns'[t].route = turns[t].route /\ turns'[t].id = NextId
    BY <1>0, <2>1 DEF Idle
  <2>5. turns[t].route # "check" /\ turns[t].calls > 0
    BY <1>0, <2>1 DEF Sound, ModelRoutes, Fits, HasCalled
  <2>6. Fits(t)'
    <3>1. Numbered(turns[t])'
      BY <1>0, <2>4 DEF Numbered
    <3>2. CheckFits(turns[t])'
      BY <2>1, <2>2, <2>4, <2>5 DEF CheckFits
    <3>3. ~AsCompiled(turns[t])' /\ turns'[t].step # "publish" /\ turns'[t].calls > 0
      BY <2>4, <2>5 DEF AsCompiled
    <3> QED
      BY <3>1, <3>2, <3>3 DEF Fits, ToldFits
  <2> QED
    BY <1>0, <1>1, <2>2, <2>3, <2>6, LastCheckStays, OneTurnFits
<1>3. ASSUME NEW status \in {"confirmed", "failed"}, EffectEnds(t, status)
      PROVE  MomentInv'
  <2>1. /\ issued' = issued /\ issued' \in Nat /\ issued <= issued'
        /\ turns[t].step = "effect" /\ turns[t].id \in OperationIds
        /\ turns[t].id <= issued
    BY <1>0, <1>3 DEF EffectEnds, Fits, CheckFits
  <2>2. CASE Ends(t) /\ UNCHANGED vars
    BY <1>0, <1>1, <2>1, <2>2, NothingIsSteady, EndedFits, LastCheckStays, OneTurnFits
  <2>3. CASE ~(Ends(t) /\ UNCHANGED vars)
    <3>1. /\ ObserveOperationResult(turns[t].id, turns[t].epoch, status)
          /\ turns'[t] = [turns[t] EXCEPT
                !.step = IF turns[t].route = "check" THEN "report" ELSE "call",
                !.revision = revision',
                !.id = IF turns[t].route = "check" THEN @ ELSE None]
      BY <1>0, <1>3, <2>3 DEF EffectEnds
    <3>2. PICK id \in OperationIds : id = turns[t].id
      BY <2>1
    <3>3. /\ Steady /\ Settled(id)' /\ operations[id] # None
          /\ operations'[id].toolName = operations[id].toolName
      <4>1. status \in TerminalStatuses
        BY DEF TerminalStatuses
      <4> QED
        BY <1>0, <3>1, <3>2, <4>1, ObserveIsSteady
    <3>4. revision' \in Nat
      BY <1>0, <3>3, RevisionMoves
    <3>5. /\ turns'[t].calls = turns[t].calls /\ turns'[t].level = turns[t].level
          /\ turns'[t].revision = revision' /\ turns'[t].route = turns[t].route
          /\ IF turns[t].route = "check"
             THEN turns'[t].step = "report" /\ turns'[t].id = id
             ELSE turns'[t].step = "call"
      BY <1>0, <3>1, <3>2 DEF Idle
    <3>6. Numbered(turns[t])'
      BY <1>0, <3>4, <3>5 DEF Numbered
    <3>7. CASE turns[t].route = "check"
      <4>1. operations[id].toolName = "run_verification"
        BY <1>0, <2>1, <3>2, <3>3, <3>7 DEF Fits, CheckFits
      <4>2. CheckFits(turns[t])'
        <5>1. turns'[t].revision <= revision' /\ turns'[t].id <= issued'
          BY <2>1, <3>2, <3>4, <3>5, <3>7
        <5> QED
          BY <3>2, <3>3, <3>5, <3>7, <4>1, <5>1 DEF CheckFits, Settled
      <4>3. Fits(t)'
        BY <3>5, <3>6, <3>7, <4>2 DEF Fits, HasCalled, ToldFits, AsCompiled
      <4> QED
        BY <1>0, <1>1, <2>1, <3>3, <4>3, LastCheckStays, OneTurnFits
    <3>8. CASE turns[t].route # "check"
      <4>1. turns[t].calls > 0 /\ turns[t].calls \in Nat
        BY <1>0, <2>1, <3>8 DEF Fits, HasCalled, Numbered
      <4>2. ~AsCompiled(turns[t])'
        BY <3>5, <3>8, <4>1 DEF AsCompiled
      <4>3. Fits(t)'
        BY <3>5, <3>6, <3>8, <4>1, <4>2 DEF Fits, HasCalled, ToldFits, CheckFits
      <4> QED
        BY <1>0, <1>1, <2>1, <3>3, <4>3, LastCheckStays, OneTurnFits
    <3> QED
      BY <3>7, <3>8
  <2> QED
    BY <2>2, <2>3
<1> QED
  BY <1>2, <1>3

(* What is shown of a check is of the moment: nothing was committed since  *)
(* its result was.                                                         *)
LEMMA ReportsFit ==
  ASSUME MomentInv, TurnInv, issued \in Nat, NEW t \in Turns,
         ReportCheck(t) \/ StartTransfer(t)
  PROVE  MomentInv'
<1>0. /\ DOMAIN turns = Turns /\ Fits(t) /\ TypeOK /\ SoFar /\ LastCheckFits
  BY DEF MomentInv, TurnInv
<1>1. UNCHANGED <<vars, issued>> /\ Ends(t) /\ OnlyMoves(t)
  BY <1>0 DEF ReportCheck, StartTransfer, OnlyMoves, Ends
<1>2. Steady
  BY <1>0, <1>1, NothingIsSteady
<1>3. ASSUME ReportCheck(t), Pinned(t) /\ IsOfUnit(turns[t].intent)
      PROVE  LastCheckFits'
  <2> DEFINE id == turns[t].id
  <2>1. /\ turns[t].step = "report" /\ turns[t].revision = revision
        /\ turns[t].intent = Identity /\ session # None
        /\ lastCheck' = [of |-> turns[t].intent, id |-> id,
                         status |-> operations[id].status]
    BY <1>3 DEF ReportCheck, Pinned, IsOfUnit, HasUnit
  <2>2. /\ id \in OperationIds /\ id <= issued /\ Settled(id)
        /\ operations[id].toolName = "run_verification"
    BY <1>0, <2>1 DEF Fits, CheckFits, Settled
  <2>3. turns[t].intent.startedAtRevision = session.startedAtRevision
    BY <2>1 DEF Identity
  <2>4. session.startedAtRevision \in Nat /\ session.startedAtRevision <= revision
    BY <1>0, <2>1 DEF TypeOK, Session, SoFar
  <2>5. /\ lastCheck'.of.startedAtRevision = session.startedAtRevision
        /\ lastCheck'.id = id /\ lastCheck'.status = operations[id].status
    BY <2>1, <2>3
  <2> HIDE DEF id
  <2>6. /\ UNCHANGED <<issued, revision, operations>>
    BY <1>1 DEF vars
  <2> QED
    BY <2>2, <2>4, <2>5, <2>6 DEF LastCheckFits, Settled
<1>4. LastCheckFits'
  <2>1. CASE UNCHANGED lastCheck
    BY <1>0, <1>1, <1>2, <2>1, LastCheckStays
  <2> QED
    BY <1>3, <2>1 DEF ReportCheck, StartTransfer
<1> QED
  BY <1>0, <1>1, <1>2, <1>4, EndedFits, OneTurnFits

-----------------------------------------------------------------------------
LEMMA MomentInitially ==
  ASSUME TurnInit
  PROVE  MomentInv
<1>1. PICK id \in SessionIds, ceiling \in Ceilings, unit \in Proposals :
          /\ session = SetUp(1, id, ceiling, unit)
          /\ presence \in [ workspaceId : Workspaces, observationRevision : {0},
                            status : {"engaged"}, activeSessionId : {id} ]
  BY DEF TurnInit
<1>2. session \in Session
  BY <1>1, SetUpType
<1>3. session.startedAtRevision = 1
  BY <1>1 DEF SetUp, CreateSession
<1>4. TypeOK
  <2>1. presence \in Presence
    BY <1>1 DEF Presence, PresenceStatuses
  <2>2. /\ operations \in [OperationIds -> Operation \cup {None}]
        /\ grants \in [GrantIds -> Grant \cup {None}]
    BY DEF TurnInit, NoOperations, NoGrants
  <2>3. revision \in 0..MaxRevision
    BY TurnAssumption, BoundAssumption DEF TurnInit
  <2> QED
    BY <1>2, <2>1, <2>2, <2>3 DEF TypeOK
<1>5. SoFar
  BY <1>3 DEF TurnInit, SoFar, NoOperations
<1>6. \A t \in Turns : Fits(t)
  BY DEF TurnInit, Fits, Numbered, HasCalled, ToldFits, AsCompiled, CheckFits, Idle
<1>7. LastCheckFits
  BY DEF TurnInit, LastCheckFits
<1> QED
  BY <1>4, <1>5, <1>6, <1>7 DEF MomentInv

LEMMA MomentStepKeeps ==
  ASSUME RevealInv, MomentInv, [TurnNext]_all
  PROVE  MomentInv'
<1>0. TurnInv /\ issued \in Nat
  BY DEF RevealInv
<1>1. ASSUME UNCHANGED participant, Steady
      PROVE  MomentInv'
  <2>1. UNCHANGED <<turns, issued, lastCheck>>
    BY <1>1 DEF participant, caches
  <2>2. issued' \in Nat /\ issued <= issued'
    BY <1>0, <2>1
  <2>3. LastCheckFits' /\ SoFar' /\ TypeOK'
    BY <1>0, <1>1, <2>1, <2>2, LastCheckStays, SoFarStays DEF MomentInv, Steady
  <2>4. \A u \in Turns : Fits(u)'
    BY <1>0, <1>1, <2>1, <2>2, OthersFit DEF MomentInv
  <2> QED
    BY <2>3, <2>4 DEF MomentInv
<1>2. CASE Elsewhere
  BY <1>1, <1>2, ElsewhereIsSteady DEF Elsewhere, MomentInv
<1>3. CASE UNCHANGED all
  BY <1>1, <1>3, NothingIsSteady DEF all, MomentInv
<1>4. ASSUME NEW t \in Turns, Asks(t) \/ AnswerDialog(t) \/ Continue(t)
      PROVE  MomentInv'
  BY <1>0, <1>4, AsksAndDialogsFit, GrantsFit, InvokesFit, AskingFits, EffectsFit,
     ReportsFit DEF Continue
<1> QED
  BY <1>2, <1>3, <1>4 DEF TurnNext

LEMMA MomentHolds == TurnSpec => [](RevealInv /\ MomentInv)
<1>1. TurnInit => RevealInv /\ MomentInv
  BY RevealInitially, MomentInitially
<1>2. RevealInv /\ MomentInv /\ [TurnNext]_all => (RevealInv /\ MomentInv)'
  BY RevealStepKeeps, MomentStepKeeps
<1> QED
  BY <1>1, <1>2, PTL DEF TurnSpec

(* A solution is at level 5, for which a reveal must be on record; the     *)
(* agreement of the moment then allows that level, and no more.            *)
LEMMA SolutionsAreRevealed ==
  ASSUME TypeOK, session # None, session.maximumHintLevel # None,
         NEW response \in Responses, Accepts(response), response.solution
  PROVE  Told.reveal /\ Told.level = 5
<1>1. response.level \in 0..5
  BY TurnAssumption
<1>2. ~(response.level < 5) /\ response.level <= AuthorizedLevel
      /\ (response.level = 5 => CurrentAssistance.reveal)
  BY DEF Accepts
<1>3. response.level = 5
  BY <1>1, <1>2
<1>4. CurrentAssistance.hint \in 0..5
  BY DEF CurrentAssistance, TypeOK, Session, Assistance, NoAssistance
<1>5. session.maximumHintLevel \in 0..5
  BY DEF TypeOK, Session
<1>6. AuthorizedLevel \in 0..5
  BY <1>4, <1>5 DEF AuthorizedLevel, Least, Hint
<1>7. AuthorizedLevel = 5
  BY <1>2, <1>3, <1>6
<1> QED
  BY <1>2, <1>3, <1>7 DEF Told

(* What is shown is of the moment it is shown in: an answer is about the   *)
(* work it was asked about, a solution is there only with a reveal on      *)
(* record, and an answer that took no read follows instructions that still *)
(* hold.                                                                   *)
THEOREM AnswersCorrect == TurnSpec => AnswersFitTheMoment
<1>1. ASSUME MomentInv, RevealInv, NEW t \in Turns, Publish(t)
      PROVE  /\ turns[t].intent = CurrentIntent
             /\ turns[t].response.solution => Told.reveal /\ Told.level = 5
             /\ turns[t].calls = 1 => turns[t].told = Told
  <2>1. /\ turns[t].step = "publish" /\ IsCurrent(t) /\ Pinned(t)
        /\ Accepts(turns[t].response)
    BY <1>1 DEF Publish, Finalizes
  <2>2. /\ TypeOK /\ turns[t].response \in Responses /\ ToldFits(turns[t])
        /\ Sound(turns[t], agreed)
    BY <1>1, <2>1 DEF MomentInv, Fits, RevealInv, TurnInv
  <2>3. session # None /\ turns[t].intent = CurrentIntent
    BY <2>1 DEF IsCurrent, IsIntentCurrent
  <2>4. turns[t].calls = 1 => turns[t].told = Told
    BY <2>1, <2>2 DEF ToldFits, AsCompiled, Pinned
  <2>5. session.maximumHintLevel # None
    BY <2>1, <2>2, <2>3 DEF Sound, CurrentIntent
  <2> QED
    BY <2>1, <2>2, <2>3, <2>4, <2>5, SolutionsAreRevealed
<1>2. RevealInv /\ MomentInv /\ [TurnNext]_all =>
          [\A t \in Turns : Publish(t) =>
              /\ turns[t].intent = CurrentIntent
              /\ turns[t].response.solution => Told.reveal /\ Told.level = 5
              /\ turns[t].calls = 1 => turns[t].told = Told]_all
  BY <1>1
<1> QED
  BY <1>2, MomentHolds, PTL DEF TurnSpec, AnswersFitTheMoment

(* What is said of the last check is how that very operation of the        *)
(* session ended, and stays so: nothing settled is touched again, and what *)
(* was checked in a session that was replaced is not said of the next.     *)
THEOREM CheckCorrect == TurnSpec => []CheckIsTheSessions
<1>1. MomentInv => CheckIsTheSessions
  <2> SUFFICES ASSUME MomentInv, lastCheck # None, IsOfUnit(lastCheck.of)
               PROVE  /\ operations[lastCheck.id] # None
                      /\ operations[lastCheck.id].toolName = "run_verification"
                      /\ operations[lastCheck.id].status = lastCheck.status
    BY DEF CheckIsTheSessions
  <2>1. IsLife(lastCheck.of.startedAtRevision)
    <3>1. session # None /\ Identity = lastCheck.of
      BY DEF IsOfUnit, HasUnit
    <3> QED
      BY <3>1 DEF Identity, IsLife
  <2> QED
    BY <2>1 DEF MomentInv, LastCheckFits, Settled
<1> QED
  BY <1>1, MomentHolds, PTL
=============================================================================
