----------------------- MODULE RequestPipelineProofs ------------------------
(* What TLAPS proves of RequestPipeline, for any requests, calls and           *)
(* configuration, and any number of restarts and losses of the bus.            *)
EXTENDS RequestPipeline, TLAPS

USE ConstantsAssumption DEF ConstantsAssumption

Early == {Unauthorized, NotFound, MethodNotAllowed, ServerError, Unavailable}
Status == {Fine, BadRequest, Forbidden} \cup Early
Place == {"new", "admitted", "running", "answered", "cut", "gone"}

-----------------------------------------------------------------------------
(* The inductive invariant: the types, and how far each request is. Passed     *)
(* commands were carried out, and an answer says where the handler was.        *)

Kinds ==
  /\ up \in BOOLEAN
  /\ bus \in {"up", "dead", "absent"}
  /\ mode \in [Modules -> {"real", "fake"}]
  /\ conn \in {"none", "open", "lost"}
  /\ call \in [Requests -> Calls]
  /\ boots \in Nat /\ drops \in Nat

Records ==
  /\ pc \in [Requests -> Place]
  /\ status \in [Requests -> Status]
  /\ at \in [Requests -> Nat \ {0}]
  /\ done \in [Requests -> SUBSET Nat]

\* The commands of the script s below n took effect, the ignored ones apart.
Passed(s, n, d) == \A j \in 1..(n - 1) : s[j].lenient \/ j \in d

\* A request at place p with status st, at command n of the script s, of which
\* the commands d were carried out.
Sound(p, st, n, d, s) ==
  /\ d \subseteq 1..n
  /\ Passed(s, n, d)
  /\ p \in {"new", "admitted"} => n = 1 /\ d = {} /\ st = Fine
  /\ p \in {"running", "cut"} => n <= Len(s)
  /\ p = "running" => st \in {Fine, Forbidden}
  /\ p = "answered" /\ st \in Early => d = {}
  /\ p = "answered" /\ st = Fine => Passed(s, Len(s) + 1, d)

AllSound == \A r \in Requests : Sound(pc[r], status[r], at[r], done[r], ScriptOf(r))

IInv == Kinds /\ Records /\ AllSound

-----------------------------------------------------------------------------
(* Lemmas *)

\* Every request has a command to be at.
LEMMA ScriptLength ==
  ASSUME NEW route
  PROVE  Len(Script(route)) \in Nat \ {0}
  BY DEF Script, FormatScript, ProvisionScript, PoolScript, Command, Lenient

\* What an action of request r must show: the records of r stay well-typed and
\* sound, those of the others stay as they are.
Untouched(r) ==
  /\ call' = call
  /\ \E p \in Place, st \in Status, n \in Nat \ {0}, d \in SUBSET Nat :
        /\ pc' = [pc EXCEPT ![r] = p]
        /\ status' = [status EXCEPT ![r] = st]
        /\ at' = [at EXCEPT ![r] = n]
        /\ done' = [done EXCEPT ![r] = d]
        /\ Sound(p, st, n, d, ScriptOf(r))

\* One request that moves soundly keeps all of them sound.
LEMMA OneMoves ==
  ASSUME Records, AllSound, NEW r \in Requests, Untouched(r)
  PROVE  Records' /\ AllSound'
  <1>1. PICK p \in Place, st \in Status, n \in Nat \ {0}, d \in SUBSET Nat :
           /\ pc' = [pc EXCEPT ![r] = p]
           /\ status' = [status EXCEPT ![r] = st]
           /\ at' = [at EXCEPT ![r] = n]
           /\ done' = [done EXCEPT ![r] = d]
           /\ Sound(p, st, n, d, ScriptOf(r))
    BY DEF Untouched
  <1>2. Records'
    BY <1>1 DEF Records
  <1>3. \A q \in Requests : ScriptOf(q)' = ScriptOf(q)
    BY DEF Untouched, ScriptOf
  <1>4. AllSound'
    <2>1. SUFFICES ASSUME NEW q \in Requests
                   PROVE  Sound(pc'[q], status'[q], at'[q], done'[q], ScriptOf(q))
      BY <1>3 DEF AllSound
    <2>2. CASE q = r
      BY <1>1, <2>2 DEF Records
    <2>3. CASE q # r
      <3>1. /\ pc'[q] = pc[q] /\ status'[q] = status[q]
            /\ at'[q] = at[q] /\ done'[q] = done[q]
        BY <1>1, <2>3 DEF Records
      <3>2. QED
        BY <3>1 DEF AllSound
    <2>4. QED
      BY <2>2, <2>3
  <1>5. QED
    BY <1>2, <1>4

\* The records of one request, as values.
LEMMA OneRecord ==
  ASSUME Records, AllSound, NEW r \in Requests
  PROVE  /\ pc[r] \in Place /\ status[r] \in Status
         /\ at[r] \in Nat \ {0} /\ done[r] \in SUBSET Nat
         /\ Sound(pc[r], status[r], at[r], done[r], ScriptOf(r))
         /\ Len(ScriptOf(r)) \in Nat \ {0}
  BY ScriptLength DEF Records, AllSound, ScriptOf

\* An answer before any command, or one of error, is sound.
LEMMA AnswerMoves ==
  ASSUME Records, AllSound, NEW r \in Requests, NEW code \in Early \cup {BadRequest},
         Answer(r, code), done[r] = {} \/ code = BadRequest
  PROVE  Untouched(r)
  <1>1. /\ at' = [at EXCEPT ![r] = at[r]] /\ done' = [done EXCEPT ![r] = done[r]]
        /\ call' = call
    BY DEF Answer, Records
  <1>2. code \in Status /\ code # Fine /\ (code = BadRequest => code \notin Early)
    BY DEF Early, Status, Fine, BadRequest, Unauthorized, NotFound,
           MethodNotAllowed, ServerError, Unavailable
  <1>3. Sound("answered", code, at[r], done[r], ScriptOf(r))
    BY <1>2, OneRecord DEF Sound
  <1>4. QED
    BY <1>1, <1>2, <1>3, OneRecord DEF Untouched, Answer, Place

\* So is a step to the next command, or to the answer, once this one took
\* effect or is one whose failure is ignored.
LEMMA AdvanceMoves ==
  ASSUME Records, AllSound, NEW r \in Requests, pc[r] = "running", Advance(r),
         Current(r).lenient \/ at[r] \in done[r]
  PROVE  Untouched(r)
  <1>1. Passed(ScriptOf(r), at[r] + 1, done[r])
    BY OneRecord DEF Passed, Sound, Current
  <1>2. CASE at[r] < Len(ScriptOf(r))
    <2>1. Sound("running", status[r], at[r] + 1, done[r], ScriptOf(r))
      BY <1>1, <1>2, OneRecord DEF Sound
    <2>2. /\ pc' = [pc EXCEPT ![r] = "running"] /\ status' = [status EXCEPT ![r] = status[r]]
          /\ at' = [at EXCEPT ![r] = at[r] + 1] /\ done' = [done EXCEPT ![r] = done[r]]
          /\ call' = call
      BY <1>2 DEF Advance, Records
    <2>3. at[r] + 1 \in Nat \ {0} /\ status[r] \in Status /\ done[r] \in SUBSET Nat
      BY OneRecord
    <2>4. QED
      BY <2>1, <2>2, <2>3 DEF Untouched, Place
  <1>3. CASE ~(at[r] < Len(ScriptOf(r)))
    <2>1. at[r] = Len(ScriptOf(r))
      BY <1>3, OneRecord DEF Sound
    <2>2. status[r] \notin Early
      BY OneRecord DEF Sound, Early, Fine, Forbidden, Unauthorized, NotFound,
                       MethodNotAllowed, ServerError, Unavailable
    <2>3. Sound("answered", status[r], at[r], done[r], ScriptOf(r))
      BY <1>1, <2>1, <2>2, OneRecord DEF Sound
    <2>4. /\ pc' = [pc EXCEPT ![r] = "answered"] /\ status' = [status EXCEPT ![r] = status[r]]
          /\ at' = [at EXCEPT ![r] = at[r]] /\ done' = [done EXCEPT ![r] = done[r]]
          /\ call' = call
      BY <1>3 DEF Advance, Records
    <2>5. QED
      BY <2>3, <2>4, OneRecord DEF Untouched, Place
  <1>4. QED
    BY <1>2, <1>3

\* A failed command ends the handler, or is ignored.
LEMMA FailMoves ==
  ASSUME Records, AllSound, NEW r \in Requests, pc[r] = "running", Fail(r)
  PROVE  Untouched(r)
  <1>1. CASE Current(r).lenient
    BY <1>1, AdvanceMoves DEF Fail
  <1>2. CASE ~Current(r).lenient
    BY <1>2, AnswerMoves DEF Fail
  <1>3. QED
    BY <1>1, <1>2

-----------------------------------------------------------------------------
(* The initial states, and the steps *)

LEMMA InitSound == Init => IInv
  <1>1. SUFFICES ASSUME Init PROVE IInv
    OBVIOUS
  <1>2. Kinds
    BY <1>1 DEF Init, Kinds
  <1>3. Records
    BY <1>1 DEF Init, Records, Place, Status
  <1>4. AllSound
    <2>1. SUFFICES ASSUME NEW r \in Requests
                   PROVE  Sound("new", Fine, 1, {}, ScriptOf(r))
      BY <1>1 DEF Init, AllSound
    <2>2. QED
      BY DEF Sound, Passed
  <1>5. QED
    BY <1>2, <1>3, <1>4 DEF IInv

\* What the requests do leaves the process and the bus alone.
LEMMA KindsStay ==
  ASSUME Kinds, UNCHANGED <<process, link, call>>
  PROVE  Kinds'
  BY DEF Kinds, process, link

\* Steps of the process and of the bus.
LEMMA EnvironmentSound ==
  ASSUME IInv, Boot \/ Kill \/ BusDrops \/ BusReturns
  PROVE  IInv'
  <1> USE DEF IInv
  <1>1. Kinds'
    <2>1. CASE Boot
      <3>1. mode' \in [Modules -> {"real", "fake"}]
        BY <2>1 DEF Boot
      <3>2. up' \in BOOLEAN /\ conn' \in {"none", "open", "lost"} /\ boots' \in Nat
        BY <2>1 DEF Boot, Kinds
      <3>3. bus' = bus /\ drops' = drops /\ call' = call
        BY <2>1 DEF Boot
      <3>4. QED
        BY <3>1, <3>2, <3>3 DEF Kinds
    <2>2. CASE Kill
      BY <2>2 DEF Kinds, Kill
    <2>3. CASE BusDrops
      <3>1. bus' \in {"up", "dead", "absent"} /\ conn' \in {"none", "open", "lost"} /\ drops' \in Nat
        BY <2>3 DEF BusDrops, Kinds
      <3>2. UNCHANGED <<up, mode, boots, call>>
        BY <2>3 DEF BusDrops, process
      <3>3. QED
        BY <3>1, <3>2 DEF Kinds
    <2>4. CASE BusReturns
      BY <2>4 DEF Kinds, BusReturns, process
    <2>5. QED
      BY <2>1, <2>2, <2>3, <2>4
  <1>2. /\ call' = call /\ status' = status /\ at' = at /\ done' = done
        /\ pc' \in [Requests -> Place]
        /\ \A r \in Requests :
              pc'[r] = pc[r] \/ (pc[r] = "running" /\ pc'[r] = "cut") \/ pc'[r] = "gone"
    <2>1. CASE Boot \/ BusReturns
      <3>1. UNCHANGED <<call, pc, status, at, done>>
        BY <2>1 DEF Boot, BusReturns, progress
      <3>2. QED
        BY <3>1 DEF Records
    <2>2. CASE Kill
      <3>1. UNCHANGED <<call, status, at, done>>
        BY <2>2 DEF Kill
      <3>2. pc' = [r \in Requests |-> CASE pc[r] = "running" -> "cut"
                                       [] pc[r] = "admitted" -> "gone"
                                       [] OTHER -> pc[r]]
        BY <2>2 DEF Kill
      <3>3. QED
        BY <3>1, <3>2 DEF Records, Place
    <2>3. CASE BusDrops
      <3>1. UNCHANGED <<call, status, at, done>>
        BY <2>3 DEF BusDrops
      <3>2. pc' = [r \in Requests |-> IF pc[r] = "cut" THEN "gone" ELSE pc[r]]
        BY <2>3 DEF BusDrops
      <3>3. QED
        BY <3>1, <3>2 DEF Records, Place
    <2>4. QED
      BY <2>1, <2>2, <2>3
  <1>3. Records'
    BY <1>2 DEF Records
  <1>4. AllSound'
    <2>1. SUFFICES ASSUME NEW r \in Requests
                   PROVE  Sound(pc'[r], status[r], at[r], done[r], ScriptOf(r))
      BY <1>2 DEF AllSound, ScriptOf
    <2>2. QED
      BY <1>2, OneRecord DEF Sound
  <1>5. QED
    BY <1>1, <1>3, <1>4

\* Steps of one handler, action by action.
LEMMA ArriveSound ==
  ASSUME IInv, NEW r \in Requests, Arrive(r)
  PROVE  Untouched(r)
  <1> USE DEF IInv
  <1>1. done[r] = {} /\ at[r] = 1 /\ status[r] = Fine
    BY OneRecord DEF Arrive, Sound
  <1>2. CASE AuthEnabled /\ ~call[r].token
    BY <1>1, <1>2, AnswerMoves DEF Arrive, Early
  <1>3. CASE ~(AuthEnabled /\ ~call[r].token)
    <2>1. Sound("admitted", status[r], at[r], done[r], ScriptOf(r))
      BY <1>1, OneRecord DEF Sound, Passed
    <2>2. /\ pc' = [pc EXCEPT ![r] = "admitted"] /\ status' = [status EXCEPT ![r] = status[r]]
          /\ at' = [at EXCEPT ![r] = at[r]] /\ done' = [done EXCEPT ![r] = done[r]]
          /\ call' = call
      BY <1>3 DEF Arrive, Records
    <2>3. QED
      BY <2>1, <2>2, OneRecord DEF Untouched, Place
  <1>4. QED
    BY <1>2, <1>3

LEMMA HandleSound ==
  ASSUME IInv, NEW r \in Requests, Handle(r)
  PROVE  Untouched(r)
  <1> USE DEF IInv
  <1>1. done[r] = {} /\ at[r] = 1 /\ status[r] = Fine
    BY OneRecord DEF Handle, Sound
  <1>2. CASE \E code \in Early \cup {BadRequest} : Answer(r, code)
    BY <1>1, <1>2, AnswerMoves
  <1>3. CASE /\ pc' = [pc EXCEPT ![r] = "running"]
             /\ status' = [status EXCEPT ![r] = StatusAfterPolicy(r)]
             /\ UNCHANGED <<process, link, call, at, done>>
    <2>1. StatusAfterPolicy(r) \in {Fine, Forbidden}
      BY <1>1 DEF StatusAfterPolicy
    <2>2. 1 <= Len(ScriptOf(r))
      BY OneRecord
    <2>3. Sound("running", StatusAfterPolicy(r), at[r], done[r], ScriptOf(r))
      BY <1>1, <2>1, <2>2 DEF Sound, Passed
    <2>4. /\ at' = [at EXCEPT ![r] = at[r]] /\ done' = [done EXCEPT ![r] = done[r]]
          /\ call' = call
      BY <1>3 DEF Records
    <2>5. QED
      BY <1>3, <2>1, <2>3, <2>4, OneRecord DEF Untouched, Place, Status
  <1>4. QED
    BY <1>2, <1>3 DEF Handle, Unmatched, Early

LEMMA CarrySound ==
  ASSUME IInv, NEW r \in Requests, Carry(r)
  PROVE  Untouched(r)
  <1> USE DEF IInv
  <1>1. pc[r] \in {"running", "cut"}
    BY DEF Carry
  <1>2. /\ done[r] \cup {at[r]} \in SUBSET Nat
        /\ done[r] \cup {at[r]} \subseteq 1..at[r]
    BY OneRecord DEF Sound
  <1>3. Sound(pc[r], status[r], at[r], done[r] \cup {at[r]}, ScriptOf(r))
    BY <1>1, <1>2, OneRecord DEF Sound, Passed
  <1>4. /\ pc' = [pc EXCEPT ![r] = pc[r]] /\ status' = [status EXCEPT ![r] = status[r]]
        /\ at' = [at EXCEPT ![r] = at[r]] /\ done' = [done EXCEPT ![r] = done[r] \cup {at[r]}]
        /\ call' = call
    BY DEF Carry, Records
  <1>5. QED
    BY <1>2, <1>3, <1>4, OneRecord DEF Untouched

LEMMA CommandSound ==
  ASSUME IInv, NEW r \in Requests,
         \/ Succeed(r) \/ RefuseBootDevice(r) \/ CommandFails(r)
         \/ Deadline(r) \/ ConnectionGone(r)
  PROVE  Untouched(r)
  <1> USE DEF IInv
  <1>1. CASE Succeed(r)
    BY <1>1, AdvanceMoves DEF Succeed
  <1>2. CASE RefuseBootDevice(r)
    BY <1>2, AnswerMoves DEF RefuseBootDevice
  <1>3. CASE CommandFails(r) \/ Deadline(r) \/ ConnectionGone(r)
    BY <1>3, FailMoves DEF CommandFails, Deadline, ConnectionGone
  <1>4. QED
    BY <1>1, <1>2, <1>3

\* No action of a handler changes the process, the bus or the calls.
LEMMA HandlerFrame ==
  ASSUME NEW r \in Requests,
         \/ Arrive(r) \/ Handle(r) \/ Carry(r) \/ Succeed(r) \/ RefuseBootDevice(r)
         \/ CommandFails(r) \/ Deadline(r) \/ ConnectionGone(r)
  PROVE  UNCHANGED <<process, link, call>>
  BY DEF Arrive, Handle, Carry, Succeed, RefuseBootDevice, CommandFails, Deadline,
         ConnectionGone, Fail, Advance, Answer

LEMMA NextSound == IInv /\ [Next]_vars => IInv'
  <1>1. SUFFICES ASSUME IInv, [Next]_vars PROVE IInv'
    OBVIOUS
  <1>2. CASE Boot \/ Kill \/ BusDrops \/ BusReturns
    BY <1>1, <1>2, EnvironmentSound
  <1>3. CASE \E r \in Requests :
               \/ Arrive(r) \/ Handle(r) \/ Carry(r) \/ Succeed(r) \/ RefuseBootDevice(r)
               \/ CommandFails(r) \/ Deadline(r) \/ ConnectionGone(r)
    <2>1. PICK r \in Requests :
               \/ Arrive(r) \/ Handle(r) \/ Carry(r) \/ Succeed(r) \/ RefuseBootDevice(r)
               \/ CommandFails(r) \/ Deadline(r) \/ ConnectionGone(r)
      BY <1>3
    <2>2. Untouched(r)
      BY <1>1, <2>1, ArriveSound, HandleSound, CarrySound, CommandSound
    <2>3. Kinds'
      BY <1>1, <2>1, HandlerFrame, KindsStay DEF IInv
    <2>4. QED
      BY <1>1, <2>2, <2>3, OneMoves DEF IInv
  <1>4. CASE UNCHANGED vars
    <2>1. Kinds' /\ Records'
      BY <1>1, <1>4 DEF vars, process, link, progress, IInv, Kinds, Records
    <2>2. AllSound'
      BY <1>1, <1>4 DEF vars, progress, IInv, AllSound, ScriptOf
    <2>3. QED
      BY <2>1, <2>2 DEF IInv
  <1>5. QED
    BY <1>1, <1>2, <1>3, <1>4 DEF Next

LEMMA AlwaysSound == Spec => []IInv
  BY InitSound, NextSound, PTL DEF Spec

-----------------------------------------------------------------------------
(* Theorems *)

\* Types, and a handler is at a command of its script: the type invariant.
THEOREM TypeCorrect == Spec => []TypeOK
  <1>1. IInv => TypeOK
    BY OneRecord DEF IInv, Kinds, Records, Sound, TypeOK, Place, Status, Early
  <1>2. QED
    BY <1>1, AlwaysSound, PTL

\* The "status: ok" of a write route is true: every command of the handler that
\* its module does not ignore was carried out.
THEOREM OkIsTrue == Spec => []OkMeansDone
  <1>1. IInv => OkMeansDone
    <2>1. SUFFICES ASSUME IInv, NEW r \in Requests, Answered(r, {Fine}),
                          NEW i \in 1..Len(ScriptOf(r))
                   PROVE  ScriptOf(r)[i].lenient \/ i \in done[r]
      BY DEF OkMeansDone
    <2>2. Passed(ScriptOf(r), Len(ScriptOf(r)) + 1, done[r])
      BY <2>1, OneRecord DEF IInv, Sound, Answered
    <2>3. i \in 1..(Len(ScriptOf(r)) + 1 - 1)
      BY <2>1, OneRecord DEF IInv
    <2>4. QED
      BY <2>2, <2>3 DEF Passed
  <1>2. QED
    BY <1>1, AlwaysSound, PTL

\* A request that the middleware, the router or the registry stopped did nothing
\* to the host.
THEOREM EarlyAnswersAreHarmless == Spec => []EarlyAnswersDoNothing
  <1>1. IInv => EarlyAnswersDoNothing
    BY OneRecord DEF IInv, Sound, EarlyAnswersDoNothing, Answered, Early
  <1>2. QED
    BY <1>1, AlwaysSound, PTL

\* The commands of a request take effect in the order of its script.
THEOREM CommandsInOrder == Spec => []StepsInOrder
  <1>1. IInv => StepsInOrder
    <2>1. SUFFICES ASSUME IInv, NEW r \in Requests, NEW i \in done[r], NEW j \in 1..(i - 1)
                   PROVE  ScriptOf(r)[j].lenient \/ j \in done[r]
      BY DEF StepsInOrder
    <2>2. i \in 1..at[r] /\ at[r] \in Nat /\ Passed(ScriptOf(r), at[r], done[r])
      BY <2>1, OneRecord DEF IInv, Sound
    <2>3. j \in 1..(at[r] - 1)
      BY <2>1, <2>2
    <2>4. QED
      BY <2>2, <2>3 DEF Passed
  <1>2. QED
    BY <1>1, AlwaysSound, PTL

-----------------------------------------------------------------------------
(***************************************************************************)
(* The status and the policy.  A refusal does not stop the handler, but    *)
(* its 403 is never overwritten by a success.                              *)
(***************************************************************************)

StatusTellsThePolicy ==
  \A r \in Requests : /\ Answered(r, {Fine}) => Allowed(call[r])
                      /\ Answered(r, {Forbidden}) => ~Allowed(call[r])

\* A handler that runs its commands carries the verdict of the policy.
VerdictKept ==
  \A r \in Requests : pc[r] = "running" =>
    status[r] = IF Allowed(call[r]) THEN Fine ELSE Forbidden

\* How a step of the pipeline moves one request: into its handler with the
\* status of the policy, out of it with that status, or to another answer.
Moves(r) ==
  /\ call' = call
  /\ \/ pc'[r] = pc[r] /\ status'[r] = status[r]
     \/ pc'[r] \in {"admitted", "gone"}
     \/ pc[r] = "running" /\ pc'[r] = "cut"
     \/ pc'[r] = "answered" /\ status'[r] \in Early \cup {BadRequest}
     \/ pc'[r] = "answered" /\ pc[r] = "running" /\ status'[r] = status[r]
     \/ /\ pc[r] = "admitted" /\ pc'[r] = "running" /\ status'[r] = StatusAfterPolicy(r)
        /\ Matching(call[r]) # {} /\ Accepts(RouteOf(call[r]), call[r])

\* Every step moves every request so.
LEMMA EveryStepMoves ==
  ASSUME IInv, [Next]_vars, NEW r \in Requests
  PROVE  Moves(r)
  <1> USE DEF IInv, Records, Moves
  <1>1. CASE Boot \/ BusReturns \/ UNCHANGED vars
    BY <1>1 DEF Boot, BusReturns, vars, progress
  <1>2. CASE Kill
    BY <1>2 DEF Kill
  <1>3. CASE BusDrops
    BY <1>3 DEF BusDrops
  <1>4. ASSUME NEW q \in Requests, NEW code \in Early \cup {BadRequest}, Answer(q, code)
        PROVE  Moves(r)
    BY <1>4 DEF Answer
  <1>5. ASSUME NEW q \in Requests, pc[q] = "running", Advance(q)
        PROVE  Moves(r)
    BY <1>5 DEF Advance
  <1>6. ASSUME NEW q \in Requests, Arrive(q) PROVE Moves(r)
    <2>1. CASE Answer(q, Unauthorized)
      BY <1>4, <2>1 DEF Early
    <2>2. CASE pc' = [pc EXCEPT ![q] = "admitted"] /\ UNCHANGED <<call, status>>
      BY <2>2
    <2>3. QED
      BY <1>6, <2>1, <2>2 DEF Arrive
  <1>7. ASSUME NEW q \in Requests, Handle(q) PROVE Moves(r)
    <2>1. CASE \E code \in Early \cup {BadRequest} : Answer(q, code)
      BY <1>4, <2>1
    <2>2. CASE /\ Matching(call[q]) # {} /\ Accepts(RouteOf(call[q]), call[q])
               /\ pc' = [pc EXCEPT ![q] = "running"]
               /\ status' = [status EXCEPT ![q] = StatusAfterPolicy(q)]
               /\ UNCHANGED call
      <3>1. pc[q] = "admitted"
        BY <1>7 DEF Handle
      <3>2. QED
        BY <2>2, <3>1
    <2>3. QED
      BY <1>7, <2>1, <2>2 DEF Handle, Unmatched, Early
  <1>8. ASSUME NEW q \in Requests, Carry(q) PROVE Moves(r)
    BY <1>8 DEF Carry
  <1>9. ASSUME NEW q \in Requests,
               Succeed(q) \/ RefuseBootDevice(q) \/ CommandFails(q) \/ Deadline(q) \/ ConnectionGone(q)
        PROVE  Moves(r)
    <2>1. pc[q] = "running" /\ (Advance(q) \/ Answer(q, BadRequest))
      BY <1>9 DEF Succeed, RefuseBootDevice, CommandFails, Deadline, ConnectionGone, Fail
    <2>2. QED
      BY <1>4, <1>5, <2>1
  <1>10. QED
    BY <1>1, <1>2, <1>3, <1>6, <1>7, <1>8, <1>9 DEF Next

\* A request that the policy refused is never answered with success, although
\* its handler ran; and one that the policy allowed is never told 403
\* (authorizeWrite, whose refusal returns nil).
THEOREM StatusTellsTheTruth == Spec => []StatusTellsThePolicy
  <1>1. Init => StatusTellsThePolicy /\ VerdictKept
    BY DEF Init, StatusTellsThePolicy, VerdictKept, Answered
  <1>2. IInv /\ StatusTellsThePolicy /\ VerdictKept /\ [Next]_vars
          => StatusTellsThePolicy' /\ VerdictKept'
    <2> SUFFICES ASSUME IInv, StatusTellsThePolicy, VerdictKept, [Next]_vars
                 PROVE  StatusTellsThePolicy' /\ VerdictKept'
      OBVIOUS
    <2> SUFFICES ASSUME NEW r \in Requests
                 PROVE  /\ (Answered(r, {Fine}) => Allowed(call[r]))'
                        /\ (Answered(r, {Forbidden}) => ~Allowed(call[r]))'
                        /\ pc'[r] = "running" =>
                             status'[r] = IF Allowed(call'[r]) THEN Fine ELSE Forbidden
      BY DEF StatusTellsThePolicy, VerdictKept
    <2>1. Moves(r)
      BY EveryStepMoves
    <2>2. call'[r] = call[r] /\ (Allowed(call'[r]) <=> Allowed(call[r]))
      BY <2>1 DEF Moves
    <2>3. pc[r] = "admitted" => status[r] = Fine
      BY OneRecord DEF IInv, Sound
    <2>4. Fine # Forbidden /\ Fine \notin Early \cup {BadRequest} /\ Forbidden \notin Early \cup {BadRequest}
      BY DEF Fine, Forbidden, Early, BadRequest, Unauthorized, NotFound,
             MethodNotAllowed, ServerError, Unavailable
    <2>5. QED
      BY <2>1, <2>2, <2>3, <2>4
      DEF Moves, StatusTellsThePolicy, VerdictKept, Answered, StatusAfterPolicy
  <1>3. QED
    BY <1>1, <1>2, AlwaysSound, PTL DEF Spec

\* With authentication off nobody is in a group, so no write request is ever
\* answered with success (ClaimsFromCtx, Authorize).
THEOREM NothingIsOkWithoutClaims ==
  ~AuthEnabled /\ Spec => [](\A r \in Requests : ~Answered(r, {Fine}))
  <1> SUFFICES ASSUME ~AuthEnabled
               PROVE  Spec => [](\A r \in Requests : ~Answered(r, {Fine}))
    OBVIOUS
  <1>1. StatusTellsThePolicy => \A r \in Requests : ~Answered(r, {Fine})
    BY DEF StatusTellsThePolicy, Allowed, GroupsOf
  <1>2. QED
    BY <1>1, StatusTellsTheTruth, PTL

-----------------------------------------------------------------------------
(***************************************************************************)
(* The route that nothing reaches.                                         *)
(***************************************************************************)

IsSequence(s) == \E S : s \in Seq(S)

\* Short tuples are sequences.
LEMMA Tuples ==
  ASSUME NEW a, NEW b, NEW c, NEW d, NEW e, NEW f
  PROVE  /\ IsSequence(<<a>>) /\ IsSequence(<<a, b>>) /\ IsSequence(<<a, b, c>>)
         /\ IsSequence(<<a, b, c, d, e>>) /\ IsSequence(<<a, b, c, d, e, f>>)
  <1> DEFINE S == {a, b, c, d, e, f}
  <1>1. /\ <<a>> \in Seq(S) /\ <<a, b>> \in Seq(S) /\ <<a, b, c>> \in Seq(S)
        /\ <<a, b, c, d, e>> \in Seq(S) /\ <<a, b, c, d, e, f>> \in Seq(S)
    OBVIOUS
  <1> HIDE DEF S
  <1>2. QED
    BY <1>1 DEF IsSequence

\* A concatenation is a sequence that begins with the first of the two.
LEMMA Concatenation ==
  ASSUME NEW s, NEW t, IsSequence(s), IsSequence(t)
  PROVE  /\ IsSequence(s \o t)
         /\ Len(s \o t) = Len(s) + Len(t) /\ Len(s) \in Nat /\ Len(t) \in Nat
         /\ \A i \in 1..Len(s) : (s \o t)[i] = s[i]
  <1>1. PICK S, T : s \in Seq(S) /\ t \in Seq(T)
    BY DEF IsSequence
  <1>2. s \in Seq(S \cup T) /\ t \in Seq(S \cup T)
    BY <1>1
  <1>3. s \o t \in Seq(S \cup T)
    BY <1>2
  <1>4. QED
    BY <1>2, <1>3 DEF IsSequence

\* The podman routes come first, whatever tables follow them.
PodmanFirst(s) ==
  /\ IsSequence(s) /\ Len(s) \in Nat /\ 1 <= Len(s)
  /\ s[1] = Route("POST", <<"podman", "containers", ":id", ":action">>,
                  "podman", "ContainerAction")

LEMMA PodmanStaysFirst ==
  ASSUME NEW s, NEW t, PodmanFirst(s), IsSequence(t)
  PROVE  PodmanFirst(s \o t)
  BY Concatenation DEF PodmanFirst

\* The first of the write routes is the podman route with an action word.
LEMMA FirstRoute ==
  /\ 1 \in 1..Len(WriteRoutes)
  /\ WriteRoutes[1] = Route("POST", <<"podman", "containers", ":id", ":action">>,
                            "podman", "ContainerAction")
  <1>1. IsSequence(PodmanRoutes)
    BY Tuples, Zenon DEF PodmanRoutes
  <1>2. IsSequence(SystemdRoutes)
    BY Tuples, Zenon DEF SystemdRoutes
  <1>3. IsSequence(NetworkRoutes)
    BY Tuples, Zenon DEF NetworkRoutes
  <1>4. IsSequence(FirewallRoutes)
    BY Tuples, Zenon DEF FirewallRoutes
  <1>5. IsSequence(StorageRoutes)
    BY Tuples, Zenon DEF StorageRoutes
  <1>6. IsSequence(ZFSRoutes)
    BY Tuples, Zenon DEF ZFSRoutes
  <1>7. IsSequence(CloudflareRoutes)
    BY Tuples, Zenon DEF CloudflareRoutes
  <1>8. IsSequence(SensorsRoutes)
    BY Tuples, Zenon DEF SensorsRoutes
  <1>9. /\ Len(PodmanRoutes) = 6
        /\ PodmanRoutes[1] = Route("POST", <<"podman", "containers", ":id", ":action">>,
                                   "podman", "ContainerAction")
    BY DEF PodmanRoutes
  <1>10. PodmanFirst(PodmanRoutes)
    BY <1>1, <1>9 DEF PodmanFirst
  <1>11. PodmanFirst(WriteRoutes)
    BY <1>2, <1>3, <1>4, <1>5, <1>6, <1>7, <1>8, <1>10, PodmanStaysFirst, Zenon DEF WriteRoutes
  <1>12. QED
    BY <1>11 DEF PodmanFirst

\* Fiber gives an exec request to the route with an action word, and that
\* knows no such word (registerAPIRoutes, ContainerAction).
LEMMA ExecIsRefused ==
  ASSUME NEW c \in Calls, IsExec(c)
  PROVE  ~Accepts(RouteOf(c), c)
  <1>1. /\ c.path \in Seq(STRING) /\ Len(c.path) = 4
        /\ c.path[1] = "podman" /\ c.path[2] = "containers" /\ c.path[4] = "exec"
        /\ c.method = "POST"
    <2>1. c.path \in Seq(STRING) /\ Len(c.path) = 4 /\ SubSeq(c.path, 1, 2) = <<"podman", "containers">>
      BY DEF IsExec
    <2>2. SubSeq(c.path, 1, 2)[1] = c.path[1] /\ SubSeq(c.path, 1, 2)[2] = c.path[2]
      BY <2>1
    <2>3. /\ <<"podman", "containers">>[1] = "podman"
          /\ <<"podman", "containers">>[2] = "containers"
      OBVIOUS
    <2>4. c.path[1] = "podman" /\ c.path[2] = "containers"
      BY <2>1, <2>2, <2>3, Zenon
    <2>5. QED
      BY <2>1, <2>4 DEF IsExec
  <1> DEFINE first == <<"podman", "containers", ":id", ":action">>
  <1>2. Len(first) = 4 /\ \A i \in 1..4 : first[i] \in Parameters \cup {c.path[i]}
    BY <1>1 DEF Parameters
  <1>3. Matches(WriteRoutes[1], c)
    BY <1>1, <1>2, FirstRoute DEF Matches, Route
  <1>4. Min(Matching(c)) = 1
    <2>1. 1 \in Matching(c) /\ \A i \in Matching(c) : i \in Nat /\ 1 <= i
      BY <1>3, FirstRoute DEF Matching
    <2>2. QED
      BY <2>1 DEF Min
  <1>5. RouteOf(c).module = "podman" /\ RouteOf(c).op = "ContainerAction"
    BY <1>4, FirstRoute DEF RouteOf, Route
  <1>6. Word(c) \notin Verbs
    BY <1>1 DEF Word, Verbs
  <1>7. QED
    BY <1>5, <1>6 DEF Accepts, PodmanAccepts, ContainerActionAccepts

\* Whoever asks, and whatever is installed: an exec request never reaches a
\* handler that runs commands, does nothing to the host and is answered with
\* an error.
THEOREM ExecNeverRuns ==
  Spec => [](\A r \in Requests : IsExec(call[r]) =>
               done[r] = {} /\ ~Answered(r, {Fine, Forbidden}))
  <1> DEFINE Stopped == \A r \in Requests : IsExec(call[r]) =>
                          /\ pc[r] \notin {"running", "cut"} /\ done[r] = {}
                          /\ pc[r] = "answered" => status[r] \in Early \cup {BadRequest}
  <1>1. Init => Stopped
    BY DEF Init
  <1>2. IInv /\ Stopped /\ [Next]_vars => Stopped'
    <2> SUFFICES ASSUME IInv, Stopped, [Next]_vars, NEW r \in Requests, IsExec(call'[r])
                 PROVE  /\ pc'[r] \notin {"running", "cut"} /\ done'[r] = {}
                        /\ pc'[r] = "answered" => status'[r] \in Early \cup {BadRequest}
      OBVIOUS
    <2>1. Moves(r) /\ call' = call
      BY EveryStepMoves DEF Moves
    <2>2. pc[r] \notin {"running", "cut"} /\ ~Accepts(RouteOf(call[r]), call[r])
      BY <2>1, ExecIsRefused DEF IInv, Kinds
    <2>3. pc'[r] \notin {"running", "cut"}
      BY <2>1, <2>2 DEF Moves
    <2>4. done'[r] = {}
      <3>1. ASSUME NEW q \in Requests, Carry(q) PROVE done'[r] = {}
        BY <2>1, <2>2, <3>1 DEF Carry, IInv, Records
      <3>2. CASE UNCHANGED done
        BY <2>1, <3>2
      <3>3. QED
        BY <3>1, <3>2 DEF Next, Boot, Kill, BusDrops, BusReturns, Arrive, Handle, Succeed,
           RefuseBootDevice, CommandFails, Deadline, ConnectionGone, Fail, Advance, Answer, vars,
           progress
    <2>5. pc'[r] = "answered" => status'[r] \in Early \cup {BadRequest}
      BY <2>1, <2>2 DEF Moves
    <2>6. QED
      BY <2>3, <2>4, <2>5
  <1>3. Stopped => \A r \in Requests : IsExec(call[r]) =>
                     done[r] = {} /\ ~Answered(r, {Fine, Forbidden})
    BY DEF Answered, Early, Fine, Forbidden, BadRequest, Unauthorized, NotFound,
           MethodNotAllowed, ServerError, Unavailable
  <1> HIDE DEF Stopped
  <1>4. QED
    BY <1>1, <1>2, <1>3, AlwaysSound, PTL DEF Spec
=============================================================================
