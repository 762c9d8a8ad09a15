------------------------ MODULE CertLifecycleProofs -------------------------
(* What TLAPS proves of CertLifecycle, for every lifetime, period and bound,   *)
(* with a store on disk or in memory, with or without the renewal loop.        *)
EXTENDS CertLifecycle, TLAPS

USE ConstantsAssumption DEF ConstantsAssumption

-----------------------------------------------------------------------------
(* Types *)

Control ==
  /\ pc \in {"down", "readCert", "readKey", "generate", "putCert", "putKey", "getCA", "serve"}
  /\ round \in {"load", "bootstrap", "reload", "renew"}
  /\ booting \in BOOLEAN

Memory == read \in Nat /\ served \in [cert : Nat, key : Nat] /\ pool \in Nat /\ ticker \in Nat

Stored == cert \in Secret /\ key \in Secret

Kinds == Control /\ Memory /\ Stored

History ==
  day \in Nat /\ issued \in Seq(Nat) /\ faults \in 0 .. MaxFaults /\ crashes \in 0 .. MaxCrashes

\* TypeOK in two parts: what a round changes, and what lasts.
LEMMA TypeParts == TypeOK <=> Kinds /\ History
  BY DEF TypeOK, Kinds, History, Control, Memory, Stored

\* A process that ends leaves a well-typed state.
LEMMA ExitTypes ==
  ASSUME Kinds, NEW c \in Secret, NEW k \in Secret, Exit(c, k)
  PROVE  Kinds'
  <1>1. Control'
    BY DEF Exit, Goto, Control
  <1>2. Memory'
    BY DEF Exit, Memory, Nothing, Absent
  <1>3. Stored'
    BY DEF Exit, Stored, Secret, Absent
  <1>4. QED
    BY <1>1, <1>2, <1>3 DEF Kinds

\* So does a round that an error ends.
LEMMA GiveUpTypes ==
  ASSUME Kinds, NEW c \in Secret, NEW k \in Secret, GiveUp(c, k)
  PROVE  Kinds'
  <1>1. CASE booting /\ Exit(c, k)
    BY <1>1, ExitTypes
  <1>2. CASE ~booting /\ ~(booting /\ Exit(c, k))
    <2>1. Control'
      BY <1>2 DEF GiveUp, Goto, Kinds, Control
    <2>2. Memory'
      BY <1>2 DEF GiveUp, Kinds, Memory, Absent
    <2>3. Stored'
      BY <1>2 DEF GiveUp, Stored
    <2>4. QED
      BY <2>1, <2>2, <2>3 DEF Kinds
  <1>3. QED
    BY <1>1, <1>2 DEF GiveUp

\* So does a load that fails, in whatever round.
LEMMA LoadFailsTypes ==
  ASSUME Kinds, LoadFails
  PROVE  Kinds'
  <1>1. CASE round = "load"
    <2>1. Control'
      BY <1>1 DEF LoadFails, Goto, Kinds, Control
    <2>2. Memory' /\ Stored'
      BY <1>1 DEF LoadFails, Kinds, Memory, Stored, Absent, store
    <2>3. QED
      BY <2>1, <2>2 DEF Kinds
  <1>2. CASE round = "reload"
    <2>1. GiveUp(cert, key)
      BY <1>2 DEF LoadFails
    <2>2. QED
      BY <2>1, GiveUpTypes DEF Kinds, Stored
  <1>3. QED
    BY <1>1, <1>2 DEF LoadFails

\* Halves are secrets.
LEMMA HalfTypes ==
  ASSUME TypeOK, NEW old \in Secret
  PROVE  Half(old) \subseteq Secret
  BY DEF Half, Secret, Newest, TypeOK

\* Every step of the manager, of the process and of time keeps the types.
LEMMA TypeStep == TypeOK /\ [Next]_vars => TypeOK'
  <1> SUFFICES ASSUME TypeOK, [Next]_vars PROVE TypeOK'
    OBVIOUS
  <1> USE DEF Goto
  <1>0. Kinds /\ History /\ (Kinds' /\ History' => TypeOK')
    BY DEF TypeOK, Kinds, History, Control, Memory, Stored
  <1>1. CASE Launch
    <2>1. Control' /\ Memory' /\ Stored'
      BY <1>0, <1>1 DEF Launch, Kinds, Control, Memory, Stored, store
    <2>2. History'
      BY <1>0, <1>1 DEF Launch, History, bounds
    <2>3. QED
      BY <1>0, <2>1, <2>2 DEF Kinds
  <1>2. CASE ReadCert
    <2>1. CASE Readable(cert) /\ read' = cert /\ pc' = "readKey"
               /\ UNCHANGED <<round, store, booting, served, pool, ticker, faults>>
      BY <1>0, <1>2, <2>1 DEF ReadCert, Kinds, Control, Memory, Stored, store, History,
                              Readable, Bundles
    <2>2. CASE LoadFails /\ (UNCHANGED faults \/ Fault)
      <3>1. Kinds'
        BY <1>0, <2>2, LoadFailsTypes
      <3>2. History'
        BY <1>0, <1>2, <2>2 DEF ReadCert, History, Fault
      <3>3. QED
        BY <1>0, <3>1, <3>2
    <2>3. QED
      BY <1>2, <2>1, <2>2 DEF ReadCert
  <1>3. CASE ReadKey
    <2>1. CASE /\ Readable(key) /\ IsPair(read, key)
               /\ served' = [cert |-> read, key |-> key]
               /\ pc' = (IF booting THEN "getCA" ELSE "serve") /\ round' = "load"
               /\ read' = Absent
               /\ UNCHANGED <<store, booting, pool, ticker, faults>>
      <3>1. Control' /\ Stored'
        BY <1>0, <2>1 DEF Kinds, Control, Stored, store
      <3>2. Memory'
        BY <1>0, <2>1 DEF Kinds, Memory, Absent, Readable, Bundles
      <3>3. History'
        BY <1>0, <1>3, <2>1 DEF ReadKey, History
      <3>4. QED
        BY <1>0, <3>1, <3>2, <3>3 DEF Kinds
    <2>2. CASE LoadFails /\ (UNCHANGED faults \/ Fault)
      <3>1. Kinds'
        BY <1>0, <2>2, LoadFailsTypes
      <3>2. History'
        BY <1>0, <1>3, <2>2 DEF ReadKey, History, Fault
      <3>3. QED
        BY <1>0, <3>1, <3>2
    <2>3. QED
      BY <1>3, <2>1, <2>2 DEF ReadKey
  <1>4. CASE Generate
    <2>1. Control' /\ Memory' /\ Stored'
      BY <1>0, <1>4 DEF Generate, Kinds, Control, Memory, Stored, store
    <2>2. History'
      BY <1>0, <1>4 DEF Generate, History, bounds
    <2>3. QED
      BY <1>0, <2>1, <2>2 DEF Kinds
  <1>5. CASE PutCert
    <2>1. CASE cert' = Newest /\ pc' = "putKey"
               /\ UNCHANGED <<round, key, booting, read, served, pool, ticker, faults>>
      BY <1>0, <1>5, <2>1 DEF PutCert, Kinds, Control, Memory, Stored, Secret, Newest, History
    <2>2. CASE Fault /\ \E c \in Half(cert) : GiveUp(c, key)
      <3>1. Kinds'
        BY <1>0, <2>2, GiveUpTypes, HalfTypes DEF Kinds, Stored
      <3>2. History'
        BY <1>0, <1>5, <2>2 DEF PutCert, History, Fault
      <3>3. QED
        BY <1>0, <3>1, <3>2
    <2>3. QED
      BY <1>5, <2>1, <2>2 DEF PutCert
  <1>6. CASE PutKey
    <2>1. CASE /\ key' = Newest /\ pc' = "readCert"
               /\ round' = (IF round = "renew" THEN "load" ELSE "reload")
               /\ UNCHANGED <<cert, booting, read, served, pool, ticker, faults>>
      BY <1>0, <1>6, <2>1 DEF PutKey, Kinds, Control, Memory, Stored, Secret, Newest, History
    <2>2. CASE Fault /\ \E k \in Half(key) : GiveUp(cert, k)
      <3>1. Kinds'
        BY <1>0, <2>2, GiveUpTypes, HalfTypes DEF Kinds, Stored
      <3>2. History'
        BY <1>0, <1>6, <2>2 DEF PutKey, History, Fault
      <3>3. QED
        BY <1>0, <3>1, <3>2
    <2>3. QED
      BY <1>6, <2>1, <2>2 DEF PutKey
  <1>7. CASE GetCA
    <2>1. CASE /\ Readable(cert) /\ pool' = cert /\ booting' = FALSE
               /\ ticker' = day + RenewEvery /\ pc' = "serve" /\ round' = "load"
               /\ UNCHANGED <<store, read, served, faults>>
      <3>1. Control' /\ Stored'
        BY <1>0, <2>1 DEF Kinds, Control, Stored, store
      <3>2. Memory'
        BY <1>0, <2>1 DEF Kinds, Memory, History, Readable, Bundles
      <3>3. History'
        BY <1>0, <1>7, <2>1 DEF GetCA, History
      <3>4. QED
        BY <1>0, <3>1, <3>2, <3>3 DEF Kinds
    <2>2. CASE Fault /\ Exit(cert, key)
      <3>1. Kinds'
        BY <1>0, <2>2, ExitTypes DEF Kinds, Stored
      <3>2. History'
        BY <1>0, <1>7, <2>2 DEF GetCA, History, Fault
      <3>3. QED
        BY <1>0, <3>1, <3>2
    <2>3. QED
      BY <1>7, <2>1, <2>2 DEF GetCA
  <1>8. CASE RenewalTick
    <2>1. Control' /\ Memory' /\ Stored'
      BY <1>0, <1>8 DEF RenewalTick, Kinds, Control, Memory, Stored, store
    <2>2. History'
      BY <1>0, <1>8 DEF RenewalTick, History, bounds
    <2>3. QED
      BY <1>0, <2>1, <2>2 DEF Kinds
  <1>9. CASE Crash
    <2>1. PICK c \in IF pc = "putCert" THEN Half(cert) ELSE {cert},
               k \in IF pc = "putKey" THEN Half(key) ELSE {key} : Exit(c, k)
      BY <1>9 DEF Crash
    <2>2. c \in Secret /\ k \in Secret
      BY <1>0, HalfTypes DEF Kinds, Stored
    <2>3. Kinds'
      BY <1>0, <2>1, <2>2, ExitTypes
    <2>4. History'
      BY <1>0, <1>9 DEF Crash, History
    <2>5. QED
      BY <1>0, <2>3, <2>4
  <1>10. CASE DayPasses
    <2>1. Control' /\ Memory' /\ Stored'
      BY <1>0, <1>10 DEF DayPasses, Kinds, Control, Memory, Stored, store, thread
    <2>2. History'
      BY <1>0, <1>10 DEF DayPasses, History, bounds
    <2>3. QED
      BY <1>0, <2>1, <2>2 DEF Kinds
  <1>11. CASE UNCHANGED vars
    BY <1>0, <1>11 DEF vars, store, thread, bounds, Kinds, Control, Memory, Stored, History
  <1>12. QED
    BY <1>1, <1>2, <1>3, <1>4, <1>5, <1>6, <1>7, <1>8, <1>9, <1>10, <1>11 DEF Next

\* The type invariant of the certificate lifecycle.
THEOREM TypeCorrect == Spec => []TypeOK
  <1>1. Init => TypeOK
    <2> SUFFICES ASSUME Init PROVE TypeOK
      OBVIOUS
    <2>1. Control /\ Stored
      BY DEF Init, Control, Stored, Secret, Absent
    <2>2. Memory /\ History
      BY DEF Init, Memory, History, Nothing, Absent
    <2>3. QED
      BY <2>1, <2>2, TypeParts DEF Kinds
  <1>2. QED
    BY <1>1, TypeStep, PTL DEF Spec

-----------------------------------------------------------------------------
(***************************************************************************)
(* What handshakes get.  The strengthening says where in a round the       *)
(* process is, that the half already read is a whole secret, and that the  *)
(* trust pool's certificate is the one just installed.                     *)
(***************************************************************************)

Phase ==
  /\ pc = "down" => ~booting
  /\ pc = "getCA" => booting
  /\ pc = "serve" => ~booting

HalfRead == pc = "readKey" => read \in Bundles /\ read = cert

Installed ==
  /\ HandshakesGetAPair
  /\ pc = "getCA" => served.cert = cert

PoolKept == ~LoopStarted => (~booting => pc \in {"down", "serve"}) /\ PoolIsServed

ServingInv == Phase /\ HalfRead /\ Installed /\ PoolKept

\* Every step keeps what handshakes get, and the trust pool.
LEMMA ServingStep == TypeOK /\ ServingInv /\ [Next]_vars => ServingInv'
  <1> SUFFICES ASSUME TypeOK, ServingInv, [Next]_vars PROVE ServingInv'
    OBVIOUS
  <1> USE DEF TypeOK, Secret, Nothing, Absent, Corrupt, store, thread, bounds, Bundles,
              ServingInv, Phase, HalfRead, Installed, HandshakesGetAPair, PoolKept,
              PoolIsServed, Serving
  <1>1. CASE Launch
    BY <1>1 DEF Launch, Goto
  <1>2. CASE ReadCert
    BY <1>2 DEF ReadCert, Readable, LoadFails, GiveUp, Exit, Fault, Goto, Bundles
  <1>3. CASE ReadKey
    BY <1>3 DEF ReadKey, Readable, IsPair, LoadFails, GiveUp, Exit, Fault, Goto, Bundles
  <1>4. CASE Generate
    BY <1>4 DEF Generate, Goto
  <1>5. CASE PutCert
    BY <1>5 DEF PutCert, GiveUp, Exit, Fault, Goto, Half, Newest, Secret
  <1>6. CASE PutKey
    BY <1>6 DEF PutKey, GiveUp, Exit, Fault, Goto, Half, Newest, Secret
  <1>7. CASE GetCA
    BY <1>7 DEF GetCA, Readable, Exit, Fault, Goto, Bundles
  <1>8. CASE RenewalTick
    BY <1>8 DEF RenewalTick, Goto, TickDue
  <1>9. CASE Crash
    BY <1>9 DEF Crash, Exit, Goto, Half, Newest, Secret
  <1>10. CASE DayPasses
    BY <1>10 DEF DayPasses, TickDue
  <1>11. CASE UNCHANGED vars
    BY <1>11 DEF vars
  <1>12. QED
    BY <1>1, <1>2, <1>3, <1>4, <1>5, <1>6, <1>7, <1>8, <1>9, <1>10, <1>11 DEF Next

\* The strengthening is an invariant.
LEMMA ServingInvariant == Spec => []ServingInv
  <1>1. Init => ServingInv
    BY DEF Init, ServingInv, Phase, HalfRead, Installed, HandshakesGetAPair, PoolKept,
           PoolIsServed, Serving
  <1>2. QED
    BY <1>1, ServingStep, TypeCorrect, PTL DEF Spec

\* A serving process always has a certificate and the key that belongs to it,
\* whatever kills and failed writes left in the store.
THEOREM PairsAreServed == Spec => []HandshakesGetAPair
  <1>1. ServingInv => HandshakesGetAPair
    BY DEF ServingInv, Installed
  <1>2. QED
    BY <1>1, ServingInvariant, PTL

\* Without a renewal loop, the client trust pool is the served certificate.
THEOREM PoolFollows == ~LoopStarted /\ Spec => []PoolIsServed
  <1> SUFFICES ASSUME ~LoopStarted PROVE Spec => []PoolIsServed
    OBVIOUS
  <1>1. ServingInv => PoolIsServed
    BY DEF ServingInv, PoolKept
  <1>2. QED
    BY <1>1, ServingInvariant, PTL

-----------------------------------------------------------------------------
(***************************************************************************)
(* The manager and the store, while no Get or Put has failed.  A round     *)
(* that has written both halves reads them back; between the two writes    *)
(* only a kill can leave them apart, and then nothing is served.           *)
(***************************************************************************)

Written == cert = Newest /\ key = Newest

Issuing ==
  /\ pc \in {"putCert", "putKey"} => Newest >= 1
  /\ pc = "putKey" => cert = Newest
  /\ pc \in {"readCert", "readKey"} /\ (round = "reload" \/ ~booting) =>
       Written /\ Newest >= 1

StoreInv == faults = 0 => Issuing /\ ServedIsStored /\ BootKeepsAGoodBundle
                          /\ (pc = "getCA" => served.cert = cert /\ served.key = key)

\* Every step keeps the manager and the store together.
LEMMA StoreStep == TypeOK /\ ServingInv /\ StoreInv /\ [Next]_vars => StoreInv'
  <1> SUFFICES ASSUME TypeOK, ServingInv, StoreInv, [Next]_vars PROVE StoreInv'
    OBVIOUS
  <1> USE DEF TypeOK, Secret, Nothing, Absent, Corrupt, store, thread, bounds, Bundles, Newest,
              ServingInv, Phase, HalfRead, StoreInv, Issuing, Written, ServedIsStored,
              BootKeepsAGoodBundle
  <1>1. CASE Launch
    BY <1>1 DEF Launch, Goto
  <1>2. CASE ReadCert
    BY <1>2 DEF ReadCert, Readable, LoadFails, GiveUp, Exit, Fault, Goto, Bundles
  <1>3. CASE ReadKey
    BY <1>3 DEF ReadKey, Readable, IsPair, LoadFails, GiveUp, Exit, Fault, Goto, Bundles
  <1>4. CASE Generate
    BY <1>4 DEF Generate, Goto
  <1>5. CASE PutCert
    BY <1>5 DEF PutCert, GiveUp, Exit, Fault, Goto, Half, Newest, Secret
  <1>6. CASE PutKey
    BY <1>6 DEF PutKey, GiveUp, Exit, Fault, Goto, Half, Newest, Secret
  <1>7. CASE GetCA
    BY <1>7 DEF GetCA, Readable, Exit, Fault, Goto, Bundles
  <1>8. CASE RenewalTick
    BY <1>8 DEF RenewalTick, Goto, TickDue
  <1>9. CASE Crash
    BY <1>9 DEF Crash, Exit, Goto, Half, Newest, Secret
  <1>10. CASE DayPasses
    BY <1>10 DEF DayPasses, TickDue
  <1>11. CASE UNCHANGED vars
    BY <1>11 DEF vars
  <1>12. QED
    BY <1>1, <1>2, <1>3, <1>4, <1>5, <1>6, <1>7, <1>8, <1>9, <1>10, <1>11 DEF Next

\* The manager and the store agree in every state.
LEMMA StoreInvariant == Spec => []StoreInv
  <1>1. Init => StoreInv
    BY DEF Init, StoreInv, Issuing, ServedIsStored, BootKeepsAGoodBundle
  <1>2. QED
    BY <1>1, StoreStep, TypeCorrect, ServingInvariant, PTL DEF Spec

\* A manager at rest serves the stored bundle, also after kills between the two
\* writes of a bundle.
THEOREM StoreIsServed == Spec => []ServedIsStored
  <1>1. StoreInv => ServedIsStored
    BY DEF StoreInv, ServedIsStored
  <1>2. QED
    BY <1>1, StoreInvariant, PTL

\* Boot never replaces a good bundle.
THEOREM GoodBundlesStay == Spec => []BootKeepsAGoodBundle
  <1>1. StoreInv => BootKeepsAGoodBundle
    BY DEF StoreInv, BootKeepsAGoodBundle
  <1>2. QED
    BY <1>1, StoreInvariant, PTL
-----------------------------------------------------------------------------
(***************************************************************************)
(* The dates.  Until a Get or Put fails, or a kill leaves a bundle on      *)
(* disk, a boot finds no stored bundle and so issues one of the day; and   *)
(* with the loop, what is served is never older than the tick that         *)
(* replaces it.                                                            *)
(***************************************************************************)

Undisturbed == faults = 0 /\ (Persistent => crashes = 0)

Renewable == LoopStarted /\ RenewEvery < Lifetime /\ Undisturbed

\* What the manager has just issued is of the day.
NewOfToday ==
  /\ pc \in {"putCert", "putKey"} => issued[Newest] = day
  /\ pc \in {"readCert", "readKey"} /\ (round = "reload" \/ ~booting) => issued[Newest] = day
  /\ pc = "getCA" => issued[served.cert] = day

\* A boot starts from an empty store.
BootsEmpty ==
  /\ pc = "down" => cert = Absent
  /\ pc \in {"readCert", "readKey"} /\ booting /\ round = "load" => pc = "readCert" /\ cert = Absent
  /\ pc \in {"readCert", "readKey"} => round \in {"load", "reload"}
  /\ pc \in {"generate", "putCert", "putKey"} /\ booting => round = "bootstrap"

FreshInv == Undisturbed => NewOfToday /\ BootsEmpty

\* The next tick is at most a period after the issue of what is served.
TickInTime ==
  /\ pc = "serve" => day <= ticker /\ ticker <= issued[served.cert] + RenewEvery
  /\ Serving /\ pc # "serve" =>
       ticker = day + RenewEvery /\ day <= issued[served.cert] + RenewEvery

TicksInv == Renewable => TickInTime

\* Nothing undoes a fault or a kill.
LEMMA UndisturbedBefore ==
  ASSUME TypeOK, [Next]_vars, Undisturbed'
  PROVE  Undisturbed
  BY DEF Undisturbed, TypeOK, Next, Launch, ReadCert, ReadKey, Generate, PutCert, PutKey,
         GetCA, RenewalTick, Crash, DayPasses, Fault, bounds, vars

\* In an undisturbed process the manager reads back what it has just issued.
LEMMA ReadsBack ==
  ASSUME TypeOK, ServingInv, StoreInv, FreshInv, Undisturbed, Undisturbed'
  PROVE  /\ ReadCert /\ booting /\ round = "load" =>
              /\ pc' = "generate" /\ round' = "bootstrap"
              /\ UNCHANGED <<store, booting, ticker, issued, day>>
         /\ ReadCert /\ ~(booting /\ round = "load") =>
              pc' = "readKey" /\ UNCHANGED <<round, store, booting, served, ticker, issued, day>>
         /\ ReadKey =>
              /\ read = Newest /\ Newest >= 1 /\ issued[Newest] = day
              /\ served' = [cert |-> read, key |-> key]
              /\ pc' = (IF booting THEN "getCA" ELSE "serve") /\ round' = "load"
              /\ UNCHANGED <<store, booting, ticker, issued, day>>
  <1> USE DEF TypeOK, Secret, Absent, Corrupt, store, Bundles, Newest, ServingInv, Phase, HalfRead,
              StoreInv, Issuing, Written, Undisturbed, FreshInv, NewOfToday, BootsEmpty
  <1>1. ASSUME ReadCert, booting, round = "load"
        PROVE  /\ pc' = "generate" /\ round' = "bootstrap"
               /\ UNCHANGED <<store, booting, ticker, issued, day>>
    <2>1. ~Readable(cert)
      BY <1>1 DEF ReadCert, Readable
    <2>2. QED
      BY <1>1, <2>1 DEF ReadCert, LoadFails, Fault, Goto
  <1>2. ASSUME ReadCert, ~(booting /\ round = "load")
        PROVE  pc' = "readKey" /\ UNCHANGED <<round, store, booting, served, ticker, issued, day>>
    <2>1. Readable(cert)
      BY <1>2 DEF ReadCert, Readable
    <2>2. QED
      BY <1>2, <2>1 DEF ReadCert, Fault, Goto
  <1>3. ASSUME ReadKey
        PROVE  /\ read = Newest /\ Newest >= 1 /\ issued[Newest] = day
               /\ served' = [cert |-> read, key |-> key]
               /\ pc' = (IF booting THEN "getCA" ELSE "serve") /\ round' = "load"
               /\ UNCHANGED <<store, booting, ticker, issued, day>>
    <2>1. read = cert /\ cert = Newest /\ key = Newest /\ Newest >= 1 /\ issued[Newest] = day
      BY <1>3 DEF ReadKey
    <2>2. QED
      BY <1>3, <2>1 DEF ReadKey, Readable, IsPair, Fault, Goto
  <1>4. QED
    BY <1>1, <1>2, <1>3

\* Every step of an undisturbed process keeps what it issues new.
LEMMA FreshStep == TypeOK /\ ServingInv /\ StoreInv /\ FreshInv /\ [Next]_vars => FreshInv'
  <1> SUFFICES ASSUME TypeOK, ServingInv, StoreInv, FreshInv, [Next]_vars, Undisturbed'
               PROVE  NewOfToday' /\ BootsEmpty'
    BY DEF FreshInv
  <1>0. Undisturbed /\ NewOfToday /\ BootsEmpty
    BY UndisturbedBefore DEF FreshInv
  <1>2. CASE ReadCert
    <2>1. pc = "readCert"
      BY <1>2 DEF ReadCert
    <2>2. QED
      BY <1>0, <1>2, <2>1, ReadsBack DEF NewOfToday, BootsEmpty, Newest, store
  <1>3. CASE ReadKey
    BY <1>0, <1>3, ReadsBack DEF NewOfToday, BootsEmpty, Newest, store
  <1> USE <1>0 DEF TypeOK, Secret, Nothing, Absent, Corrupt, store, thread, bounds, Bundles, Newest,
              ServingInv, Phase, Installed, StoreInv, Issuing, Undisturbed, NewOfToday, BootsEmpty
  <1>1. CASE Launch
    BY <1>1 DEF Launch, Goto
  <1>4. CASE Generate
    BY <1>4 DEF Generate, Goto
  <1>5. CASE PutCert
    BY <1>5 DEF PutCert, Fault, Goto
  <1>6. CASE PutKey
    BY <1>6 DEF PutKey, Fault, Goto
  <1>7. CASE GetCA
    BY <1>7 DEF GetCA, Readable, Fault, Goto
  <1>8. CASE RenewalTick
    BY <1>8 DEF RenewalTick, Goto, TickDue
  <1>9. CASE Crash
    BY <1>9 DEF Crash, Exit, Goto
  <1>10. CASE DayPasses
    BY <1>10 DEF DayPasses, TickDue
  <1>11. CASE UNCHANGED vars
    BY <1>11 DEF vars
  <1>12. QED
    BY <1>1, <1>2, <1>3, <1>4, <1>5, <1>6, <1>7, <1>8, <1>9, <1>10, <1>11 DEF Next

\* Every step keeps the ticks in time.
LEMMA TicksStep ==
  TypeOK /\ ServingInv /\ StoreInv /\ FreshInv /\ TicksInv /\ [Next]_vars => TicksInv'
  <1> SUFFICES ASSUME TypeOK, ServingInv, StoreInv, FreshInv, TicksInv, [Next]_vars, Renewable'
               PROVE  TickInTime'
    BY DEF TicksInv
  <1>0. Undisturbed /\ Undisturbed' /\ LoopStarted /\ RenewEvery < Lifetime
        /\ NewOfToday /\ BootsEmpty /\ TickInTime
    BY UndisturbedBefore DEF Renewable, FreshInv, TicksInv
  <1>2. CASE ReadCert
    <2>1. pc' \in {"readKey", "generate"} /\ (pc' = "readKey" => served' = served)
          /\ (booting => booting') /\ UNCHANGED <<booting, ticker, issued, day>>
      BY <1>0, <1>2, ReadsBack
    <2>2. QED
      BY <1>0, <1>2, <2>1, ReadsBack DEF ReadCert, TickInTime, Serving
  <1>3. CASE ReadKey
    <2>1. /\ read = Newest /\ issued[Newest] = day
          /\ served' = [cert |-> read, key |-> key]
          /\ pc' = (IF booting THEN "getCA" ELSE "serve")
          /\ UNCHANGED <<booting, ticker, issued, day>>
      BY <1>0, <1>3, ReadsBack
    <2>2. issued'[served'.cert] = day /\ day \in Nat /\ RenewEvery \in Nat
      BY <2>1 DEF TypeOK
    <2>3. QED
      BY <1>0, <1>3, <2>1, <2>2 DEF ReadKey, TickInTime, Serving
  <1> USE <1>0 DEF TypeOK, Secret, Nothing, Absent, Corrupt, store, thread, bounds, Bundles, Newest,
              ServingInv, Phase, Installed, HandshakesGetAPair, Serving, StoreInv, Issuing,
              Undisturbed, NewOfToday, BootsEmpty, TickInTime
  <1>1. CASE Launch
    BY <1>1 DEF Launch, Goto
  <1>4. CASE Generate
    BY <1>4 DEF Generate, Goto
  <1>5. CASE PutCert
    BY <1>5 DEF PutCert, Fault, Goto
  <1>6. CASE PutKey
    BY <1>6 DEF PutKey, Fault, Goto
  <1>7. CASE GetCA
    BY <1>7 DEF GetCA, Readable, Fault, Goto
  <1>8. CASE RenewalTick
    BY <1>8 DEF RenewalTick, Goto, TickDue
  <1>9. CASE Crash
    BY <1>9 DEF Crash, Exit, Goto
  <1>10. CASE DayPasses
    BY <1>10 DEF DayPasses, TickDue
  <1>11. CASE UNCHANGED vars
    BY <1>11 DEF vars
  <1>12. QED
    BY <1>1, <1>2, <1>3, <1>4, <1>5, <1>6, <1>7, <1>8, <1>9, <1>10, <1>11 DEF Next

\* What an undisturbed process issues is of the day, in every state.
LEMMA FreshInvariant == Spec => []FreshInv
  <1>1. Init => FreshInv
    BY DEF Init, FreshInv, NewOfToday, BootsEmpty
  <1>2. QED
    BY <1>1, FreshStep, TypeCorrect, ServingInvariant, StoreInvariant, PTL DEF Spec

\* With the loop at a period shorter than the lifetime, nothing expired is
\* served until a read or write fails or a kill leaves an old bundle on disk.
THEOREM NothingExpiredIsServed == Spec => []ServesUnexpired
  <1>1. Init => TicksInv
    BY DEF Init, TicksInv, TickInTime, Serving
  <1>2. TypeOK /\ ServingInv /\ TicksInv => ServesUnexpired
    <2> SUFFICES ASSUME TypeOK, ServingInv, TicksInv, Renewable, Serving
                 PROVE  Valid(served.cert)
      BY DEF ServesUnexpired, Renewable, Undisturbed
    <2>1. served.cert \in Bundles
      BY DEF ServingInv, Installed, HandshakesGetAPair
    <2>2. day <= issued[served.cert] + RenewEvery
      BY <2>1 DEF TicksInv, TickInTime, TypeOK, Bundles
    <2>3. QED
      BY <2>1, <2>2 DEF Valid, Renewable, TypeOK, Bundles
  <1>3. QED
    BY <1>1, <1>2, TicksStep, FreshInvariant, TypeCorrect, ServingInvariant, StoreInvariant, PTL DEF Spec

\* Over the in-memory store no boot installs an expired certificate, with or
\* without the loop: every boot issues its own.  So the disk is what the expired
\* certificate of a restart needs (loadOrBootstrap).
THEOREM MemoryInstallsUnexpired == ~Persistent /\ Spec => []InstallsUnexpired
  <1> SUFFICES ASSUME ~Persistent PROVE Spec => []InstallsUnexpired
    OBVIOUS
  <1> DEFINE NoFaults == faults = 0
  <1>1. Init => NoFaults
    BY DEF Init
  <1>2. NoFaults /\ [Next]_vars => NoFaults'
    BY DEF Next, Launch, ReadCert, ReadKey, Generate, PutCert, PutKey, GetCA, RenewalTick, Crash,
           DayPasses, bounds, vars
  <1>3. TypeOK /\ ServingInv /\ FreshInv /\ NoFaults => InstallsUnexpired
    <2> SUFFICES ASSUME TypeOK, ServingInv, FreshInv, NoFaults, pc = "getCA"
                 PROVE  Valid(served.cert)
      BY DEF InstallsUnexpired
    <2>1. served.cert \in Bundles /\ issued[served.cert] = day
      BY DEF ServingInv, Installed, HandshakesGetAPair, FreshInv, Undisturbed, NewOfToday
    <2>2. QED
      BY <2>1 DEF Valid, TypeOK
  <1> HIDE DEF NoFaults
  <1>4. QED
    BY <1>1, <1>2, <1>3, FreshInvariant, TypeCorrect, ServingInvariant, PTL DEF Spec

-----------------------------------------------------------------------------
(***************************************************************************)
(* The lifecycle implements CertOffer.  OldestToCome never falls, and what *)
(* a round or a boot puts before the handshakes is at that floor: the pair *)
(* it has read is the stored one.                                          *)
(***************************************************************************)

\* No step brings an older bundle back.
LEMMA FloorStep ==
  ASSUME TypeOK, ServingInv, [Next]_vars
  PROVE  /\ OldestToCome \in Nat /\ OldestToCome' \in Nat
         /\ OldestToCome <= OldestToCome'
  <1> USE DEF TypeOK, Secret, Absent, Corrupt, store, thread, bounds, Bundles, Newest, OldestToCome
  <1>1. OldestToCome \in Nat
    OBVIOUS
  <1>2. CASE Generate
    BY <1>2 DEF Generate, Goto
  <1>3. CASE PutCert
    BY <1>3 DEF PutCert, GiveUp, Exit, Goto, Half
  <1>4. CASE PutKey
    BY <1>4 DEF PutKey, GiveUp, Exit, Goto
  <1>5. CASE Crash
    BY <1>5 DEF Crash, Exit, Goto, Half
  <1>6. CASE ReadCert \/ ReadKey
    <2>1. pc \in {"readCert", "readKey"} /\ UNCHANGED issued
      BY <1>6 DEF ReadCert, ReadKey
    <2>2. /\ pc' # "putCert"
          /\ cert' = cert \/ cert' = Absent
      BY <1>6 DEF ReadCert, ReadKey, LoadFails, GiveUp, Exit, Goto
    <2>3. QED
      BY <2>1, <2>2
  <1>7. CASE Launch \/ GetCA \/ RenewalTick \/ DayPasses \/ UNCHANGED vars
    <2>1. CASE UNCHANGED <<cert, issued, pc>>
      BY <2>1
    <2>2. CASE pc # "putCert" /\ pc' # "putCert" /\ UNCHANGED issued /\ (cert' = cert \/ cert' = Absent)
      BY <2>2
    <2>3. QED
      BY <1>7, <2>1, <2>2 DEF Launch, GetCA, Exit, RenewalTick, TickDue, DayPasses, Goto, vars
  <1>8. QED
    BY <1>1, <1>2, <1>3, <1>4, <1>5, <1>6, <1>7 DEF Next

\* What handshakes get changes only to a bundle at the floor.
LEMMA OfferStep ==
  ASSUME TypeOK, ServingInv, [Next]_vars, Serving'
  PROVE  \/ Serving /\ served' = served
         \/ served'.cert \in OldestToCome .. OldestToCome'
  <1> USE DEF TypeOK, Nothing, Absent, store, thread, bounds, Bundles, Serving,
              ServingInv, Phase, HalfRead, Installed
  <1>1. CASE ReadKey
    <2>1. CASE Serving /\ served' = served
      BY <2>1
    <2>2. CASE ~(Serving /\ served' = served)
      <3>1. /\ read \in Bundles /\ read = cert
            /\ served' = [cert |-> read, key |-> key]
            /\ UNCHANGED <<cert, issued>>
        BY <1>1, <2>2 DEF ReadKey, LoadFails, GiveUp, Exit, Goto
      <3>2. served'.cert = OldestToCome /\ served'.cert = OldestToCome' /\ served'.cert \in Nat
        BY <3>1 DEF OldestToCome
      <3>3. QED
        BY <3>2
    <2>3. QED
      BY <2>1, <2>2
  <1>2. CASE GetCA
    <2>1. cert \in Bundles /\ served.cert = cert /\ UNCHANGED <<served, cert, issued>>
      BY <1>2 DEF GetCA, Readable, Exit, Goto
    <2>2. served'.cert = OldestToCome /\ served'.cert = OldestToCome' /\ served'.cert \in Nat
      BY <2>1 DEF OldestToCome
    <2>3. QED
      BY <2>2
  <1>3. CASE ReadCert
    BY <1>3 DEF ReadCert, LoadFails, GiveUp, Exit, Goto
  <1>4. CASE PutCert
    BY <1>4 DEF PutCert, GiveUp, Exit, Goto
  <1>5. CASE PutKey
    BY <1>5 DEF PutKey, GiveUp, Exit, Goto
  <1>6. CASE Launch \/ Generate \/ RenewalTick \/ DayPasses \/ Crash \/ UNCHANGED vars
    BY <1>6 DEF Launch, Generate, RenewalTick, TickDue, DayPasses, Crash, Exit, Goto, vars
  <1>7. QED
    BY <1>1, <1>2, <1>3, <1>4, <1>5, <1>6 DEF Next

\* The certificate lifecycle is a CertOffer: for every lifetime, period and
\* number of kills and failed writes, on disk or in memory.
THEOREM LifecycleIsAnOffer == Spec => ImplementsCertOffer
  <1>1. Init => Offers!Init
    <2> SUFFICES ASSUME Init PROVE Offers!Init
      OBVIOUS
    <2>1. OldestToCome = 1
      BY DEF Init, OldestToCome, Bundles, Newest, Absent
    <2>2. ~Serving
      BY DEF Init, Serving
    <2>3. QED
      BY <2>1, <2>2 DEF Offers!Init, Offers!NoOffer
  <1>2. TypeOK /\ ServingInv /\ TypeOK' /\ ServingInv' /\ [Next]_vars
          => [Offers!Next]_<<IF Serving THEN <<served.cert, served.key>> ELSE <<>>, OldestToCome>>
    <2> SUFFICES ASSUME TypeOK, ServingInv, TypeOK', ServingInv', [Next]_vars
                 PROVE  Offers!Next
      OBVIOUS
    <2>1. Offers!Supersedes
      BY FloorStep DEF Offers!Supersedes
    <2>2. CASE ~Serving'
      BY <2>1, <2>2 DEF Offers!Next, Offers!Closes, Offers!NoOffer
    <2>3. CASE Serving' /\ Serving /\ served' = served
      BY <2>1, <2>3 DEF Offers!Next
    <2>4. CASE Serving' /\ served'.cert \in OldestToCome .. OldestToCome'
      <3>1. served'.key = served'.cert /\ served'.cert > 0
        BY <2>4 DEF ServingInv, Installed, HandshakesGetAPair, Bundles, TypeOK
      <3>2. Offers!OffersBundle
        BY <2>4, <3>1 DEF Offers!OffersBundle
      <3>3. QED
        BY <2>1, <3>2 DEF Offers!Next
    <2>5. QED
      BY <2>2, <2>3, <2>4, OfferStep
  <1>3. QED
    BY <1>1, <1>2, TypeCorrect, ServingInvariant, PTL DEF Spec, ImplementsCertOffer, Offers!Spec

\* What is offered never lies above what may yet be offered.
OfferedAtMost == Serving => served.cert <= OldestToCome

\* A client that was once shown certificate g is never shown an older one, by
\* this process or by one that was restarted after a kill in the middle of a
\* renewal.
THEOREM CertificatesGetNoOlder ==
  ASSUME NEW g \in Nat
  PROVE  Spec => [](Serving /\ served.cert = g => [](Serving => g <= served.cert))
  <1> DEFINE Since == g <= OldestToCome /\ (Serving => g <= served.cert)
  <1>1. Init => OfferedAtMost
    BY DEF Init, OfferedAtMost, Serving
  <1>2. TypeOK /\ ServingInv /\ OfferedAtMost /\ [Next]_vars => OfferedAtMost'
    BY FloorStep, OfferStep DEF OfferedAtMost, TypeOK
  <1>3. TypeOK /\ ServingInv /\ Since /\ [Next]_vars => Since'
    <2> SUFFICES ASSUME TypeOK, ServingInv, Since, [Next]_vars PROVE Since'
      OBVIOUS
    <2>1. g <= OldestToCome'
      BY FloorStep
    <2>2. ASSUME Serving' PROVE g <= served'.cert
      BY <2>2, FloorStep, OfferStep
    <2>3. QED
      BY <2>1, <2>2
  <1>4. TypeOK /\ OfferedAtMost /\ (Serving /\ served.cert = g) => Since
    BY DEF OfferedAtMost, TypeOK
  <1>5. Since => (Serving => g <= served.cert)
    OBVIOUS
  <1> HIDE DEF Since
  <1>6. QED
    BY <1>1, <1>2, <1>3, <1>4, <1>5, TypeCorrect, ServingInvariant, PTL DEF Spec
=============================================================================
