---------------------------- MODULE CertLifecycle ----------------------------
(***************************************************************************)
(* The serving certificate: the TLS manager (internal/certmanager/         *)
(* lifecycle.go) over the self-signed certificate store                    *)
(* (internal/secrets/selfsigned.go) over a secret store, through boot,     *)
(* renewal, failed reads and writes, and process restarts.                 *)
(*                                                                         *)
(* A bundle is issued under a number of its own.  The secret store keeps   *)
(* it as two secrets, cert.pem and key.pem, read and written one after the *)
(* other; Get and Put of one secret are one step each.  One goroutine at a *)
(* time runs the manager: the one that boots the process, then the renewal *)
(* loop, if anybody starts it.  Handshakes read served whenever the        *)
(* process is serving.                                                     *)
(***************************************************************************)
EXTENDS Integers, Sequences

CONSTANTS
  Persistent,   \* TRUE: systemd-creds on disk; FALSE: MemoryStore, lost on exit
  LoopStarted,  \* whether the program calls StartRenewalLoop
  RenewEvery,   \* the period of the renewal loop, in days
  Lifetime,     \* the validity of a certificate, in days
  MaxDays,      \* bound of the model: the last day
  MaxFaults,    \* bound: how many Gets and Puts fail
  MaxCrashes    \* bound: how often the process is killed

ASSUME ConstantsAssumption ==
  /\ Persistent \in BOOLEAN
  /\ LoopStarted \in BOOLEAN
  /\ RenewEvery \in Nat \ {0}
  /\ Lifetime \in Nat \ {0}
  /\ MaxDays \in Nat
  /\ MaxFaults \in Nat
  /\ MaxCrashes \in Nat

Absent  == 0    \* no such secret, or no certificate
Corrupt == -1   \* a secret that a write left undecryptable

VARIABLES
  day,      \* the clock
  cert,     \* secret certificates/<name>/cert.pem: a bundle number, Absent or Corrupt
  key,      \* secret certificates/<name>/key.pem
  issued,   \* issued[g]: the day bundle g was generated
  pc,       \* what the goroutine that runs the manager does next
  round,    \* why it does it
  booting,  \* whether it is the one that boots the process
  read,     \* cert.pem as GetCertificate has read it
  served,   \* TLSManager.cert: the numbers of its certificate and of its key
  pool,     \* tls.Config.ClientCAs: the number of the trusted certificate
  ticker,   \* the day of the next tick of the renewal loop
  faults,   \* how many Gets and Puts have failed
  crashes   \* how often the process was killed

store  == <<cert, key>>
thread == <<pc, round, booting, read>>
bounds == <<faults, crashes>>
vars   == <<day, store, issued, thread, served, pool, ticker, bounds>>

Secret  == Nat \cup {Corrupt}
Nothing == [cert |-> Absent, key |-> Absent]

TypeOK ==
  /\ day \in Nat
  /\ cert \in Secret
  /\ key \in Secret
  /\ issued \in Seq(Nat)
  /\ pc \in {"down", "readCert", "readKey", "generate", "putCert", "putKey", "getCA", "serve"}
  /\ round \in {"load", "bootstrap", "reload", "renew"}
  /\ booting \in BOOLEAN
  /\ read \in Nat
  /\ served \in [cert : Nat, key : Nat]
  /\ pool \in Nat
  /\ ticker \in Nat
  /\ faults \in 0 .. MaxFaults
  /\ crashes \in 0 .. MaxCrashes

Bundles == 1 .. Len(issued)

\* The bundle being issued, or issued last.
Newest == Len(issued)

\* Whether today's handshakes accept bundle g: NotAfter is Lifetime after a
\* NotBefore that lies five minutes before the day it was issued.
Valid(g) == day < issued[g] + Lifetime

\* The process listens: boot is over.
Serving == pc # "down" /\ ~booting

\* Mutant: Get returns what it finds, decrypted or not.
ReadablePresent(secret) == secret # Absent

\* Get finds the secret and decrypts it.
Readable(secret) == secret \in Bundles

\* Mutant: the halves are not compared.
IsPairUnchecked(c, k) == TRUE

\* tls.X509KeyPair accepts the halves that were read.
IsPair(c, k) == c = k


-----------------------------------------------------------------------------
Init ==
  /\ day = 0
  /\ cert = Absent
  /\ key = Absent
  /\ issued = <<>>
  /\ pc = "down"
  /\ round = "load"
  /\ booting = FALSE
  /\ read = Absent
  /\ served = Nothing
  /\ pool = Absent
  /\ ticker = 0
  /\ faults = 0
  /\ crashes = 0

\* Goto the next step of the manager, in round r.
Goto(step, r) == pc' = step /\ round' = r

\* One more Get or Put fails.
Fault ==
  /\ faults < MaxFaults
  /\ faults' = faults + 1

\* What the process keeps in memory is gone, with the MemoryStore's secrets.
Exit(certOnDisk, keyOnDisk) ==
  /\ Goto("down", "load")
  /\ booting' = FALSE
  /\ read' = Absent
  /\ served' = Nothing
  /\ pool' = Absent
  /\ ticker' = 0
  /\ cert' = IF Persistent THEN certOnDisk ELSE Absent
  /\ key' = IF Persistent THEN keyOnDisk ELSE Absent

\* An error ends the round: New returns it and the process exits, the renewal
\* loop ignores it and waits for the next tick.
GiveUp(certOnDisk, keyOnDisk) ==
  \/ /\ booting
     /\ Exit(certOnDisk, keyOnDisk)
  \/ /\ ~booting
     /\ Goto("serve", "load")
     /\ cert' = certOnDisk
     /\ key' = keyOnDisk
     /\ read' = Absent
     /\ UNCHANGED <<booting, served, pool, ticker>>

-----------------------------------------------------------------------------
(* loadOrBootstrap *)

\* Mutant: boot issues a certificate without looking for one.
LaunchIssues ==
  /\ pc = "down"
  /\ Goto("generate", "bootstrap")
  /\ booting' = TRUE
  /\ UNCHANGED <<day, store, issued, read, served, pool, ticker, bounds>>

\* systemd starts the process, app.New gets to NewTLSManager.
Launch ==
  /\ pc = "down"
  /\ Goto("readCert", "load")
  /\ booting' = TRUE
  /\ UNCHANGED <<day, store, issued, read, served, pool, ticker, bounds>>

\* Mutant: only a certificate that does not exist is issued.
LoadFailsUnlessAbsent ==
  \/ /\ round = "load" /\ cert = Absent
     /\ Goto("generate", "bootstrap")
     /\ read' = Absent
     /\ UNCHANGED <<store, booting, served, pool, ticker>>
  \/ /\ round = "reload" \/ cert # Absent
     /\ GiveUp(cert, key)

\* GetCertificate failed.  Any error of the first call leads to Issue; an error
\* of the second is loadOrBootstrap's.
LoadFails ==
  \/ /\ round = "load"
     /\ Goto("generate", "bootstrap")
     /\ read' = Absent
     /\ UNCHANGED <<store, booting, served, pool, ticker>>
  \/ /\ round = "reload"
     /\ GiveUp(cert, key)

\* GetCertificate's Get of cert.pem.
ReadCert ==
  /\ pc = "readCert"
  /\ \/ /\ Readable(cert)
        /\ read' = cert
        /\ Goto("readKey", round)
        /\ UNCHANGED <<store, booting, served, pool, ticker, faults>>
     \/ /\ ~Readable(cert)
        /\ LoadFails
        /\ UNCHANGED faults
     \/ /\ Persistent
        /\ Fault
        /\ LoadFails
  /\ UNCHANGED <<day, issued, crashes>>

\* GetCertificate's Get of key.pem and tls.X509KeyPair; then the manager takes
\* the bundle, whatever its dates.
ReadKey ==
  /\ pc = "readKey"
  /\ \/ /\ Readable(key) /\ IsPair(read, key)
        /\ served' = [cert |-> read, key |-> key]
        /\ Goto(IF booting THEN "getCA" ELSE "serve", "load")
        /\ read' = Absent
        /\ UNCHANGED <<store, booting, pool, ticker, faults>>
     \/ /\ ~(Readable(key) /\ IsPair(read, key))
        /\ LoadFails
        /\ UNCHANGED faults
     \/ /\ Persistent
        /\ Fault
        /\ LoadFails
  /\ UNCHANGED <<day, issued, crashes>>

-----------------------------------------------------------------------------
(* Issue, for loadOrBootstrap (round "bootstrap") and for Renew ("renew") *)

Generate ==
  /\ pc = "generate"
  /\ issued' = Append(issued, day)
  /\ Goto("putCert", round)
  /\ UNCHANGED <<day, store, booting, read, served, pool, ticker, bounds>>

\* A Put that fails, or that a kill interrupts, leaves the old secret, the new
\* one, or a file that does not decrypt.
Half(old) == {old, Newest, Corrupt}

PutCert ==
  /\ pc = "putCert"
  /\ \/ /\ cert' = Newest
        /\ Goto("putKey", round)
        /\ UNCHANGED <<key, booting, read, served, pool, ticker, faults>>
     \/ /\ Persistent
        /\ Fault
        /\ \E c \in Half(cert) : GiveUp(c, key)
  /\ UNCHANGED <<day, issued, crashes>>

\* Mutant: the loop renews the stored bundle and does not load it.
PutKeyNoReload ==
  /\ pc = "putKey"
  /\ \/ /\ key' = Newest
        /\ Goto(IF round = "renew" THEN "serve" ELSE "readCert",
                IF round = "renew" THEN "load" ELSE "reload")
        /\ UNCHANGED <<cert, booting, read, served, pool, ticker, faults>>
     \/ /\ Persistent
        /\ Fault
        /\ \E k \in Half(key) : GiveUp(cert, k)
  /\ UNCHANGED <<day, issued, crashes>>

\* After Renew the loop calls loadOrBootstrap; after its own Issue
\* loadOrBootstrap reads the bundle back.
PutKey ==
  /\ pc = "putKey"
  /\ \/ /\ key' = Newest
        /\ Goto("readCert", IF round = "renew" THEN "load" ELSE "reload")
        /\ UNCHANGED <<cert, booting, read, served, pool, ticker, faults>>
     \/ /\ Persistent
        /\ Fault
        /\ \E k \in Half(key) : GiveUp(cert, k)
  /\ UNCHANGED <<day, issued, crashes>>

-----------------------------------------------------------------------------
(* Boot's last step, the renewal loop, the end of the process, time *)

\* server.New takes the stored certificate, which was read a moment ago, as the
\* trust pool, once; then the process listens, and the renewal loop, if started,
\* starts its ticker.
GetCA ==
  /\ pc = "getCA"
  /\ \/ /\ Readable(cert)
        /\ pool' = cert
        /\ booting' = FALSE
        /\ ticker' = day + RenewEvery
        /\ Goto("serve", "load")
        /\ UNCHANGED <<store, read, served, faults>>
     \/ /\ Persistent
        /\ Fault
        /\ Exit(cert, key)
  /\ UNCHANGED <<day, issued, crashes>>

\* The ticker of the renewal loop has fired.
TickDue == LoopStarted /\ Serving /\ pc = "serve" /\ day >= ticker

\* The loop takes a tick and calls Renew.
RenewalTick ==
  /\ TickDue
  /\ ticker' = ticker + RenewEvery
  /\ Goto("generate", "renew")
  /\ UNCHANGED <<day, store, issued, booting, read, served, pool, bounds>>

\* The process is killed, perhaps in the middle of a Put.
Crash ==
  /\ pc # "down"
  /\ crashes < MaxCrashes
  /\ crashes' = crashes + 1
  /\ \E c \in IF pc = "putCert" THEN Half(cert) ELSE {cert},
        k \in IF pc = "putKey" THEN Half(key) ELSE {key} : Exit(c, k)
  /\ UNCHANGED <<day, issued, faults>>

\* A day passes while the process is down, or serving with no tick to take: at
\* this scale a round of the manager takes no time.
DayPasses ==
  /\ day < MaxDays
  /\ pc \in {"down", "serve"}
  /\ ~TickDue
  /\ day' = day + 1
  /\ UNCHANGED <<store, issued, thread, served, pool, ticker, bounds>>

Next ==
  \/ Launch \/ ReadCert \/ ReadKey \/ Generate \/ PutCert \/ PutKey
  \/ GetCA \/ RenewalTick \/ Crash \/ DayPasses

Spec == Init /\ [][Next]_vars

(***************************************************************************)
(* Fairness: systemd restarts the process (Restart=on-failure) and the Go  *)
(* scheduler runs the manager's goroutine to the end of its round.  Kills, *)
(* failures and the passing of days are nobody's duty.                     *)
(***************************************************************************)
Manager == Launch \/ ReadCert \/ ReadKey \/ Generate \/ PutCert \/ PutKey \/ GetCA \/ RenewalTick

FairSpec == Spec /\ WF_vars(Manager)

-----------------------------------------------------------------------------
(* Properties *)

\* A handshake always gets a certificate, with the key that belongs to it,
\* whatever kills and failed writes left in the store: nothing half written is
\* ever installed, and nothing installed is lost to a failed renewal.
HandshakesGetAPair ==
  Serving \/ pc = "getCA" => served.cert \in Bundles /\ served.key = served.cert

\* The oldest bundle a handshake may yet get: the stored one, or one that is
\* still to be stored.
OldestToCome ==
  IF cert \in Bundles THEN cert ELSE IF pc = "putCert" THEN Newest ELSE Newest + 1

\* Handshakes are a CertOffer: neither a torn write, a failed renewal, a kill nor
\* a restart makes the process present an older certificate than it did before,
\* or one without its key (loadOrBootstrap, Issue).
Offers ==
  INSTANCE CertOffer WITH offer <- IF Serving THEN <<served.cert, served.key>> ELSE <<>>,
                          floor <- OldestToCome

ImplementsCertOffer == Offers!Spec

\* While no Get or Put has failed, a manager at rest serves the bundle that is
\* in the store, also after kills in the middle of a write.
ServedIsStored ==
  pc = "serve" /\ faults = 0 => served.cert = cert /\ served.key = key

\* The client trust pool is taken after the manager may have replaced the stored
\* bundle, so it trusts the certificate being served (as long as no loop renews).
PoolIsServed == Serving => pool = served.cert

\* loadOrBootstrap issues only when the stored bundle is missing or torn: it
\* never replaces a good one, while no Get or Put has failed.
BootKeepsAGoodBundle ==
  pc = "generate" /\ round = "bootstrap" /\ faults = 0 =>
    ~(cert \in Bundles /\ key = cert)

\* The process always comes back to serving, whatever was left half written.
ComesBack == []<>Serving

\* TLSManager "refreshes it before expiry" (lifecycle.go:13): with the loop, at a
\* period shorter than the lifetime, handshakes never get an expired certificate.
\* A boot that finds a stored bundle installs it whatever its dates, so only until
\* the first kill if the secrets are on disk; and a failed renewal waits a period.
ServesUnexpired ==
  /\ LoopStarted /\ RenewEvery < Lifetime
  /\ faults = 0 /\ (Persistent => crashes = 0)
  /\ Serving
  => Valid(served.cert)

\* loadOrBootstrap leaves a certificate "ready for live handshakes"
\* (lifecycle.go:69): what boot has just installed has not expired.
InstallsUnexpired == pc = "getCA" => Valid(served.cert)
=============================================================================
