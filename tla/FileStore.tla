------------------------------ MODULE FileStore ------------------------------
(***************************************************************************)
(* The certificate store over a directory (internal/secrets/filesystem.go) *)
(* under the TLS manager and the server's trust pool.  An operator's tool  *)
(* replaces server.crt, server.key and ca.crt one by one, each by the next *)
(* bundle's; reload reads them one by one, checks, and installs what it    *)
(* read.  The checks refuse what they cannot parse, and no more: a chain   *)
(* or a CA file that is cut after a certificate passes them.               *)
(* One goroutine reloads at a time: the one that boots the process, then   *)
(* the renewal loop, if anybody starts it.                                 *)
(***************************************************************************)
EXTENDS Naturals

CONSTANTS MaxBundles,       \* bound: how many bundles the tool brings
          MaxFileCrashes    \* bound: how often the process is killed

ASSUME FileStoreAssumption == MaxBundles \in Nat /\ MaxFileCrashes \in Nat

Files == {"cert", "key", "ca"}

\* The files of several certificates, which parse from the first one on.
OfSeveral == {"cert", "ca"}

VARIABLES
  file,         \* file[f]: the bundle the file belongs to, 0 while it is missing or does not parse
  cutShort,     \* the files that parse but lack certificates yet to be written
  written,      \* written[f]: the last bundle whose file the tool has begun to write
  reloadAt,     \* what the goroutine does next
  starting,     \* whether it is the one that boots the process
  contents,     \* contents[f]: what reload has read
  contentsCut,  \* cutShort, of what reload has read
  installed,    \* the store: the bundles of its pair and of its CA pool
  installedCut, \* cutShort, of what the store has
  offered,      \* TLSManager.cert
  clientCAs,    \* tls.Config.ClientCAs
  fileCrashes,
  unsettled,    \* history: whether the files were not one whole bundle while reload read them
  installedUnsettled   \* history: unsettled, of the reload that was installed last

disk == <<file, cutShort, written>>
reloader == <<reloadAt, starting, contents, contentsCut, unsettled>>
process == <<installed, installedCut, offered, clientCAs, installedUnsettled>>
fileStoreVars == <<disk, reloader, process, fileCrashes>>

NoPair == [cert |-> 0, key |-> 0]
NoBundle == [f \in Files |-> 0]

FileStoreTypeOK ==
  /\ file \in [Files -> 0 .. MaxBundles]
  /\ cutShort \subseteq OfSeveral
  /\ written \in [Files -> 0 .. MaxBundles]
  /\ reloadAt \in {"down", "readCert", "readKey", "readCA", "check", "take", "getCA", "idle"}
  /\ starting \in BOOLEAN
  /\ contents \in [Files -> 0 .. MaxBundles]
  /\ contentsCut \subseteq OfSeveral
  /\ installed \in [Files -> 0 .. MaxBundles]
  /\ installedCut \subseteq OfSeveral
  /\ reloadAt \in {"take", "getCA", "idle"} => installed \in [Files -> 1 .. MaxBundles]
  /\ offered \in [{"cert", "key"} -> 0 .. MaxBundles]
  /\ clientCAs \in 0 .. MaxBundles
  /\ fileCrashes \in 0 .. MaxFileCrashes
  /\ unsettled \in BOOLEAN
  /\ installedUnsettled \in BOOLEAN

FileStoreInit ==
  /\ file = NoBundle
  /\ cutShort = {}
  /\ written = NoBundle
  /\ reloadAt = "down"
  /\ starting = FALSE
  /\ contents = NoBundle
  /\ contentsCut = {}
  /\ installed = NoBundle
  /\ installedCut = {}
  /\ offered = NoPair
  /\ clientCAs = 0
  /\ fileCrashes = 0
  /\ unsettled = FALSE
  /\ installedUnsettled = FALSE

-----------------------------------------------------------------------------
(* The tool. *)

Reading == reloadAt \in {"readCert", "readKey", "readCA"}
SameBundle(files) == \A f, g \in Files : files[f] = files[g]

\* What the tool leaves when it is done with all three files.
OneWholeBundle == SameBundle(file) /\ cutShort = {}

\* A file becomes `bundle`, short of some certificates or not; a reload that is
\* reading meets the change.
SetFile(f, bundle, short) ==
  /\ file' = [file EXCEPT ![f] = bundle]
  /\ cutShort' = IF short THEN cutShort \cup {f} ELSE cutShort \ {f}
  /\ unsettled' = (unsettled \/ Reading)
  /\ UNCHANGED <<reloadAt, starting, contents, contentsCut, process, fileCrashes>>

\* The tool renames a new file into place, or truncates the old one and writes.
\* It begins the next bundle once all three files are of the last.
ReplaceFile(f) ==
  /\ written[f] < MaxBundles
  /\ SameBundle(written) \/ \E g \in Files : written[g] > written[f]
  /\ file = written /\ cutShort = {}
  /\ written' = [written EXCEPT ![f] = @ + 1]
  /\ \E bundle \in {0, written'[f]} : SetFile(f, bundle, FALSE)

\* The first certificate of a file is written, and others are yet to come.
WriteFirst(f) ==
  /\ f \in OfSeveral
  /\ file[f] # written[f]
  /\ SetFile(f, written[f], TRUE)
  /\ UNCHANGED written

FinishFile(f) ==
  /\ file[f] # written[f] \/ f \in cutShort
  /\ SetFile(f, written[f], FALSE)
  /\ UNCHANGED written

-----------------------------------------------------------------------------
(* reload. *)

BeginReload ==
  /\ reloadAt' = "readCert"
  /\ contents' = NoBundle
  /\ contentsCut' = {}
  /\ unsettled' = ~OneWholeBundle

\* systemd starts the process.
StartProcess ==
  /\ reloadAt = "down"
  /\ BeginReload
  /\ starting' = TRUE
  /\ UNCHANGED <<disk, process, fileCrashes>>

\* A tick of the renewal loop: Renew is a reload.
RenewFromFiles ==
  /\ reloadAt = "idle"
  /\ BeginReload
  /\ UNCHANGED <<disk, starting, process, fileCrashes>>

\* The process has ended, and its memory with it.
LosesMemory ==
  /\ reloadAt' = "down"
  /\ starting' = FALSE
  /\ contents' = NoBundle
  /\ contentsCut' = {}
  /\ unsettled' = FALSE
  /\ installed' = NoBundle
  /\ installedCut' = {}
  /\ offered' = NoPair
  /\ clientCAs' = 0
  /\ installedUnsettled' = FALSE

\* At boot the error ends the process; the renewal loop waits for its next tick.
ReloadFails ==
  IF starting
  THEN LosesMemory
  ELSE reloadAt' = "idle" /\ UNCHANGED <<starting, contents, contentsCut, unsettled, process>>

\* os.ReadFile of f.  A file that is there is read as it is; what does not parse
\* fails later, at the check.
ReadFile(f, next) ==
  \/ /\ contents' = [contents EXCEPT ![f] = file[f]]
     /\ contentsCut' = contentsCut \cup ({f} \cap cutShort)
     /\ reloadAt' = next
     /\ UNCHANGED <<starting, unsettled, process>>
  \/ /\ file[f] = 0
     /\ ReloadFails

ReadFiles ==
  /\ \/ reloadAt = "readCert" /\ ReadFile("cert", "readKey")
     \/ reloadAt = "readKey" /\ ReadFile("key", "readCA")
     \/ reloadAt = "readCA" /\ ReadFile("ca", "check")
  /\ UNCHANGED <<disk, fileCrashes>>

\* Mutant: the error of a file that does not parse is dropped.
PairAcceptsMissing == contents["key"] = contents["cert"]

\* tls.X509KeyPair: the key fits the first certificate, whatever chain follows.
PairAccepts == contents["cert"] # 0 /\ contents["key"] = contents["cert"]

\* AppendCertsFromPEM: one certificate that parses is enough.
PoolAccepts == contents["ca"] # 0

\* Mutant: the CA pool is installed although the pair was refused.
InstalledAfterRefusalOfCA ==
  IF contents["ca"] = 0 THEN installed ELSE [installed EXCEPT !["ca"] = contents["ca"]]

\* The store after a reload that was refused.
InstalledAfterRefusal == installed

\* The checks, and the assignments under the lock.
CheckAndInstall ==
  /\ reloadAt = "check"
  /\ IF PairAccepts /\ PoolAccepts
     THEN /\ reloadAt' = "take"
          /\ installed' = contents
          /\ installedCut' = contentsCut
          /\ installedUnsettled' = unsettled
          /\ UNCHANGED <<starting, contents, contentsCut, unsettled, offered, clientCAs>>
     ELSE IF starting
          THEN ReloadFails
          ELSE /\ reloadAt' = "idle"
               /\ installed' = InstalledAfterRefusal
               /\ UNCHANGED <<starting, contents, contentsCut, unsettled, installedCut,
                              offered, clientCAs, installedUnsettled>>
  /\ UNCHANGED <<disk, fileCrashes>>

\* loadOrBootstrap: GetCertificate returns what the store has.
TakeCertificate ==
  /\ reloadAt = "take"
  /\ offered' = [cert |-> installed["cert"], key |-> installed["key"]]
  /\ reloadAt' = IF starting THEN "getCA" ELSE "idle"
  /\ UNCHANGED <<disk, starting, contents, contentsCut, unsettled, installed, installedCut,
                 clientCAs, installedUnsettled, fileCrashes>>

\* server.New: GetCA.  The process then serves.
TakeClientCAs ==
  /\ reloadAt = "getCA"
  /\ clientCAs' = installed["ca"]
  /\ reloadAt' = "idle"
  /\ starting' = FALSE
  /\ UNCHANGED <<disk, contents, contentsCut, unsettled, installed, installedCut, offered,
                 installedUnsettled, fileCrashes>>

\* The process is killed.
KillProcess ==
  /\ reloadAt # "down"
  /\ fileCrashes < MaxFileCrashes
  /\ fileCrashes' = fileCrashes + 1
  /\ LosesMemory
  /\ UNCHANGED disk

FileStoreNext ==
  \/ \E f \in Files : ReplaceFile(f) \/ WriteFirst(f) \/ FinishFile(f)
  \/ StartProcess \/ RenewFromFiles \/ ReadFiles
  \/ CheckAndInstall \/ TakeCertificate \/ TakeClientCAs \/ KillProcess

FileStoreSpec == FileStoreInit /\ [][FileStoreNext]_fileStoreVars

-----------------------------------------------------------------------------
\* A handshake gets a certificate with its own key; and the store's pair and
\* trust pool are of one bundle, and all of it, unless the files were not one
\* whole bundle, or changed, while the reload that installed them read them.  A
\* reload that is refused changes nothing.  (The lock of reload does not cover the
\* reads and its checks take the first certificate of a file for all, so that a
\* replacement can tear pair and pool apart, and cut the chain and the pool.)
TornOnlyByReplacement ==
  /\ offered.cert = offered.key
  /\ ~installedUnsettled => SameBundle(installed) /\ installedCut = {}

\* The oldest certificate a handshake may yet get: what the reload under way has
\* read, what it has installed, or the file.
OldestToCome ==
  IF reloadAt \in {"readKey", "readCA", "check"} /\ contents["cert"] # 0
  THEN contents["cert"]
  ELSE IF reloadAt \in {"take", "getCA"} THEN installed["cert"] ELSE written["cert"]

\* The process listens: boot is over.
Listening == reloadAt # "down" /\ ~starting

\* Handshakes are a CertOffer here too: however the reloads meet the tool's
\* writes, and whenever the process dies, no client gets a certificate without
\* its key or an older one than before (reload, loadOrBootstrap).
Offers ==
  INSTANCE CertOffer WITH offer <- IF Listening THEN <<offered.cert, offered.key>> ELSE <<>>,
                          floor <- OldestToCome

ImplementsCertOffer == Offers!Spec
=============================================================================
