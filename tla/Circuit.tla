------------------------------ MODULE Circuit ------------------------------
(***************************************************************************)
(* LoadZkCircuit (src/crypto/zk/circuit/circuit.go): the circuit          *)
(* artifacts (proving key, verification key, wasm) are read from the      *)
(* local cache and checked against the configured hashes; when that      *)
(* fails they are downloaded one after the other, each stored in the      *)
(* cache as soon as it arrives, and the downloaded contents are checked.  *)
(*                                                                         *)
(* Several loaders (goroutines or processes sharing LocalDir) run at once *)
(* on the same cache files.  File contents are abstracted to whether      *)
(* their hash matches ("good"), does not ("bad"), or the file was         *)
(* truncated by os.Create and not yet written ("partial").                *)
(***************************************************************************)
EXTENDS Naturals

CONSTANTS
  Loaders,       \* concurrent LoadZkCircuit calls
  NArtifacts,    \* proving key, verification key, wasm: 3
  RemoteServes,  \* what the remote location may serve for an artifact
  Faults         \* downloads and stores may fail, loaders may crash

ASSUME NArtifacts \in Nat \ {0} /\ Faults \in BOOLEAN
ASSUME RemoteServes \subseteq {"good", "bad"}

Artifacts == 1..NArtifacts
Contents == {"good", "bad", "partial"}

VARIABLES
  disk,     \* the cache file of each artifact, or "absent"
  pc,       \* per loader: where it is in LoadZkCircuit
  idx,      \* per loader: the artifact being read or downloaded
  mem,      \* per loader: the artifact contents it holds, or "none"
  excused   \* per loader: a download or store of it failed, it crashed, or
            \* the remote served it a non-matching artifact

vars == <<disk, pc, idx, mem, excused>>

Pcs == {"start", "local", "verifyLocal", "remote", "create", "write", "verify",
        "done", "failed", "crashed"}

Init ==
  /\ disk \in [Artifacts -> Contents \cup {"absent"}]
  /\ pc = [l \in Loaders |-> "start"]
  /\ idx = [l \in Loaders |-> 1]
  /\ mem = [l \in Loaders |-> [a \in Artifacts |-> "none"]]
  /\ excused = [l \in Loaders |-> FALSE]

\* VerifiedCircuitArtifacts with checkHash: every content's hash matches.
VerifiedCircuitArtifacts(m) == \A a \in Artifacts : m[a] = "good"

Goto(l, where, i) == pc' = [pc EXCEPT ![l] = where] /\ idx' = [idx EXCEPT ![l] = i]

\* LoadZkCircuit starts with LoadLocal.
Start(l) ==
  /\ pc[l] = "start"
  /\ Goto(l, "local", 1)
  /\ UNCHANGED <<disk, mem, excused>>

\* LoadLocal reads the artifact files in order and returns an error at the
\* first missing one, on which LoadZkCircuit goes to LoadRemote.
LoadLocal(l) ==
  LET i == idx[l] IN
  /\ pc[l] = "local"
  /\ \/ /\ disk[i] = "absent"
        /\ Goto(l, "remote", 1)
        /\ UNCHANGED mem
     \/ /\ disk[i] # "absent"
        /\ mem' = [mem EXCEPT ![l][i] = disk[i]]
        /\ IF i = NArtifacts THEN Goto(l, "verifyLocal", i) ELSE Goto(l, "local", i + 1)
  /\ UNCHANGED <<disk, excused>>

\* Seeded fault (mutation testing): a local hash mismatch is returned as an
\* error instead of falling back to the remote location.
VerifyLocalNoFallback(l) ==
  /\ pc[l] = "verifyLocal"
  /\ IF VerifiedCircuitArtifacts(mem[l]) THEN Goto(l, "done", idx[l])
                                          ELSE Goto(l, "failed", idx[l])
  /\ UNCHANGED <<disk, mem, excused>>

\* The loaded artifacts are returned when their hashes match; otherwise
\* LoadZkCircuit goes to LoadRemote.
VerifyLocal(l) ==
  /\ pc[l] = "verifyLocal"
  /\ IF VerifiedCircuitArtifacts(mem[l]) THEN Goto(l, "done", idx[l])
                                          ELSE Goto(l, "remote", 1)
  /\ UNCHANGED <<disk, mem, excused>>

\* downloadFile: the body of a 200 response, or "error" when the URL does
\* not parse, the request cannot be built or sent, the status is not 200 or
\* the body cannot be read.
downloadFile == RemoteServes \cup (IF Faults THEN {"error"} ELSE {})

\* LoadRemote: the next artifact is fetched with downloadFile; on an error
\* LoadZkCircuit returns it.
Download(l) ==
  LET i == idx[l] IN
  /\ pc[l] = "remote"
  /\ \/ \E v \in downloadFile \ {"error"} :
          /\ mem' = [mem EXCEPT ![l][i] = v]
          /\ excused' = [excused EXCEPT ![l] = @ \/ v # "good"]
          /\ Goto(l, "create", i)
     \/ /\ "error" \in downloadFile
        /\ excused' = [excused EXCEPT ![l] = TRUE]
        /\ Goto(l, "failed", i)
        /\ UNCHANGED mem
  /\ UNCHANGED disk

\* storeFile, first half: os.Create truncates the cache file.
StoreCreate(l) ==
  LET i == idx[l] IN
  /\ pc[l] = "create"
  /\ \/ /\ disk' = [disk EXCEPT ![i] = "partial"]
        /\ Goto(l, "write", i)
        /\ UNCHANGED excused
     \/ /\ Faults
        /\ excused' = [excused EXCEPT ![l] = TRUE]
        /\ Goto(l, "failed", i)
        /\ UNCHANGED disk
  /\ UNCHANGED mem

\* Seeded fault (mutation testing): the content never reaches the file.
StoreWriteLost(l) ==
  LET i == idx[l] IN
  /\ pc[l] = "write"
  /\ \/ /\ IF i = NArtifacts THEN Goto(l, "verify", i) ELSE Goto(l, "remote", i + 1)
        /\ UNCHANGED <<disk, excused>>
     \/ /\ Faults
        /\ excused' = [excused EXCEPT ![l] = TRUE]
        /\ Goto(l, "failed", i)
        /\ UNCHANGED disk
  /\ UNCHANGED mem

\* storeFile, second half: the content is written; then the next artifact
\* is downloaded, or the downloaded contents are checked.
StoreWrite(l) ==
  LET i == idx[l] IN
  /\ pc[l] = "write"
  /\ \/ /\ disk' = [disk EXCEPT ![i] = mem[l][i]]
        /\ IF i = NArtifacts THEN Goto(l, "verify", i) ELSE Goto(l, "remote", i + 1)
        /\ UNCHANGED excused
     \/ /\ Faults
        /\ excused' = [excused EXCEPT ![l] = TRUE]
        /\ Goto(l, "failed", i)
        /\ UNCHANGED disk
  /\ UNCHANGED mem

\* The downloaded contents are returned when their hashes match; otherwise
\* LoadZkCircuit returns an error.
VerifyRemote(l) ==
  /\ pc[l] = "verify"
  /\ IF VerifiedCircuitArtifacts(mem[l]) THEN Goto(l, "done", idx[l])
                                          ELSE Goto(l, "failed", idx[l])
  /\ UNCHANGED <<disk, mem, excused>>

\* The loader's process stops; the cache keeps what was written.
Crash(l) ==
  /\ Faults
  /\ pc[l] \in {"local", "verifyLocal", "remote", "create", "write", "verify"}
  /\ excused' = [excused EXCEPT ![l] = TRUE]
  /\ Goto(l, "crashed", idx[l])
  /\ UNCHANGED <<disk, mem>>

\* Every loader has returned or stopped.
AllReturned ==
  /\ \A l \in Loaders : pc[l] \in {"done", "failed", "crashed"}
  /\ UNCHANGED vars

Next ==
  \/ \E l \in Loaders :
        \/ Start(l) \/ LoadLocal(l) \/ VerifyLocal(l) \/ Download(l)
        \/ StoreCreate(l) \/ StoreWrite(l) \/ VerifyRemote(l) \/ Crash(l)
  \/ AllReturned

Spec == Init /\ [][Next]_vars

-----------------------------------------------------------------------------
(* Properties *)

\* LoadZkCircuit returns an error only when one of its own downloads or
\* stores failed or the remote served it a non-matching artifact: a missing,
\* stale or truncated cache file, also one another loader is rewriting at
\* that moment, is repaired by downloading.
LoadFailsOnlyOnFault ==
  \A l \in Loaders : pc[l] = "failed" => excused[l]

\* The cache heals: once every loader has returned, none of them met a
\* fault and one returned a circuit, every cache file holds the matching
\* artifact, although loaders truncated and rewrote the same files
\* concurrently.
CacheRepairedWhenNoFault ==
  (/\ \A l \in Loaders : pc[l] \in {"done", "failed", "crashed"} /\ ~excused[l]
   /\ \E l \in Loaders : pc[l] = "done")
    => \A a \in Artifacts : disk[a] = "good"
=============================================================================
