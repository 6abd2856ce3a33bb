-------------------------- MODULE ProgramRegistry --------------------------
(***************************************************************************)
(* Processes that load and train one saved programme (program_registry.go, *)
(* artifact.go, FileTrainLock in program_template.go).                     *)
(*                                                                         *)
(* Each process has a registry, whose factory for the programme may be     *)
(* replaced at any time, and a mutex per artifact path; all share the      *)
(* artifact and the lock file.  A programme is its shape.  What training   *)
(* finds is left open (Optimizer models it); it may fail.  A process may   *)
(* crash at any moment and start again.                                    *)
(***************************************************************************)
EXTENDS Integers

CONSTANTS
  Callers,       \* goroutines that call a registry
  Processes,
  ProcessOf,     \* caller -> its process
  OpsOf,         \* caller -> the operations it may call
  Versions,      \* programme versions a caller may state; "" states none
  Shapes,        \* what a factory may build
  FactoriesOf,   \* process -> the shapes its factory may build and how it may fail
  Unprinted,     \* the shapes that have no fingerprint
  None,          \* no caller
  Stale,         \* the holder of a lock file whose holder is gone
  MaxCalls       \* bound: how often each caller calls

\* An operation is "load" (LoadCompiledVersion), "train" (TrainAndSave), "loadOrTrain"
\* (LoadOrTrain) or "locked" (LoadOrTrainLocked).
Ops == {"load", "train", "loadOrTrain", "locked"}

\* A factory that is not registered, or that fails; its failure may be that a file it needs is
\* missing.
Broken == {"unregistered", "noFile"}

ASSUME RegistryAssumption ==
  /\ ProcessOf \in [Callers -> Processes]
  /\ OpsOf \in [Callers -> SUBSET Ops]
  /\ None # Stale /\ {None, Stale} \intersect Callers = {}
  /\ FactoriesOf \in [Processes -> SUBSET (Shapes \union Broken)]
  /\ "" \in Versions /\ "" \notin Shapes /\ Unprinted \subseteq Shapes
  /\ MaxCalls \in Nat

VARIABLES
  factory,   \* process -> the shape its factory builds, or how its factory fails
  at,        \* caller -> where its call is; "idle" when it is in none
  call,      \* caller -> its call
  mutex,     \* process -> the caller that holds trainingMutex of the path
  lockFile,  \* the caller that created the lock file; None when there is no file
  artifact,  \* the file at ArtifactPath
  returned,  \* history: what the call that returned last returned
  calls      \* caller -> the calls it has made

registryVars == <<factory, at, call, mutex, lockFile, artifact, returned, calls>>

-----------------------------------------------------------------------------
(* Artifacts, programmes and calls. *)

Fingerprint(s) == IF s \in Unprinted THEN "" ELSE s

\* by saved it, in the operation op; trainedFor is the shape it was trained for (all history).
NoArtifact == [by |-> None, op |-> "load", trainedFor |-> "", fingerprint |-> "", version |-> ""]

\* shape is what it trains, got the artifact it read; its marks are that its context has ended,
\* and, as history, that it took a factory's failure for a missing artifact.
NewCall(o, v) ==
  [op |-> o, version |-> v, got |-> NoArtifact, shape |-> "", marks |-> {}]

NoCall == NewCall("load", "")

\* Mutation: the artifact records the shape that is registered when it is saved.
MadeOfRegistered(c) ==
  [by |-> c, op |-> call[c].op, trainedFor |-> call[c].shape,
   fingerprint |-> Fingerprint(factory[ProcessOf[c]]), version |-> call[c].version]

\* TrainAndSave: the artifact of the programme that was trained.
Made(c) ==
  [by |-> c, op |-> call[c].op, trainedFor |-> call[c].shape,
   fingerprint |-> Fingerprint(call[c].shape), version |-> call[c].version]

\* validateArtifactProgramVersion.
VersionFits(a, v) == v = "" \/ a.version = "" \/ a.version = v

\* The version that may stand in for the fingerprint: LoadOrTrain states none.
Stated(c) == IF call[c].op = "load" THEN call[c].version ELSE ""

\* checkArtifactFingerprint.
FingerprintFits(a, s, v) ==
  \/ a.fingerprint = ""
  \/ v # "" /\ a.version = v
  \/ Fingerprint(s) = a.fingerprint

\* A call returns a programme of some shape with an artifact, or fails.
Failure == [shape |-> "", artifact |-> NoArtifact, stated |-> ""]

-----------------------------------------------------------------------------

RegistryInit ==
  /\ factory \in {f \in [Processes -> Shapes \union Broken] : \A p \in Processes : f[p] \in FactoriesOf[p]}
  /\ at = [c \in Callers |-> "idle"]
  /\ call = [c \in Callers |-> NoCall]
  /\ mutex = [p \in Processes |-> None]
  /\ lockFile = None
  /\ artifact = NoArtifact
  /\ returned = Failure
  /\ calls = [c \in Callers |-> 0]

GoTo(c, place) == at' = [at EXCEPT ![c] = place]

Freed(C) == [p \in Processes |-> IF mutex[p] \in C THEN None ELSE mutex[p]]

Forgotten(C) == [c \in Callers |-> IF c \in C THEN NoCall ELSE call[c]]

\* The call returns: LoadOrTrain unlocks the mutex, and LoadOrTrainLocked then the lock file.
Returns(c, r) ==
  /\ returned' = r
  /\ call' = Forgotten({c})
  /\ mutex' = Freed({c})
  /\ GoTo(c, IF call[c].op = "locked" THEN "unlock" ELSE "idle")

\* The call goes on, as what it now is.
Continues(c, now, place) ==
  /\ call' = [call EXCEPT ![c] = now]
  /\ GoTo(c, place)
  /\ UNCHANGED <<mutex, returned>>

\* Where an operation begins.
Entry(o) ==
  CASE o = "load" -> "read"
    [] o = "train" -> "build"
    [] o = "loadOrTrain" -> "mutex"
    [] o = "locked" -> "lock"

BeginCall(c) ==
  /\ at[c] = "idle" /\ calls[c] < MaxCalls
  /\ calls' = [calls EXCEPT ![c] = @ + 1]
  /\ \E o \in OpsOf[c], v \in Versions : Continues(c, NewCall(o, v), Entry(o))
  /\ UNCHANGED <<factory, lockFile, artifact>>

\* The context of a call ends; LoadCompiledVersion has none.
EndContext(c) ==
  /\ at[c] \notin {"idle", "unlock"} /\ call[c].op # "load"
  /\ call' = [call EXCEPT ![c].marks = @ \union {"ended"}]
  /\ UNCHANGED <<factory, at, mutex, lockFile, artifact, returned, calls>>

\* Mutation: a lock file that is there is taken for one's own.
TakeLockFile(c) ==
  /\ at[c] = "lock"
  /\ \/ lockFile' = c /\ GoTo(c, "mutex") /\ UNCHANGED call
     \/ lockFile' = Stale /\ GoTo(c, "idle") /\ call' = Forgotten({c})
  /\ UNCHANGED <<factory, mutex, artifact, returned, calls>>

\* FileTrainLock.Lock creates the lock file if it is not there; closing it may fail.
CreateLockFile(c) ==
  /\ at[c] = "lock"
  /\ lockFile = None
  /\ \/ lockFile' = c /\ GoTo(c, "mutex") /\ UNCHANGED call
     \/ lockFile' = Stale /\ GoTo(c, "idle") /\ call' = Forgotten({c})
  /\ UNCHANGED <<factory, mutex, artifact, returned, calls>>

\* While it is there, Lock tries again until the context ends.
GiveUpLockFile(c) ==
  /\ at[c] = "lock"
  /\ lockFile # None
  /\ "ended" \in call[c].marks
  /\ GoTo(c, "idle")
  /\ call' = Forgotten({c})
  /\ UNCHANGED <<factory, mutex, lockFile, artifact, returned, calls>>

\* LoadOrTrain waits for the path's mutex, whatever its context.
LockMutex(c) ==
  /\ at[c] = "mutex"
  /\ mutex[ProcessOf[c]] = None
  /\ mutex' = [mutex EXCEPT ![ProcessOf[c]] = c]
  /\ GoTo(c, "read")
  /\ UNCHANGED <<factory, call, lockFile, artifact, returned, calls>>

\* LoadProgramArtifact; LoadOrTrain trains when there is no artifact.
Read(c) ==
  /\ at[c] = "read"
  /\ \/ /\ artifact = NoArtifact /\ call[c].op # "load"
        /\ Continues(c, call[c], "build")
     \/ /\ artifact = NoArtifact /\ call[c].op = "load"
        /\ Returns(c, Failure)
     \/ /\ artifact # NoArtifact /\ ~VersionFits(artifact, call[c].version)
        /\ Returns(c, Failure)
     \/ /\ artifact # NoArtifact /\ VersionFits(artifact, call[c].version)
        /\ Continues(c, [call[c] EXCEPT !.got = artifact], "attach")
  /\ UNCHANGED <<factory, lockFile, artifact, calls>>

\* loadCompiled builds the programme the artifact is for.  LoadOrTrain takes any failure that
\* is os.ErrNotExist for a missing artifact, a factory's own included.
Attach(c) ==
  LET s == factory[ProcessOf[c]]
      fits == s \in Shapes /\ FingerprintFits(call[c].got, s, Stated(c))
      missing == s = "noFile" /\ call[c].op # "load"
  IN /\ at[c] = "attach"
     /\ \/ /\ fits
           /\ Returns(c, [shape |-> s, artifact |-> call[c].got, stated |-> Stated(c)])
        \/ /\ ~fits /\ ~missing
           /\ Returns(c, Failure)
        \/ /\ missing
           /\ Continues(c, [call[c] EXCEPT !.marks = @ \union {"misread"}], "build")
     /\ UNCHANGED <<factory, lockFile, artifact, calls>>

\* TrainAndSave builds the registered programme,
Build(c) ==
  LET s == factory[ProcessOf[c]] IN
  /\ at[c] = "build"
  /\ \/ s \in Shapes /\ Continues(c, [call[c] EXCEPT !.shape = s], "train")
     \/ s \notin Shapes /\ Returns(c, Failure)
  /\ UNCHANGED <<factory, lockFile, artifact, calls>>

\* Mutation: a failed training leaves the mutex locked.
TrainWithoutUnlock(c) ==
  /\ at[c] = "train"
  /\ \/ Continues(c, call[c], "save")
     \/ /\ call' = Forgotten({c})
        /\ GoTo(c, IF call[c].op = "locked" THEN "unlock" ELSE "idle")
        /\ UNCHANGED <<mutex, returned>>
  /\ UNCHANGED <<factory, lockFile, artifact, calls>>

\* compiles it,
Train(c) ==
  /\ at[c] = "train"
  /\ \/ Continues(c, call[c], "save")
     \/ Returns(c, Failure)
  /\ UNCHANGED <<factory, lockFile, artifact, calls>>

\* and writeAtomic renames a whole file to the artifact's path, or fails.
Save(c) ==
  /\ at[c] = "save"
  /\ \/ /\ artifact' = Made(c)
        /\ Returns(c, [shape |-> call[c].shape, artifact |-> Made(c), stated |-> ""])
     \/ /\ UNCHANGED artifact
        /\ Returns(c, Failure)
  /\ UNCHANGED <<factory, lockFile, calls>>

\* The lock file is removed, if it can be.
Unlock(c) ==
  /\ at[c] = "unlock"
  /\ lockFile' \in {None, Stale}
  /\ GoTo(c, "idle")
  /\ UNCHANGED <<factory, call, mutex, artifact, returned, calls>>

\* Replace, Register and Unregister; a factory may also come to fail.
SetFactory(p) ==
  /\ \E s \in FactoriesOf[p] : factory' = [factory EXCEPT ![p] = s]
  /\ UNCHANGED <<at, call, mutex, lockFile, artifact, returned, calls>>

\* A process crashes and starts again: its calls and mutexes are gone, its lock file stays.
Crash(p) ==
  LET gone == {c \in Callers : ProcessOf[c] = p} IN
  /\ \E c \in gone : at[c] # "idle"
  /\ at' = [c \in Callers |-> IF c \in gone THEN "idle" ELSE at[c]]
  /\ call' = Forgotten(gone)
  /\ mutex' = Freed(gone)
  /\ lockFile' = IF lockFile \in gone THEN Stale ELSE lockFile
  /\ UNCHANGED <<factory, artifact, returned, calls>>

\* Someone removes a lock file nobody holds.
RemoveStale ==
  /\ lockFile = Stale
  /\ lockFile' = None
  /\ UNCHANGED <<factory, at, call, mutex, artifact, returned, calls>>

CallStep(c) ==
  \/ CreateLockFile(c) \/ GiveUpLockFile(c) \/ LockMutex(c) \/ Read(c) \/ Attach(c)
  \/ Build(c) \/ Train(c) \/ Save(c) \/ Unlock(c)

RegistryNext ==
  \/ \E c \in Callers : BeginCall(c) \/ EndContext(c) \/ CallStep(c)
  \/ \E p \in Processes : SetFactory(p) \/ Crash(p)
  \/ RemoveStale

RegistrySpec == RegistryInit /\ [][RegistryNext]_registryVars

\* Training ends, files answer, and a waiter gets a mutex that is unlocked again and again.
RegistryFairSpec ==
  RegistrySpec /\ \A c \in Callers : WF_registryVars(CallStep(c)) /\ SF_registryVars(LockMutex(c))

-----------------------------------------------------------------------------
(* Properties *)

Places == {"idle", "lock", "mutex", "read", "attach", "build", "train", "save", "unlock"}

Artifacts ==
  [by : Callers \union {None}, op : Ops, trainedFor : Shapes \union {""},
   fingerprint : Shapes \union {""}, version : Versions]

CallRecords ==
  [op : Ops, version : Versions, got : Artifacts, shape : Shapes \union {""},
   marks : SUBSET {"ended", "misread"}]

\* Every variable has its type.
RegistryTypeOK ==
  /\ factory \in [Processes -> Shapes \union Broken]
  /\ at \in [Callers -> Places]
  /\ call \in [Callers -> CallRecords]
  /\ mutex \in [Processes -> Callers \union {None}]
  /\ lockFile \in Callers \union {None, Stale}
  /\ artifact \in Artifacts
  /\ returned \in [shape : Shapes \union {""}, artifact : Artifacts, stated : Versions]
  /\ calls \in [Callers -> 0..MaxCalls]

Guarding == {"loadOrTrain", "locked"}

\* Two calls exclude one another: by the mutex of their process, or by the lock file.
Guarded(c, o, d, q) ==
  \/ ProcessOf[c] = ProcessOf[d] /\ o \in Guarding /\ q \in Guarding
  \/ o = "locked" /\ q = "locked"

\* LoadOrTrain never replaces an artifact that a call it excludes has saved, whatever crashes,
\* stale locks and ended contexts there were, unless it took a factory's failure for a missing
\* artifact.
ArtifactStands ==
  [][\A c \in Callers :
       /\ artifact' # artifact /\ artifact'.by = c
       /\ call[c].op \in Guarding /\ "misread" \notin call[c].marks
       => artifact.by = None \/ ~Guarded(c, call[c].op, artifact.by, artifact.op)]_registryVars

\* The candidate was trained for the shape it is returned with, or for a shape that has no
\* fingerprint, or the artifact records the version the caller stated.
Fits(r) ==
  \/ r.artifact.trainedFor = r.shape
  \/ r.artifact.trainedFor \in Unprinted
  \/ r.stated # "" /\ r.artifact.version = r.stated

\* What a call returns fits the programme it returns it with, though factories are replaced while
\* it loads or trains.
LoadsFit == returned # Failure => Fits(returned)

\* A call whose context has ended returns, though others train or wait for a lock file nobody
\* removes.
EndedCallsReturn ==
  \A c \in Callers : "ended" \in call[c].marks ~> at[c] = "idle"

=============================================================================
