---------------------------- MODULE ArchiveCache ----------------------------
(***************************************************************************)
(* The on-disk cache of Foundry archives: Cache and validate_archive of    *)
(* foundryvtt-fetch/src/lib.rs, as the steps of a call that processes make *)
(* on one cache directory.  A call begins at "get", "put" or "shareRoot"   *)
(* and ends at "found", "absent", "stored", "shared" or "failed".          *)
(*                                                                         *)
(* The cache has no lock: between the steps of one call other processes    *)
(* take theirs.  Every release has one archive and one JSON sidecar.  A    *)
(* content stands for its SHA-256 and its size as well; a sidecar records  *)
(* a SHA-256 and an SRI, which need not be those of the same content.      *)
(***************************************************************************)
CONSTANTS
    Procs,      \* processes, or the handlers of one
    Releases,   \* releases of one platform
    Archives,   \* contents of files
    ReleaseOf,  \* the release an archive's package.json names, None if the ZIP is no good
    None,       \* no file, no release
    Blank,      \* an empty hash in a sidecar
    Damaged     \* a sidecar that cannot be parsed or names another release

ASSUME ReleaseOfArchives == ReleaseOf \in [Archives -> Releases \cup {None}]
ASSUME NoneIsNothing == None \notin Archives \cup Releases \cup Procs

Hashes  == Archives \cup {Blank}
Records == [sha : Hashes, sri : Hashes]

ASSUME SpecialSidecars ==
    /\ Blank \notin Archives \cup {None}
    /\ None # Damaged /\ {None, Damaged} \cap Records = {}

VARIABLES
    archive,   \* the file at path_for
    sidecar,   \* the file at metadata_path
    rootMode,  \* of the directory: "private" (0700) or "shared" (2751)
    shared,    \* releases whose archive has mode 0440, not 0600
    at,        \* where each process is
    release,   \* the release it asks for
    input,     \* what its put is given
    hash,      \* the SHA-256 it has computed
    record     \* the provenance in its hands, which it prints in the end

store == <<archive, sidecar>>
modes == <<rootMode, shared>>
call  == <<at, release, input, hash, record>>

Sidecars == Records \cup {None, Damaged}

\* The hashes of a content.
Of(a) == [sha |-> a, sri |-> a]

\* validate_archive: a ZIP within the limits whose package.json names release k.
Valid(a, k) == a \in Archives /\ ReleaseOf[a] = k

Goto(p, l) == at' = [at EXCEPT ![p] = l]

\* A get or a put returns an error, and nothing of what it has computed or read.
Fails(p) ==
    /\ Goto(p, "failed")
    /\ hash' = [hash EXCEPT ![p] = None]
    /\ record' = [record EXCEPT ![p] = None]

\* The operators that a comment calls a mutant are not the code: each is a
\* plausible mistake in the definition below it, which a property must notice.

-----------------------------------------------------------------------------
\* Cache::new makes the directory private, also one that exists.
OpenCache == rootMode' = "private" /\ UNCHANGED shared

(* get_with_max                                                             *)

\* Both files are there, the sidecar is read.
GetSidecar(p) ==
    LET k == release[p]
    IN  /\ at[p] = "get"
        /\ \/ /\ None \in {archive[k], sidecar[k]}
              /\ Goto(p, "absent") /\ UNCHANGED <<hash, record>>
           \/ /\ archive[k] # None /\ sidecar[k] = Damaged
              /\ Fails(p)
           \/ /\ archive[k] # None /\ sidecar[k] \in Records
              /\ Goto(p, "hash") /\ UNCHANGED hash
              /\ record' = [record EXCEPT ![p] = sidecar[k]]
        /\ UNCHANGED <<store, modes, release, input>>

\* The checksum and the size agree, those that are recorded.  The SRI is not
\* compared with anything.
Matches(a, recorded) == recorded.sha \in {a, Blank}

\* What the sidecar leaves open is that of the archive.
Completed(recorded, a) ==
    [sha |-> IF recorded.sha = Blank THEN a ELSE recorded.sha,
     sri |-> IF recorded.sri = Blank THEN a ELSE recorded.sri]

\* (mutant: the hash that was computed is not compared.)
GetUncompared(p) ==
    LET a == archive[release[p]]
    IN  /\ at[p] = "hash"
        /\ \/ /\ Valid(a, release[p])
              /\ Goto(p, "found")
              /\ hash' = [hash EXCEPT ![p] = a]
              /\ record' = [record EXCEPT ![p] = Completed(@, a)]
           \/ ~Valid(a, release[p]) /\ Fails(p)
        /\ UNCHANGED <<store, modes, release, input>>

\* The archive, opened once, is hashed and looked into; the artifact is complete.
GetHash(p) ==
    LET a  == archive[release[p]]
        ok == Valid(a, release[p]) /\ Matches(a, record[p])
    IN  /\ at[p] = "hash"
        /\ \/ /\ ok
              /\ Goto(p, "found")
              /\ hash' = [hash EXCEPT ![p] = a]
              /\ record' = [record EXCEPT ![p] = Completed(@, a)]
           \/ ~ok /\ Fails(p)
        /\ UNCHANGED <<store, modes, release, input>>

-----------------------------------------------------------------------------
(* put_at                                                                   *)

\* validate_archive reads the input for its hash ...
PutHash(p) ==
    /\ at[p] = "put"
    /\ Goto(p, "look")
    /\ hash' = [hash EXCEPT ![p] = input[p]]
    /\ UNCHANGED <<store, modes, release, input, record>>

\* (mutant: the input is hashed but not looked into.)
PutTrusting(p) ==
    /\ at[p] = "look"
    /\ Goto(p, "install")
    /\ UNCHANGED <<store, modes, release, input, hash, record>>

\* ... and reads it again as a ZIP.
PutLook(p) ==
    /\ at[p] = "look"
    /\ \/ /\ Valid(input[p], release[p])
          /\ Goto(p, "install") /\ UNCHANGED <<hash, record>>
       \/ ~Valid(input[p], release[p]) /\ Fails(p)
    /\ UNCHANGED <<store, modes, release, input>>

\* The input, whatever it holds by now, is copied to a private temporary file,
\* which is renamed to the archive.
PutInstall(p) ==
    /\ at[p] = "install"
    /\ archive' = [archive EXCEPT ![release[p]] = input[p]]
    /\ shared' = shared \ {release[p]}
    /\ Goto(p, "record")
    /\ UNCHANGED <<sidecar, rootMode, release, input, hash, record>>

\* (mutant: a sidecar that exists is left.)
PutRecordOnce(p) ==
    /\ at[p] = "record"
    /\ record' = [record EXCEPT ![p] = Of(hash[p])]
    /\ sidecar' = [sidecar EXCEPT ![release[p]] = IF @ = None THEN Of(hash[p]) ELSE @]
    /\ Goto(p, "publish")
    /\ UNCHANGED <<archive, modes, release, input, hash>>

\* The sidecar is renamed as well; it records the hash that was computed first.
PutRecord(p) ==
    /\ at[p] = "record"
    /\ record' = [record EXCEPT ![p] = Of(hash[p])]
    /\ sidecar' = [sidecar EXCEPT ![release[p]] = Of(hash[p])]
    /\ Goto(p, "publish")
    /\ UNCHANGED <<archive, modes, release, input, hash>>

\* Both files, whoever put them there, get mode 0600.
PutPublish(p) ==
    /\ at[p] = "publish"
    /\ shared' = shared \ {release[p]}
    /\ Goto(p, "stored")
    /\ UNCHANGED <<store, rootMode, release, input, hash, record>>

-----------------------------------------------------------------------------
(* prepare_shared_read_cache: the directory first, then every file.         *)

ShareRoot(p) ==
    /\ at[p] = "shareRoot"
    /\ rootMode' = "shared"
    /\ Goto(p, "shareFiles")
    /\ UNCHANGED <<store, shared, release, input, hash, record>>

ShareFiles(p) ==
    /\ at[p] = "shareFiles"
    /\ shared' = shared \cup {k \in Releases : archive[k] # None}
    /\ Goto(p, "shared")
    /\ UNCHANGED <<store, rootMode, release, input, hash, record>>

-----------------------------------------------------------------------------
\* A system call fails before anything, or after everything, has been renamed.
CallFails(p) ==
    /\ at[p] \in {"get", "hash", "put", "look", "install", "publish",
                "shareRoot", "shareFiles"}
    /\ Fails(p)
    /\ UNCHANGED <<store, modes, release, input>>

\* One fails between the two renames.
RecordFails(p) ==
    /\ at[p] = "record"
    /\ Fails(p)
    /\ UNCHANGED <<store, modes, release, input>>

\* The steps of a get and of a put.
CacheStep(p) ==
    \/ GetSidecar(p) \/ GetHash(p)
    \/ PutHash(p) \/ PutLook(p) \/ PutInstall(p) \/ PutRecord(p) \/ PutPublish(p)
    \/ CallFails(p)

CacheInit ==
    /\ archive = [k \in Releases |-> None]
    /\ sidecar = [k \in Releases |-> None]
    /\ rootMode = "private"
    /\ shared = {}
    /\ at = [p \in Procs |-> "idle"]
    /\ release = [p \in Procs |-> None]
    /\ input = [p \in Procs |-> None]
    /\ hash = [p \in Procs |-> None]
    /\ record = [p \in Procs |-> None]

CacheTypeOK ==
    /\ archive \in [Releases -> Archives \cup {None}]
    /\ sidecar \in [Releases -> Sidecars]
    /\ rootMode \in {"private", "shared"}
    /\ shared \subseteq Releases
    /\ release \in [Procs -> Releases \cup {None}]
    /\ input \in [Procs -> Archives \cup {None}]
    /\ hash \in [Procs -> Archives \cup {None}]
    /\ record \in [Procs -> Records \cup {None}]
=============================================================================
