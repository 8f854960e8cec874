---------------------------- MODULE ReleaseCache ----------------------------
(***************************************************************************)
(* The local cache of a released plugin binary (src/bin/local/release.rs), *)
(* of one version and one platform, shared by the hfwd processes of a user.*)
(* A download that was verified against the release's checksums replaces   *)
(* the cached binary and its checksum by two renames under a file lock.    *)
(* The cache is read, without the lock and one file after the other, only  *)
(* if the release cannot be reached.                                       *)
(*                                                                         *)
(* A definition named ...Faulty is a slip in the definition after it that  *)
(* one of the properties must notice.                                      *)
(***************************************************************************)
EXTENDS Naturals, FiniteSets

CONSTANTS
    Fetchers,   \* the processes that want the release
    Editions    \* the archives published under this version, one after another

VARIABLES
    cache,      \* the cached binary and checksum, in a directory that is renamed as one
    lock,       \* who holds the lock file: a set of at most one process
    step,       \* what each process does next
    hand,       \* the binary each process has downloaded or read
    aside       \* the cache that a publisher has moved out of the way

cacheVars == <<cache, lock, step, hand, aside>>

Nothing == "nothing"
Rotten == "rotten"      \* bytes that no release consists of
ASSUME EditionsAssumption == Editions \cap {Rotten, Nothing} = {}

Empty == [binary |-> Nothing, checksum |-> Nothing]
Whole(e) == [binary |-> e, checksum |-> e]
Caches == [binary : Editions \cup {Rotten, Nothing}, checksum : Editions \cup {Nothing}]

CacheInit ==
    /\ cache = Empty /\ lock = {}
    /\ step = [f \in Fetchers |-> "idle"]
    /\ hand = [f \in Fetchers |-> Nothing]
    /\ aside = [f \in Fetchers |-> Empty]

Step(f, here, there) == step[f] = here /\ step' = [step EXCEPT ![f] = there]

-----------------------------------------------------------------------------
\* download_release_binary: the archive and its checksums were fetched and agree.
Download(f) ==
    /\ Step(f, "fetch", "publish")
    /\ \E e \in Editions : hand' = [hand EXCEPT ![f] = e]
    /\ UNCHANGED <<cache, lock, aside>>

\* Only a release that cannot be reached may be taken from the cache.
AfterFailure(unavailable) == IF unavailable THEN "binary" ELSE "failed"

\* The network fails, or the archive is missing, incomplete or not what its checksum says.
DownloadFails(f) ==
    /\ \E unavailable \in BOOLEAN : Step(f, "fetch", AfterFailure(unavailable))
    /\ UNCHANGED <<cache, lock, hand, aside>>

\* publish_cached_binary: the lock is taken and both files are written to a directory of
\* the process's own.
Publish(f) ==
    /\ Step(f, "publish", "aside")
    /\ lock = {} /\ lock' = {f}
    /\ UNCHANGED <<cache, hand, aside>>

\* The cached release is renamed out of the way.
SetAside(f) ==
    /\ Step(f, "aside", "swap")
    /\ aside' = [aside EXCEPT ![f] = cache]
    /\ cache' = Empty
    /\ UNCHANGED <<lock, hand>>

\* The directory is renamed into place; a rename does not replace one that is there.
Swap(f) ==
    /\ Step(f, "swap", "tidy")
    /\ cache = Empty /\ cache' = Whole(hand[f])
    /\ UNCHANGED <<lock, hand, aside>>

UnlockFaulty(f) == UNCHANGED <<lock, aside>>
\* The old directory is removed, and the lock released.
Unlock(f) == lock' = lock \ {f} /\ aside' = [aside EXCEPT ![f] = Empty]
Tidy(f) == Step(f, "tidy", "done") /\ Unlock(f) /\ UNCHANGED <<cache, hand>>

RestoredFaulty(f) == cache
Restored(f) == IF cache = Empty THEN aside[f] ELSE cache

\* A write or a rename fails: the old release is renamed back. A binary that cannot be
\* cached is not used either.
PublishFails(f) ==
    /\ \E here \in {"aside", "swap"} : Step(f, here, "failed")
    /\ cache' = Restored(f)
    /\ Unlock(f) /\ UNCHANGED hand

\* verified_cached_binary reads the binary,
ReadBinary(f) ==
    /\ Step(f, "binary", IF cache = Empty THEN "failed" ELSE "checksum")
    /\ hand' = [hand EXCEPT ![f] = cache.binary]
    /\ UNCHANGED <<cache, lock, aside>>

VerifiedFaulty(binary, checksum) == checksum # Nothing
\* verify_sha256, and the metadata is there
Verified(binary, checksum) == binary = checksum

\* and the checksum it must have.
ReadChecksum(f) ==
    /\ Step(f, "checksum", IF Verified(hand[f], cache.checksum) THEN "done" ELSE "failed")
    /\ UNCHANGED <<cache, lock, hand, aside>>

\* A process calls release_bundle, and uses or reports what it returns.
Begin(f) == Step(f, "idle", "fetch") /\ UNCHANGED <<cache, lock, hand, aside>>
Drop(f) == hand' = [hand EXCEPT ![f] = Nothing]
End(f, outcome) == Step(f, outcome, "idle") /\ Drop(f) /\ UNCHANGED <<cache, lock, aside>>

\* The process is killed and the kernel frees the lock; what it has renamed stays so.
Die(f) ==
    /\ step[f] # "idle" /\ step' = [step EXCEPT ![f] = "idle"]
    /\ Unlock(f) /\ Drop(f) /\ UNCHANGED cache

\* The cached binary is damaged on the disk.
Rot ==
    /\ cache # Empty /\ cache' = [cache EXCEPT !.binary = Rotten]
    /\ UNCHANGED <<lock, step, hand, aside>>

Fetch(f) ==
    \/ Download(f) \/ DownloadFails(f) \/ Publish(f) \/ SetAside(f) \/ Swap(f) \/ Tidy(f)
    \/ PublishFails(f) \/ ReadBinary(f) \/ ReadChecksum(f)

-----------------------------------------------------------------------------
CacheTypeOK ==
    /\ cache \in Caches /\ lock \in SUBSET Fetchers /\ aside \in [Fetchers -> Caches]
    /\ step \in [Fetchers -> {"idle", "fetch", "publish", "aside", "swap", "tidy", "binary",
                              "checksum", "done", "failed"}]
    /\ hand \in [Fetchers -> Editions \cup {Rotten, Nothing}]
    /\ lock = {f \in Fetchers : step[f] \in {"aside", "swap", "tidy"}}

\* What release_bundle returns is a binary of the release, although the cache is read
\* without its lock, while others replace it, and may be damaged: "integrity or
\* missing-release errors fail closed" (docs/architecture.md:110).
OnlyVerified == \A f \in Fetchers : step[f] = "done" => hand[f] \in Editions

\* "Publish cache entries atomically" (CHANGELOG.md:75): a publisher that fails leaves the
\* release that was cached, so that a machine without network can still be served. A
\* publisher that is killed between its renames does not, and is not spoken of here.
CacheSurvives ==
    [][\A f \in Fetchers :
        step[f] = "swap" /\ step'[f] \in {"tidy", "failed"} /\ aside[f] # Empty
            => cache' # Empty]_cacheVars
=============================================================================
