---------------------------- MODULE AudioSnapshot ----------------------------
(* The sample data of a sound buffer (AudioSnapshot.cpp). The game writes  *)
(* into a copy between Lock and Unlock, and Unlock publishes the copy; the *)
(* one render thread reads the published data without a lock, announcing   *)
(* in render_hazard_ what it reads. Replaced data is retired, and freed by *)
(* the writer once the hazard does not name it. Snapshots are addresses:   *)
(* a freed one may be allocated again. Which bytes are written is left out *)
(* (the data of an address is the generation it holds), and so are the     *)
(* regions that Unlock compares with those of Lock.                        *)
EXTENDS Integers, FiniteSets

CONSTANTS
    Snapshots,      \* the addresses of snapshots
    None,           \* the null pointer
    MaxGeneration   \* bound on the copies made

ASSUME SnapshotAssumption ==
    /\ None \notin Snapshots /\ Snapshots # {}
    /\ MaxGeneration \in Nat

VARIABLES
    published_owner,
    published,       \* the pointer the render thread loads
    outstanding,     \* the copy the game is writing, or None
    retired,
    replaced,        \* the local "old" of Unlock, or None
    generation,      \* what each address holds
    writer,          \* the call under way under writer_mutex_
    saw,             \* the hazard that its reclamation has loaded
    render_hazard,
    reader,          \* the render thread in AcquireForRender
    candidate,       \* what it has loaded
    since            \* history: the generation published when it began

snapshotVars == <<published_owner, published, outstanding, retired, replaced,
                  generation, writer, saw, render_hazard, reader, candidate,
                  since>>
writerVars == <<published_owner, published, outstanding, retired, replaced,
                generation, writer, saw>>
readerVars == <<render_hazard, reader, candidate, since>>

SnapshotInit ==
    /\ published_owner \in Snapshots
    /\ published = published_owner
    /\ outstanding = None /\ retired = {} /\ replaced = None
    /\ generation = [s \in Snapshots |-> 0]
    /\ writer = "idle" /\ saw = None
    /\ render_hazard = None /\ reader = "idle" /\ candidate = None
    /\ since = 0

Allocated == ({published_owner, outstanding, replaced} \ {None}) \cup retired
-----------------------------------------------------------------------------
(* ReclaimRetiredLocked: it loads the hazard, then frees what is not it.   *)
LoadHazard   == saw' = render_hazard
KeepHazarded == retired' = retired \cap {saw}

BeginLock ==
    /\ writer = "idle" /\ outstanding = None
    /\ generation[published_owner] < MaxGeneration
    /\ writer' = "lock" /\ LoadHazard
    /\ UNCHANGED <<published_owner, published, outstanding, retired, replaced,
                   generation, readerVars>>

(* The copy takes any free address; without memory the call fails.         *)
Lock ==
    /\ writer = "lock"
    /\ KeepHazarded
    /\ \/ \E copy \in (Snapshots \ Allocated) \cup (retired \ retired') :
             /\ outstanding' = copy
             /\ generation' = [generation EXCEPT
                                  ![copy] = generation[published_owner] + 1]
       \/ UNCHANGED <<outstanding, generation>>
    /\ writer' = "idle" /\ saw' = None
    /\ UNCHANGED <<published_owner, published, replaced, readerVars>>

BeginUnlock ==
    /\ writer = "idle" /\ outstanding # None
    /\ writer' = "unlock" /\ LoadHazard
    /\ UNCHANGED <<published_owner, published, outstanding, retired, replaced,
                   generation, readerVars>>

Unlock ==
    /\ writer = "unlock"
    /\ KeepHazarded
    /\ replaced' = published_owner
    /\ published_owner' = outstanding
    /\ outstanding' = None
    /\ writer' = "publish" /\ saw' = None
    /\ UNCHANGED <<published, generation, readerVars>>

Publish ==
    /\ writer = "publish"
    /\ published' = published_owner
    /\ writer' = "retire"
    /\ UNCHANGED <<published_owner, outstanding, retired, replaced,
                   generation, saw, readerVars>>

Retire ==
    /\ writer = "retire"
    /\ retired' = retired \cup {replaced}
    /\ replaced' = None
    /\ writer' = "reclaim" /\ LoadHazard
    /\ UNCHANGED <<published_owner, published, outstanding, generation,
                   readerVars>>

(* IDirectSoundBuffer8::Restore.                                           *)
Restore ==
    /\ writer = "idle" /\ retired # {}
    /\ writer' = "reclaim" /\ LoadHazard
    /\ UNCHANGED <<published_owner, published, outstanding, retired, replaced,
                   generation, readerVars>>

ReclaimRetired ==
    /\ writer = "reclaim"
    /\ KeepHazarded
    /\ writer' = "idle" /\ saw' = None
    /\ UNCHANGED <<published_owner, published, outstanding, replaced,
                   generation, readerVars>>

SnapshotWriter ==
    \/ BeginLock \/ Lock \/ BeginUnlock \/ Unlock \/ Publish \/ Retire
    \/ Restore \/ ReclaimRetired
-----------------------------------------------------------------------------
(* CaptureSingleReaderSnapshot.                                            *)
LoadPublished ==
    /\ reader \in {"idle", "load"}
    /\ candidate' = published
    /\ since' = IF reader = "idle" THEN generation[published] ELSE since
    /\ reader' = "announce"
    /\ UNCHANGED <<writerVars, render_hazard>>

(* The exchange succeeds because there is one reader.                      *)
Announce ==
    /\ reader = "announce" /\ render_hazard = None
    /\ render_hazard' = candidate
    /\ reader' = "confirm"
    /\ UNCHANGED <<writerVars, candidate, since>>

(* Mutant: the announced pointer is not compared with the published one.    *)
ConfirmedAlways == TRUE

Confirmed == candidate = published

Confirm ==
    /\ reader = "confirm"
    /\ IF Confirmed
       THEN reader' = "render" /\ UNCHANGED <<render_hazard, candidate>>
       ELSE reader' = "load" /\ render_hazard' = None /\ candidate' = None
    /\ UNCHANGED <<writerVars, since>>

(* RenderView::Release.                                                    *)
ReleaseView ==
    /\ reader = "render"
    /\ reader' = "idle" /\ render_hazard' = None /\ candidate' = None
    /\ since' = 0
    /\ UNCHANGED writerVars

SnapshotReader == LoadPublished \/ Announce \/ Confirm

SnapshotNext == SnapshotWriter \/ SnapshotReader \/ ReleaseView
SnapshotSpec == SnapshotInit /\ [][SnapshotNext]_snapshotVars
-----------------------------------------------------------------------------
SnapshotTypeOK ==
    /\ published_owner \in Snapshots /\ published \in Snapshots
    /\ outstanding \in Snapshots \cup {None}
    /\ retired \subseteq Snapshots
    /\ replaced \in Snapshots \cup {None}
    /\ generation \in [Snapshots -> Nat]
    /\ writer \in {"idle", "lock", "unlock", "publish", "retire", "reclaim"}
    /\ saw \in Snapshots \cup {None}
    /\ render_hazard \in Snapshots \cup {None}
    /\ reader \in {"idle", "load", "announce", "confirm", "render"}
    /\ candidate \in Snapshots \cup {None}
    /\ since \in Nat

(* What the render thread reads has not been freed, is not the copy the    *)
(* game is writing into, and is not older than the data that was published *)
(* when the thread began to acquire it.                                    *)
ViewIsLive ==
    reader = "render" =>
        /\ candidate \in Allocated \ {outstanding}
        /\ generation[candidate] >= since

(* Replaced data does not pile up: outside a call there is at most the one *)
(* snapshot that the render thread was reading.                            *)
RetiredBounded ==
    writer \in {"idle", "lock", "unlock"} => Cardinality(retired) <= 1
=============================================================================
