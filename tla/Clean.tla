------------------------------- MODULE Clean -------------------------------
(***************************************************************************)
(* src/commands/clean: `agentbox clean` over images and cache volumes,     *)
(* beside launches and updates (RuntimeImages).  The lock files it also    *)
(* removes are in WorkspaceLock.                                           *)
(*                                                                         *)
(* A clean lists containers, images and volumes one after the other,       *)
(* plans to remove what no container refers to, asks the user, and removes *)
(* the candidates by name.  Nothing is locked at any time; Podman refuses  *)
(* to remove what a container uses when the removal comes.                 *)
(***************************************************************************)
EXTENDS RuntimeImages

Ref(i) == <<i.runtime, i.context>>
IsImage(x) == x \in Images

(***************************************************************************)
(* CleanInventory::from_podman                                             *)
(***************************************************************************)

PsAll(p) ==
    /\ At(p, "ps")
    /\ cmd' = [cmd EXCEPT ![p].seen = containers, ![p].pc = "inspect"]
    /\ UNCHANGED <<podman, metadata, latest, built>>

\* inspect_one for each: one that is gone fails the whole command.
InspectAll(p) ==
    /\ At(p, "inspect")
    /\ IF cmd[p].seen \subseteq containers THEN Step(p, "images")
                                           ELSE Finish(p, "error")
    /\ UNCHANGED <<podman, metadata, latest, built>>

ListImages(p) ==
    /\ At(p, "images")
    /\ cmd' = [cmd EXCEPT ![p].listed = images, ![p].pc = "volumes"]
    /\ UNCHANGED <<podman, metadata, latest, built>>

(***************************************************************************)
(* CleanPlan::from_inventory                                               *)
(***************************************************************************)

\* Mutant: goes by the image, which may have lost its reference.
ImageUsedById(p, i) == \E c \in cmd[p].seen : c.image = i

\* ResourceUsage goes by the reference a container was created from.
ImageUsed(p, i) == \E c \in cmd[p].seen : Ref(c.image) = Ref(i)

VolumeUsed(p, v) == \E c \in cmd[p].seen : c.workspace = v.workspace

\* Mutant: the current default image is a candidate like any other.
ImageCandidateAny(p, i) == ~ImageUsed(p, i)

ImageCandidate(p, i) ==
    /\ ~ImageUsed(p, i)
    /\ i.context # Context(p)           \* "current default image"

\* Volumes are listed last; the plan follows from the inventory.
ListVolumes(p) ==
    /\ At(p, "volumes")
    /\ LET plan == {i \in cmd[p].listed : ImageCandidate(p, i)}
                   \cup {v \in volumes : ~VolumeUsed(p, v)}
       IN  cmd' = [cmd EXCEPT ![p].plan = plan, ![p].left = plan,
                              ![p].pc = "confirm"]
    /\ UNCHANGED <<podman, metadata, latest, built>>

\* --dry-run, a plan without candidates, or the user says no.
Decline(p) ==
    /\ At(p, "confirm")
    /\ Finish(p, "declined")
    /\ UNCHANGED <<podman, metadata, latest, built>>

\* --yes, or the user confirms.
Confirm(p) ==
    /\ At(p, "confirm")
    /\ cmd[p].plan # {}
    /\ Step(p, "apply")
    /\ UNCHANGED <<podman, metadata, latest, built>>

(***************************************************************************)
(* apply_clean_plan: images first, then volumes, on after failures.        *)
(***************************************************************************)

\* The candidates that may come next.
Turn(p) ==
    LET is == {x \in cmd[p].left : IsImage(x)}
    IN  IF is # {} THEN is ELSE cmd[p].left

\* podman image rm: untags the image that has the reference now, unless a
\* container uses that image.
RemoveImage(p) ==
    /\ At(p, "apply")
    /\ \E x \in Turn(p) :
          /\ IsImage(x)
          /\ \E i \in Tagged(x.runtime, x.context) :
                ~InUse(i) /\ images' = images \ {i}
          /\ cmd' = [cmd EXCEPT ![p].left = @ \ {x}, ![p].cur = x,
                                ![p].pc = "state"]
    /\ UNCHANGED <<containers, volumes, metadata, latest, built>>

\* podman volume rm, which refuses a volume that is mounted.
RemoveVolume(p) ==
    /\ At(p, "apply")
    /\ \E x \in Turn(p) :
          /\ ~IsImage(x)
          /\ ~Mounted(x.workspace)
          /\ \E v \in volumes :
                v.workspace = x.workspace /\ volumes' = volumes \ {v}
          /\ cmd' = [cmd EXCEPT ![p].left = @ \ {x}]
    /\ UNCHANGED <<images, containers, metadata, latest, built>>

\* Mutant: a failed removal is forgotten.
RemovalFailsSilently(p) ==
    /\ At(p, "apply")
    /\ \E x \in Turn(p) : cmd' = [cmd EXCEPT ![p].left = @ \ {x}]
    /\ UNCHANGED <<podman, metadata, latest, built>>

\* In use, gone, or Podman fails: a DeleteFailure.
RemovalFails(p) ==
    /\ At(p, "apply")
    /\ \E x \in Turn(p) :
          cmd' = [cmd EXCEPT ![p].left = @ \ {x}, ![p].failed = TRUE]
    /\ UNCHANGED <<podman, metadata, latest, built>>

\* Mutant: the metadata is left in place.
ReadForRemovalSkipped(p) ==
    /\ At(p, "state")
    /\ cmd' = [cmd EXCEPT ![p].cur = None, ![p].pc = "apply"]
    /\ UNCHANGED <<podman, metadata, latest, built>>

\* remove_if_image reads the metadata of the runtime; an unreadable file
\* is a failure of this candidate.
ReadForRemoval(p) ==
    /\ At(p, "state")
    /\ LET state == metadata[cmd[p].cur.runtime]
           names == /\ state \notin {None, Invalid}
                    /\ state.context = cmd[p].cur.context
       IN  \/ names /\ Step(p, "state_rm")
           \/ /\ ~names /\ state # Invalid
              /\ cmd' = [cmd EXCEPT ![p].cur = None, ![p].pc = "apply"]
           \/ cmd' = [cmd EXCEPT ![p].cur = None, ![p].pc = "apply",
                                 ![p].failed = TRUE]
    /\ UNCHANGED <<podman, metadata, latest, built>>

\* remove: the file at the path, whatever it says by now.
RemoveState(p) ==
    /\ At(p, "state_rm")
    /\ \/ /\ metadata' = [metadata EXCEPT ![cmd[p].cur.runtime] = None]
          /\ cmd' = [cmd EXCEPT ![p].cur = None, ![p].pc = "apply"]
       \/ /\ UNCHANGED metadata
          /\ cmd' = [cmd EXCEPT ![p].cur = None, ![p].pc = "apply",
                                ![p].failed = TRUE]
    /\ UNCHANGED <<podman, latest, built>>

ApplyDone(p) ==
    /\ At(p, "apply") /\ cmd[p].left = {}
    /\ Finish(p, IF cmd[p].failed THEN "error" ELSE "ok")
    /\ UNCHANGED <<podman, metadata, latest, built>>

CleanStep(p) ==
    \/ PsAll(p) \/ InspectAll(p) \/ ListImages(p) \/ ListVolumes(p)
    \/ Decline(p) \/ Confirm(p)
    \/ RemoveImage(p) \/ RemoveVolume(p) \/ RemovalFails(p)
    \/ ReadForRemoval(p) \/ RemoveState(p) \/ ApplyDone(p)

\* Every invocation has returned.
Terminated == (\A p \in Procs : At(p, "done")) /\ UNCHANGED vars

Next ==
    \/ \E p \in Procs, j \in Jobs : Invoke(p, j)
    \/ \E p \in Procs : ImageStep(p) \/ CleanStep(p)
    \/ (\E p \in Procs : ~At(p, "done")) /\ Environment
    \/ Terminated

Spec == Init /\ [][Next]_vars

-----------------------------------------------------------------------------
(***************************************************************************)
(* Properties                                                              *)
(***************************************************************************)

\* The state is well typed, a reference names one image, and a workspace has
\* at most one container and one cache volume.
TypeOK ==
    /\ images \subseteq Images /\ volumes \subseteq Volumes
    /\ containers \subseteq Containers
    /\ metadata \in [Runtimes -> Metadata \cup {None, Invalid}]
    /\ latest \in [Runtimes -> Versions]
    /\ cmd \in [Procs -> Command]
    /\ \A i, j \in images : Ref(i) = Ref(j) => i = j
    /\ \A v, w \in volumes : v.workspace = w.workspace => v = w
    /\ \A c, d \in containers : c.workspace = d.workspace => c = d

\* Whatever versions, binaries and commands race, metadata that can be read
\* records a version that was really built into that image.
RecordedWasBuilt ==
    \A r \in Runtimes : metadata[r] \notin {None, Invalid} =>
        <<r, metadata[r].context, metadata[r].version>> \in built

\* "clean must preserve each runtime's current default image": between its
\* check and its podman run, a launch does not lose its image to an update
\* or a clean, except to a clean of another binary.
EnsuredImageStays ==
    \A p \in Procs : At(p, "run") /\ Op(p) = "launch" =>
        \/ Tagged(Runtime(p), Context(p)) # {}
        \/ \E q \in Procs : Op(q) = "clean" /\ Context(q) # Context(p)

\* A clean that reports success has removed every resource of the plan it
\* showed; what has the same name now was made afterwards.
CleanedIsGone ==
    \A p \in Procs : Op(p) = "clean" /\ cmd[p].result = "ok" =>
        cmd[p].plan \cap (images \cup volumes) = {}

\* Once a clean has removed an image with success, the metadata does not
\* name that image any more, unless a command of its binary made it so.
MetadataFollowsImage ==
    \A p \in Procs : Op(p) = "clean" /\ cmd[p].result = "ok" =>
        \A i \in cmd[p].plan \cap Images :
            LET state == metadata[i.runtime]
            IN  state \notin {None, Invalid} /\ state.context = i.context =>
                    \E q \in Procs : Op(q) \in {"launch", "update"}
                                     /\ Context(q) = i.context

\* A clean never removes an image reference or a volume that a container
\* refers to which was there at its inventory and still is.
CleanSparesReferenced ==
    [][\A p \in Procs : cmd'[p].left # cmd[p].left /\ At(p, "apply") =>
          \A c \in cmd[p].seen \cap containers :
             /\ \A i \in images \ images' : Ref(i) # Ref(c.image)
             /\ \A v \in volumes \ volumes' : v.workspace # c.workspace]_vars
=============================================================================
