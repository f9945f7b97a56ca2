------------------------------ MODULE UsbListing ------------------------------
(***************************************************************************)
(* The one-shot listing of "Patrullas Fronterizas" (Patrullas.c) beside    *)
(* the watcher: it enumerates the sticks, lists the files of the mounted   *)
(* ones where they are and mounts the others for a while, read-only.  Both *)
(* programs and the desktop meet in /etc/mtab.                             *)
(***************************************************************************)
EXTENDS UsbWatcher

CONSTANT Disks  \* devices whose node is called /dev/sd...

ASSUME DisksOK == Disks \subseteq Devices

VARIABLES
  place,     \* where the listing is; "idle" when it does not run
  pending,   \* devices it has enumerated and not looked at
  device,    \* the devices it is looking at: one at most
  temporary, \* devices it has mounted and that are still in mtab
  left       \* history: those it could not unmount again

listing    == <<place, pending, device, temporary, left>>
watching   == <<watcher, plugged, disk, denied, removed>>
allVars    == <<vars, listing>>

ListingInit ==
  /\ Init
  /\ place = "idle" /\ pending = {} /\ device = {}
  /\ temporary = {} /\ left = {}

-----------------------------------------------------------------------------
(* The listing.                                                            *)

ListDevices ==
  /\ place = "idle" /\ place' = "next"
  /\ pending' = plugged
  /\ UNCHANGED <<vars, device, temporary, left>>

GetMountPoint(d) == Obtener(Devnode(d))

(* A device that has gone since, or is no disk, is passed over.            *)
LookAt(d) ==
  /\ place = "next" /\ d \in pending
  /\ pending' = pending \ {d}
  /\ \/ d \notin plugged \cap Disks /\ UNCHANGED <<place, device>>
     \/ /\ d \in plugged \cap Disks
        /\ place' = IF GetMountPoint(d) THEN "list" ELSE "mount"
        /\ device' = {d}
  /\ UNCHANGED <<vars, temporary, left>>

(* mkdtemp or mount may fail: the desktop may have been faster, or the     *)
(* device may have gone.                                                   *)
MountTemporarily ==
  /\ place = "mount"
  /\ \/ \E d \in device :
          /\ d \in plugged /\ Devnode(d) \notin mtab
          /\ place' = "listTemporary"
          /\ mtab' = mtab \cup {Devnode(d)} /\ temporary' = temporary \cup {d}
          /\ age' = [age EXCEPT !.access = 0]
          /\ UNCHANGED device
     \/ /\ place' = "next" /\ device' = {}
        /\ UNCHANGED <<mtab, temporary, age>>
  /\ UNCHANGED <<watching, owed, pending, left>>

ListFiles ==
  /\ place = "list" /\ place' = "next"
  /\ device' = {}
  /\ UNCHANGED <<vars, pending, temporary, left>>

Busy(d) == walk \cap FilesOf(d) # {}

(* Mutant: the listing goes on without the umount.                         *)
UnmountTemporaryMutant ==
  /\ place = "listTemporary" /\ place' = "next" /\ device' = {}
  /\ UNCHANGED <<vars, pending, temporary, left>>

(* Nobody looks whether umount succeeds.                                   *)
UnmountTemporary ==
  /\ place = "listTemporary" /\ place' = "next"
  /\ device' = {}
  /\ LET freed == {d \in device \cap temporary : ~Busy(d)} IN
     /\ mtab' = mtab \ {Devnode(d) : d \in freed}
     /\ temporary' = temporary \ freed
     /\ left' = left \cup ((device \cap temporary) \ freed)
     /\ age' = IF freed = {} THEN age ELSE [age EXCEPT !.access = 0]
     /\ owed' = {f \in owed : DevOf[f] \notin freed}
  /\ UNCHANGED <<watching, pending>>

EndListing ==
  /\ place = "next" /\ pending = {}
  /\ place' = "idle"
  /\ UNCHANGED <<vars, pending, device, temporary, left>>

ListingStep ==
  \/ ListDevices \/ MountTemporarily \/ ListFiles \/ UnmountTemporary \/ EndListing
  \/ \E d \in Devices : LookAt(d)

-----------------------------------------------------------------------------
(* The desktop and the kernel beside both.                                 *)

(* What is no longer in mtab is no temporary mount any more.               *)
Forget ==
  /\ temporary' = {d \in temporary : Devnode(d) \in mtab'}
  /\ left' = {d \in left : Devnode(d) \in mtab'}
  /\ UNCHANGED <<place, pending, device>>

DesktopStep ==
  /\ \/ \E d \in Devices : \/ Plug(d) \/ Unplug(d) \/ Mount(d)
                           \/ d \notin device /\ Unmount(d)
     \/ \E call \in Fallible : ChangeAccess(call)
  /\ Forget

(* A temporary mount is read-only.                                         *)
FileStep ==
  /\ \E f \in Files :
       /\ DevOf[f] \notin temporary
       /\ \/ CreateFile(f) \/ RemoveFile(f) \/ AlterFile(f)
          \/ \E g \in Files : RenameFile(f, g)
  /\ UNCHANGED listing

ListingNext ==
  \/ WatcherStep /\ UNCHANGED listing
  \/ ListingStep \/ DesktopStep \/ FileStep

(* The watcher keeps running; the listing may be run at any time, several  *)
(* times, and may stop for as long as it likes.                            *)
ListingSpec ==
  /\ ListingInit /\ [][ListingNext]_allVars
  /\ WF_allVars(WatcherStep /\ UNCHANGED listing)

-----------------------------------------------------------------------------
(* Every variable has its type.                                            *)
ListingTypeOK ==
  /\ TypeOK
  /\ place \in {"idle", "next", "mount", "list", "listTemporary"}
  /\ pending \subseteq Devices /\ device \subseteq Devices /\ Cardinality(device) <= 1
  /\ temporary \subseteq {d \in Devices : Devnode(d) \in mtab} /\ left \subseteq temporary

(* When the listing has left a stick, the stick is not mounted by it any   *)
(* more, whatever happened to the stick meanwhile, unless the watcher was  *)
(* in the middle of its files at the umount (Patrullas.c:138-149).         *)
NothingLeftMounted ==
  \A d \in temporary \ left : place = "listTemporary" /\ d \in device
=============================================================================
