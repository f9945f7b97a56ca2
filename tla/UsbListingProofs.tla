--------------------------- MODULE UsbListingProofs ---------------------------
(***************************************************************************)
(* Proofs about UsbListing, for any number of sticks and files: the types, *)
(* that the listing leaves no mount of its own behind, and that to the     *)
(* watcher it is one more thing that happens to the sticks, so that all    *)
(* that is proved of the watcher holds beside the listing too.             *)
(***************************************************************************)
EXTENDS UsbListing, UsbWatcherProofs

-----------------------------------------------------------------------------
(* To the watcher the listing is part of its environment.                  *)

(* One device at most.                                                     *)
LEMMA OneDevice ==
  ASSUME ListingTypeOK
  PROVE  device \subseteq Devices /\ (device = {} \/ \E d \in Devices : device = {d})
<1>1. IsFiniteSet(device) /\ Cardinality(device) \in Nat /\ Cardinality(device) <= 1
  BY ConstantsOK, FS_Subset, FS_CardinalityType DEF ListingTypeOK, ConstantsOK
<1>2. CASE Cardinality(device) = 0
  BY <1>1, <1>2, FS_EmptySet
<1>3. CASE Cardinality(device) = 1
  BY <1>1, <1>3, FS_Singleton DEF ListingTypeOK
<1> QED BY <1>1, <1>2, <1>3 DEF ListingTypeOK

(* The umount of the listing is one that the watcher may meet at any time, *)
(* or it has failed.                                                       *)
LEMMA UmountIsUnmount ==
  ASSUME ListingTypeOK, UnmountTemporary
  PROVE  UNCHANGED vars \/ \E d \in Devices : Unmount(d)
<1> DEFINE freed == {d \in device \cap temporary : ~Busy(d)}
<1>1. /\ mtab' = mtab \ {Devnode(d) : d \in freed}
      /\ age' = IF freed = {} THEN age ELSE [age EXCEPT !.access = 0]
      /\ owed' = {f \in owed : DevOf[f] \notin freed}
      /\ UNCHANGED watching
  BY DEF UnmountTemporary
<1>2. CASE freed = {}
  BY <1>1, <1>2 DEF watching, watcher, vars, world, lists, history
<1>3. CASE freed # {}
  <2>1. PICK d \in Devices : freed = {d}
    BY <1>3, OneDevice
  <2>2. Devnode(d) \in mtab /\ walk \cap FilesOf(d) = {}
    BY <2>1 DEF ListingTypeOK, Busy
  <2>3. owed' = owed \ FilesOf(d)
    <3>1. owed \subseteq Files
      BY ListingType DEF ListingTypeOK, TypeOK
    <3> HIDE DEF freed
    <3> QED BY <1>1, <2>1, <3>1 DEF FilesOf
  <2>4. mtab' = mtab \ {Devnode(d)} /\ age' = [age EXCEPT !.access = 0]
    <3> HIDE DEF freed
    <3> QED BY <1>1, <1>3, <2>1
  <2> QED BY <1>1, <2>2, <2>3, <2>4 DEF Unmount, watching
<1> QED BY <1>2, <1>3

(* Every step of both programs and the desktop is, for the watcher, one of *)
(* its own steps or one of its environment, or none.                       *)
LEMMA ListingIsEnvironment ==
  ASSUME ListingTypeOK, [ListingNext]_allVars
  PROVE  [Next]_vars
<1> USE DEF Next, EnvStep
<1>1. CASE UNCHANGED allVars
  BY <1>1 DEF allVars
<1>2. CASE WatcherStep
  BY <1>2
<1>3. CASE ListDevices \/ ListFiles \/ EndListing \/ \E d \in Devices : LookAt(d)
  BY <1>3 DEF ListDevices, ListFiles, EndListing, LookAt
<1>4. CASE MountTemporarily
  <2>1. CASE UNCHANGED <<mtab, age>>
    BY <1>4, <2>1 DEF MountTemporarily, watching, watcher, vars, world, lists, history
  <2>2. ASSUME NEW d \in device, d \in plugged, Devnode(d) \notin mtab,
               mtab' = mtab \cup {Devnode(d)}, age' = [age EXCEPT !.access = 0]
        PROVE  \E e \in Devices : Mount(e)
    BY <1>4, <2>2 DEF MountTemporarily, watching, Mount, ListingTypeOK
  <2> QED BY <1>4, <2>1, <2>2 DEF MountTemporarily
<1>5. CASE UnmountTemporary
  BY <1>5, UmountIsUnmount
<1>6. CASE DesktopStep
  BY <1>6 DEF DesktopStep
<1>7. CASE FileStep
  BY <1>7 DEF FileStep
<1> QED BY <1>1, <1>2, <1>3, <1>4, <1>5, <1>6, <1>7 DEF ListingNext, ListingStep

-----------------------------------------------------------------------------
(* Types, and what the listing leaves behind.                              *)

(* The stick that is being listed has just been mounted: it is not one of  *)
(* those that could not be unmounted, and when it can be now, none of them *)
(* is taken for unmounted.                                                 *)
JustMounted == place = "listTemporary" => device \cap left = {}

ListingInv == ListingTypeOK /\ JustMounted

(* Every step keeps the types of the listing.                              *)
LEMMA ListingTyped ==
  ASSUME ListingInv, [ListingNext]_allVars
  PROVE  ListingInv'
<1> USE DEF ListingInv, ListingTypeOK, JustMounted
<1>0. TypeOK'
  BY ListingIsEnvironment, NextTyped
<1>1. Cardinality({}) = 0 /\ \A d : Cardinality({d}) = 1
  BY FS_EmptySet, FS_Singleton, Zenon
<1>2. CASE UNCHANGED allVars
  BY <1>0, <1>2 DEF allVars, vars, world, listing
<1>3. CASE WatcherStep /\ UNCHANGED listing
  <2>1. UNCHANGED mtab
    BY <1>3 DEF WatcherStep, Start, Enumerate, Alerta, FirstListed, Compare, Swap, Sleep,
                VisitDevice, VisitFile, VisitsTo, RoundEnds, world
  <2> QED BY <1>0, <1>3, <2>1 DEF listing
<1>4. CASE ListDevices \/ ListFiles \/ EndListing \/ \E d \in Devices : LookAt(d)
  <2>1. UNCHANGED <<plugged, mtab, temporary, left>> /\ plugged \subseteq Devices
    BY <1>4 DEF ListDevices, ListFiles, EndListing, LookAt, vars, world, TypeOK
  <2>2. CASE ListDevices \/ ListFiles \/ EndListing
    BY <1>0, <1>1, <2>1, <2>2 DEF ListDevices, ListFiles, EndListing
  <2>3. ASSUME NEW d \in Devices, LookAt(d) PROVE ListingInv'
    <3>1. place' \in {"next", "list", "mount"} /\ pending' \subseteq Devices
      BY <2>3 DEF LookAt
    <3>2. device' = device \/ device' = {d}
      BY <2>3 DEF LookAt
    <3>3. device' \subseteq Devices /\ Cardinality(device') <= 1
      BY <1>1, <3>2
    <3> QED BY <1>0, <2>1, <3>1, <3>3
  <2> QED BY <1>4, <2>2, <2>3
<1>5. CASE MountTemporarily
  <2>1. CASE place' = "next" /\ device' = {} /\ UNCHANGED <<mtab, temporary>>
    BY <1>0, <1>1, <1>5, <2>1 DEF MountTemporarily
  <2>2. ASSUME NEW d \in device, Devnode(d) \notin mtab, place' = "listTemporary",
               mtab' = mtab \cup {Devnode(d)}, temporary' = temporary \cup {d}
        PROVE  ListingInv'
    <3>1. device = {d} /\ d \in Devices
      BY OneDevice
    <3>2. d \notin left
      BY <2>2
    <3> QED BY <1>0, <1>5, <2>2, <3>1, <3>2 DEF MountTemporarily
  <2> QED BY <1>5, <2>1, <2>2 DEF MountTemporarily
<1>6. CASE UnmountTemporary
  <2> DEFINE freed == {d \in device \cap temporary : ~Busy(d)}
  <2>1. /\ mtab' = mtab \ {Devnode(d) : d \in freed}
        /\ temporary' = temporary \ freed
        /\ left' = left \cup ((device \cap temporary) \ freed)
        /\ place' = "next" /\ device' = {} /\ UNCHANGED pending
    BY <1>6 DEF UnmountTemporary
  <2>2. \A d, e \in Devices : Devnode(d) = Devnode(e) => d = e
    BY DEF Devnode
  <2>3. temporary' \subseteq {d \in Devices : Devnode(d) \in mtab'} /\ left' \subseteq temporary'
    <3>1. freed \subseteq Devices
      OBVIOUS
    <3>2. left \cap freed = {}
      BY <1>6 DEF UnmountTemporary
    <3> HIDE DEF freed
    <3> QED BY <2>1, <2>2, <3>1, <3>2
  <2> QED BY <1>0, <1>1, <2>1, <2>3
<1>7. CASE DesktopStep
  BY <1>0, <1>7 DEF DesktopStep, Forget
<1>8. CASE FileStep
  <2>1. UNCHANGED mtab
    BY <1>8 DEF FileStep, CreateFile, RemoveFile, AlterFile, RenameFile
  <2> QED BY <1>0, <1>8, <2>1 DEF FileStep, listing
<1> QED BY <1>2, <1>3, <1>4, <1>5, <1>6, <1>7, <1>8 DEF ListingNext, ListingStep

(* The two programs and the desktop keep their types.                      *)
THEOREM ListingTypeCorrect == ListingSpec => []ListingTypeOK
<1>1. ListingInit => ListingInv
  BY InitTyped, FS_EmptySet DEF ListingInit, ListingInv, ListingTypeOK, JustMounted
<1>2. ListingInv => ListingTypeOK
  BY DEF ListingInv
<1> QED BY <1>1, <1>2, ListingTyped, PTL DEF ListingSpec

(* Beside the listing the watcher meets nothing that it does not meet      *)
(* without it: the composition implements UsbWatcher.                      *)
THEOREM WatcherBesideListing == ListingSpec => Spec
<1>1. ListingInit => Init
  BY DEF ListingInit
<1> QED BY <1>1, ListingIsEnvironment, ListingTypeCorrect, PTL DEF ListingSpec, Spec

(* Beside the listing, too, the watcher reports what has changed on the    *)
(* sticks, and nothing else, in rounds in which nothing is mounted or      *)
(* unmounted and the access to the sticks stays as it is.                  *)
THEOREM ReportsBesideListing ==
  ListingSpec => [](/\ DeletedSound /\ DeletionsReported /\ AdditionsReported
                    /\ ChangesReported /\ QuietWhenUnchanged)
  BY WatcherBesideListing, DeletionsReal, DeletionsComplete, AdditionsComplete, ChangesComplete,
     NoFalseReports, PTL

(* Only a step of the listing itself makes a temporary mount, and it gives *)
(* it up, or knows that it could not, before it goes on.                   *)
LEMMA LeftStep ==
  ASSUME ListingTypeOK, NothingLeftMounted, [ListingNext]_allVars
  PROVE  NothingLeftMounted'
<1> USE DEF NothingLeftMounted, ListingTypeOK
<1>1. CASE UNCHANGED listing
  BY <1>1 DEF listing
<1>2. CASE ListDevices \/ ListFiles \/ EndListing \/ \E d \in Devices : LookAt(d)
  BY <1>2 DEF ListDevices, ListFiles, EndListing, LookAt
<1>3. CASE MountTemporarily
  BY <1>3 DEF MountTemporarily
<1>4. CASE UnmountTemporary
  <2> DEFINE freed == {d \in device \cap temporary : ~Busy(d)}
  <2>1. /\ temporary' = temporary \ freed
        /\ left' = left \cup ((device \cap temporary) \ freed)
    BY <1>4 DEF UnmountTemporary
  <2>2. \A d \in temporary \ left : d \in device \cap temporary
    OBVIOUS
  <2> HIDE DEF freed
  <2> QED BY <2>1, <2>2
<1>5. CASE DesktopStep
  BY <1>5 DEF DesktopStep, Forget
<1> QED BY <1>1, <1>2, <1>3, <1>4, <1>5 DEF ListingNext, ListingStep, FileStep, allVars

(* When the listing has left a stick, the stick is not mounted by it any   *)
(* more, unless the watcher was in the middle of its files at the umount   *)
(* (Patrullas.c:138-149).                                                  *)
THEOREM NothingStaysMounted == ListingSpec => []NothingLeftMounted
<1>1. ListingInit => NothingLeftMounted
  BY DEF ListingInit, NothingLeftMounted
<1> QED BY <1>1, ListingTypeCorrect, LeftStep, PTL DEF ListingSpec
=============================================================================
