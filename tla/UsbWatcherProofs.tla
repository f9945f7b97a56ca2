--------------------------- MODULE UsbWatcherProofs ---------------------------
(***************************************************************************)
(* Proofs about UsbWatcher, for any number of devices and files: the type  *)
(* of its variables, that no deletion is invented, and that what has       *)
(* changed, and nothing else, is reported.                                 *)
(***************************************************************************)
EXTENDS UsbWatcher, FiniteSetTheorems, TLAPS

-----------------------------------------------------------------------------
(* Types.                                                                  *)

(* What a listing is.                                                      *)
LEMMA ListingType ==
  ASSUME NEW l
  PROVE  l \in Listings <=> DOMAIN l \subseteq Files /\ l \in [DOMAIN l -> Attr]
  BY DEF Listings

(* A path added to a listing, or written over.                             *)
LEMMA ListingAdds ==
  ASSUME NEW l \in Listings, NEW f \in Files, NEW a \in Attr
  PROVE  [g \in DOMAIN l \cup {f} |-> IF g = f THEN a ELSE l[g]] \in Listings
<1> DEFINE k == [g \in DOMAIN l \cup {f} |-> IF g = f THEN a ELSE l[g]]
<1>1. DOMAIN l \subseteq Files /\ \A g \in DOMAIN l : l[g] \in Attr
  BY ListingType
<1>2. DOMAIN k = DOMAIN l \cup {f} /\ DOMAIN k \subseteq Files
  BY <1>1
<1>3. \A g \in DOMAIN k : k[g] \in Attr
  BY <1>1
<1>4. k \in [DOMAIN k -> Attr]
  BY <1>3
<1> QED BY <1>2, <1>4, ListingType

(* The number of elements of a set of devices is a natural number.         *)
LEMMA DeviceCount ==
  ASSUME NEW S \in SUBSET Devices
  PROVE  Cardinality(S) \in Nat
  BY ConstantsOK, FS_Subset, FS_CardinalityType DEF ConstantsOK

AgeType == [access : 0 .. 2, created : 0 .. 2, files : 0 .. 2]

(* An age that starts again, and ages a round later.                       *)
LEMMA AgeSteps ==
  ASSUME age \in AgeType
  PROVE  /\ [age EXCEPT !.access = 0] \in AgeType
         /\ [age EXCEPT !.files = 0] \in AgeType
         /\ [access |-> age.access, created |-> 0, files |-> 0] \in AgeType
         /\ [access |-> Old(age.access), created |-> Old(age.created), files |-> Old(age.files)]
              \in AgeType
<1>1. [age EXCEPT !.access = 0] \in AgeType
  BY DEF AgeType
<1>2. [age EXCEPT !.files = 0] \in AgeType
  BY DEF AgeType
<1>3. [access |-> age.access, created |-> 0, files |-> 0] \in AgeType
  BY DEF AgeType
<1>4. \A n \in 0 .. 2 : Old(n) \in 0 .. 2
  BY ConstantsOK DEF Old, ConstantsOK
<1>5. [access |-> Old(age.access), created |-> Old(age.created), files |-> Old(age.files)]
        \in AgeType
  BY <1>4 DEF AgeType
<1> QED BY <1>1, <1>2, <1>3, <1>5

(* Every variable has its type at the start.                               *)
LEMMA InitTyped == Init => TypeOK
<1> SUFFICES ASSUME Init PROVE TypeOK
  OBVIOUS
<1>1. None \in Listings
  BY ListingType DEF None
<1>2. age \in AgeType
  BY DEF Init, AgeType
<1>3. mtab \subseteq {Devnode(d) : d \in Devices} /\ plugged \subseteq Devices
  BY DEF Init
<1>4. removed \in [Files -> 0 .. 2]
  BY ConstantsOK DEF Init, ConstantsOK
<1> QED BY <1>1, <1>2, <1>3, <1>4 DEF Init, TypeOK, AgeType

(* A step of the watcher keeps the types.                                  *)
LEMMA WatcherTyped == TypeOK /\ WatcherStep => TypeOK'
<1> SUFFICES ASSUME TypeOK, WatcherStep PROVE TypeOK'
  OBVIOUS
<1> USE DEF TypeOK, world, lists, history
<1>1. None \in Listings
  BY ListingType DEF None
<1>2. CASE Start
  <2>1. {d \in plugged : Obtener(Syspath(d))} \in SUBSET Devices
    OBVIOUS
  <2> QED BY <1>2, <2>1, DeviceCount DEF Start
<1>3. CASE Enumerate
  <2>1. age' \in AgeType
    BY <1>3, AgeSteps DEF Enumerate, AgeType
  <2>2. removed' \in [Files -> 0 .. 2]
    BY <1>3, ConstantsOK DEF Enumerate, Old, ConstantsOK
  <2> QED BY <1>3, <2>1, <2>2 DEF Enumerate, AgeType
<1>4. CASE Alerta
  <2>1. {d \in current : Usable(d)} \in SUBSET Devices
    OBVIOUS
  <2> QED BY <1>4, <2>1, DeviceCount DEF Alerta
<1>5. CASE FirstListed
  BY <1>1, <1>5 DEF FirstListed
<1>6. CASE Compare
  BY <1>6 DEF Compare
<1>7. CASE Swap
  BY <1>1, <1>7 DEF Swap, RoundEnds
<1>8. CASE Sleep
  BY <1>8 DEF Sleep
<1>9. ASSUME NEW d \in Devices, VisitDevice(d) PROVE TypeOK'
  BY <1>9 DEF VisitDevice, PathsOf, FilesOf
<1>10. ASSUME NEW f \in Files, VisitFile(f) PROVE TypeOK'
  <2>1. new' \in Listings
    <3>1. CASE Stat(f)
      <4>1. disk[f] \in Attr
        BY <3>1, ListingType DEF Stat
      <4>2. new' = [g \in DOMAIN new \cup {f} |-> IF g = f THEN disk[f] ELSE new[g]]
        BY <1>10, <3>1 DEF VisitFile, VisitsTo, WithFile
      <4> QED BY <4>1, <4>2, ListingAdds
    <3>2. CASE ~Stat(f)
      BY <1>10, <3>2 DEF VisitFile, VisitsTo
    <3> QED BY <3>1, <3>2
  <2> QED BY <1>10, <2>1 DEF VisitFile, VisitsTo
<1> QED BY <1>2, <1>3, <1>4, <1>5, <1>6, <1>7, <1>8, <1>9, <1>10 DEF WatcherStep

(* A step of a file keeps the types.                                       *)
LEMMA FilesTyped ==
  ASSUME TypeOK, NEW f \in Files,
         CreateFile(f) \/ RemoveFile(f) \/ AlterFile(f) \/ \E g \in Files : RenameFile(f, g)
  PROVE  TypeOK'
<1> USE DEF TypeOK, lists, watcher
<1>1. age' \in AgeType
  BY AgeSteps DEF AgeType, CreateFile, RemoveFile, AlterFile, RenameFile
<1>2. CASE CreateFile(f)
  <2>1. PICK a \in Attr : disk' = [g \in DOMAIN disk \cup {f} |-> IF g = f THEN a ELSE disk[g]]
    BY <1>2 DEF CreateFile
  <2>2. disk' \in Listings /\ DOMAIN disk' = DOMAIN disk \cup {f}
    BY <2>1, ListingAdds
  <2>3. IsTree(DOMAIN disk')
    BY <1>2, <2>2 DEF CreateFile, IsTree
  <2> QED BY <1>1, <1>2, <2>2, <2>3 DEF CreateFile, AgeType
<1>3. CASE RemoveFile(f)
  <2>1. DOMAIN disk \subseteq Files /\ \A g \in DOMAIN disk : disk[g] \in Attr
    BY ListingType
  <2>2. disk' = [g \in DOMAIN disk \ {f} |-> disk[g]]
    BY <1>3 DEF RemoveFile, Restrict
  <2>3. DOMAIN disk' = DOMAIN disk \ {f} /\ disk' \in [DOMAIN disk' -> Attr]
    BY <2>1, <2>2
  <2>4. disk' \in Listings
    BY <2>1, <2>3, ListingType
  <2>5. IsTree(DOMAIN disk')
    BY <1>3, <2>1, <2>3 DEF RemoveFile, IsTree, Ancestors
  <2> QED BY <1>1, <1>3, <2>3, <2>4, <2>5 DEF RemoveFile, AgeType
<1>4. CASE AlterFile(f)
  <2>1. DOMAIN disk \subseteq Files /\ disk \in [DOMAIN disk -> Attr] /\ f \in DOMAIN disk
    BY <1>4, ListingType DEF AlterFile
  <2>2. PICK a \in Attr : disk' = [disk EXCEPT ![f] = a]
    BY <1>4 DEF AlterFile
  <2>3. DOMAIN disk' = DOMAIN disk /\ disk' \in [DOMAIN disk' -> Attr]
    BY <2>1, <2>2
  <2>4. disk' \in Listings
    BY <2>1, <2>3, ListingType
  <2>5. owed' \subseteq owed \cup {f}
    BY <1>4 DEF AlterFile
  <2> QED BY <1>1, <1>4, <2>1, <2>3, <2>4, <2>5 DEF AlterFile, AgeType
<1>5. ASSUME NEW g \in Files, RenameFile(f, g) PROVE TypeOK'
  <2>1. DOMAIN disk \subseteq Files /\ f \in DOMAIN disk /\ \A h \in DOMAIN disk : disk[h] \in Attr
    BY <1>5, ListingType DEF RenameFile
  <2>2. disk' = [h \in (DOMAIN disk \ {f}) \cup {g} |-> IF h = g THEN disk[f] ELSE disk[h]]
    BY <1>5 DEF RenameFile
  <2>3. DOMAIN disk' = (DOMAIN disk \ {f}) \cup {g} /\ disk' \in [DOMAIN disk' -> Attr]
    BY <2>1, <2>2
  <2>4. disk' \in Listings
    BY <2>1, <2>3, ListingType
  <2>5. \A h \in DOMAIN disk \ {f} : Ancestors(h) \subseteq DOMAIN disk \ {f}
    BY <1>5, <2>1 DEF RenameFile, IsTree, Ancestors
  <2>6. IsTree(DOMAIN disk')
    BY <1>5, <2>3, <2>5 DEF RenameFile, IsTree
  <2> QED BY <1>1, <1>5, <2>3, <2>4, <2>6 DEF RenameFile, AgeType
<1> QED BY <1>2, <1>3, <1>4, <1>5

(* A stick comes, goes, is mounted or unmounted, or what can be read of it *)
(* changes.                                                                *)
SticksStep ==
  \/ \E d \in Devices : Plug(d) \/ Unplug(d) \/ Mount(d) \/ Unmount(d)
  \/ \E call \in Fallible : ChangeAccess(call)

(* That keeps the types.                                                   *)
LEMMA SticksTyped == TypeOK /\ SticksStep => TypeOK'
<1> SUFFICES ASSUME TypeOK, SticksStep PROVE TypeOK'
  OBVIOUS
<1> USE DEF SticksStep, Plug, Unplug, Mount, Unmount, ChangeAccess
<1>1. age' \in AgeType
  BY AgeSteps DEF TypeOK, AgeType
<1>2. /\ plugged' \subseteq Devices /\ mtab' \subseteq {Devnode(e) : e \in Devices}
      /\ denied' \subseteq Fallible
  BY DEF TypeOK
<1>3. UNCHANGED <<watcher, disk, removed>> /\ owed' \subseteq owed
  OBVIOUS
<1> QED BY <1>1, <1>2, <1>3 DEF TypeOK, AgeType, watcher, lists

(* Every step keeps the types.                                             *)
LEMMA NextTyped == TypeOK /\ [Next]_vars => TypeOK'
<1> SUFFICES ASSUME TypeOK, [Next]_vars PROVE TypeOK'
  OBVIOUS
<1>1. CASE UNCHANGED vars
  BY <1>1 DEF TypeOK, vars, world, lists, history
<1>2. CASE EnvStep
  BY <1>2, FilesTyped, SticksTyped DEF EnvStep, SticksStep
<1> QED BY <1>1, <1>2, WatcherTyped DEF Next

(* Every variable of the watcher keeps its type.                           *)
THEOREM TypeCorrect == Spec => []TypeOK
  BY InitTyped, NextTyped, PTL DEF Spec

-----------------------------------------------------------------------------
(* No deletion is invented.                                                *)

(* A path that can be read and exists, or went r rounds ago at most.       *)
Known(f, r) == /\ Usable(DevOf[f]) /\ Permitted(f)
               /\ f \in DOMAIN disk \/ removed[f] <= r

(* A path still to be looked at can be come to, as far as the directories  *)
(* go that have been looked at.                                            *)
Ahead(f) == /\ Usable(DevOf[f]) /\ ~Fails("opendir root", DevOf[f])
            /\ \A g \in Ancestors(f) \ walk : Passes(g)

(* While the sticks and the access to them stay as they are, what the      *)
(* listings hold is known, and what the previous one holds is in the new   *)
(* one or still to be looked at, or has gone.                              *)
ListingsKnown ==
  /\ pc \in {"start", "first"} => age.access = 0
  /\ pc \notin {"first", "visit"} => walk = {}
  /\ pc \in {"sleep", "enumerate", "alert"} => new = None
  /\ pc \in {"sleep", "enumerate"} /\ age.access >= 1 => \A f \in DOMAIN old : Known(f, 0)
  /\ pc \in {"alert", "visit"} /\ age.access = 2 =>
       \A f \in DOMAIN old : Known(f, 1) /\ DevOf[f] \in current
  /\ pc \in {"visit", "swap"} /\ age.access >= 1 => \A f \in DOMAIN new : Known(f, 0)
  /\ pc = "visit" /\ age.access >= 1 => \A f \in walk : Ahead(f)
  /\ pc = "visit" /\ age.access = 2 =>
       \A f \in DOMAIN old :
         removed[f] <= 1 \/ f \in DOMAIN new \/ f \in walk \/ DevOf[f] \in unvisited

DeletionInv == ListingsKnown /\ DeletedSound

(* What TypeOK says of the parts of the state that the listings are about. *)
LEMMA Parts ==
  ASSUME TypeOK
  PROVE  /\ DOMAIN disk \subseteq Files /\ DOMAIN old \subseteq Files
         /\ DOMAIN new \subseteq Files /\ walk \subseteq Files
         /\ age.access \in 0 .. 2 /\ removed \in [Files -> 0 .. 2]
         /\ \A f \in Files : DevOf[f] \in Devices /\ f \in FilesOf(DevOf[f])
  BY ListingType, ConstantsOK DEF TypeOK, ConstantsOK, FilesOf

(* What can be read depends on the sticks and the access to them.          *)
LEMMA ReadAsBefore ==
  ASSUME UNCHANGED <<plugged, mtab, denied>>
  PROVE  /\ \A d : Usable(d)' = Usable(d)
         /\ \A f : Permitted(f)' = Permitted(f)
         /\ \A g : Passes(g)' = Passes(g)
         /\ \A c, x : Fails(c, x)' = Fails(c, x)
         /\ \A f : DOMAIN disk' = DOMAIN disk => Visible(f)' = Visible(f)
<1>1. \A c, x : Fails(c, x)' = Fails(c, x)
  BY DEF Fails
<1>2. \A d : Usable(d)' = Usable(d)
  BY <1>1 DEF Usable, Obtener
<1>3. \A g : Passes(g)' = Passes(g)
  BY <1>1 DEF Passes
<1>4. \A f : Permitted(f)' = Permitted(f)
  BY <1>1, <1>3 DEF Permitted
<1> QED BY <1>1, <1>2, <1>3, <1>4 DEF Visible

(* The lines of a deletion are about files that are not listed any more.   *)
LEMMA DeletedLines ==
  ASSUME NEW f, NEW o, NEW n,
         Line("eliminado", f, f) \in Tamano(o, n) \cup AnadirEliminar(o, n) \cup Cambios(o, n)
  PROVE  f \in DOMAIN o \ DOMAIN n
<1> USE DEF Line
<1>1. Line("eliminado", f, f) \notin Tamano(o, n)
  BY DEF Tamano
<1>2. Line("eliminado", f, f) \notin CambiosDe(o, n)
  BY DEF CambiosDe
<1>3. Line("eliminado", f, f) \notin Cambios(o, n)
  BY <1>2 DEF Cambios
<1>4. Line("eliminado", f, f) \in AnadirEliminar(o, n)
  BY <1>1, <1>3
<1> DEFINE Added == {Line(IF Copia(g, o, n) THEN "copia" ELSE "anadido", g, g) :
                       g \in DOMAIN n \ DOMAIN o}
           Gone  == {Line("eliminado", g, g) : g \in DOMAIN o \ DOMAIN n}
<1>5. Line("eliminado", f, f) \notin Added
  <2> SUFFICES ASSUME NEW g, Line("eliminado", f, f)
                               = Line(IF Copia(g, o, n) THEN "copia" ELSE "anadido", g, g)
               PROVE  FALSE
    OBVIOUS
  <2>1. CASE Copia(g, o, n)
    BY <2>1
  <2>2. CASE ~Copia(g, o, n)
    BY <2>2
  <2> QED BY <2>1, <2>2
<1>6. AnadirEliminar(o, n) \in {{}, Added, Gone}
  <2> HIDE DEF Line
  <2> QED BY DEF AnadirEliminar
<1>7. Line("eliminado", f, f) \in Gone
  <2> HIDE DEF Added, Gone
  <2> QED BY <1>4, <1>5, <1>6
<1> QED BY <1>7

(* A scan that is over has looked at everything.                           *)
LEMMA CompareSound == TypeOK /\ DeletionInv /\ Compare => DeletionInv'
<1> SUFFICES ASSUME TypeOK, DeletionInv, Compare PROVE DeletionInv'
  OBVIOUS
<1> USE DEF Compare, Listed, world, lists, history
<1>1. ListingsKnown'
  BY ReadAsBefore DEF DeletionInv, ListingsKnown, Known
<1>2. ASSUME age.access = 2, NEW f \in Files, Line("eliminado", f, f) \in reports'
      PROVE  removed[f] <= 1
  BY <1>2, DeletedLines DEF DeletionInv, ListingsKnown
<1>3. DeletedSound'
  BY <1>2 DEF DeletedSound, AccessStable
<1> QED BY <1>1, <1>3 DEF DeletionInv

(* A path under another one is on the same stick, with all that is under   *)
(* it.                                                                     *)
LEMMA UnderIt ==
  ASSUME NEW g \in Files, NEW f \in Below[g]
  PROVE  f \in Files /\ DevOf[f] = DevOf[g] /\ Below[f] \subseteq Below[g]
<1>1. Below[g] \subseteq Files
  BY TreeOK DEF TreeOK
<1>2. /\ \A h \in Below[g] : Below[h] \subseteq Below[g]
      /\ \A h \in Below[g] : DevOf[h] = DevOf[g]
  BY TreeOK DEF TreeOK
<1> QED BY <1>1, <1>2

(* The paths of a stick come to all that can be read on it.                *)
LEMMA PathsAhead ==
  ASSUME TypeOK, NEW d \in Devices, VisitDevice(d)
  PROVE  /\ walk = {} /\ d \in unvisited /\ unvisited' = unvisited \ {d}
         /\ UNCHANGED <<pc, lists, world, history, notices, reports>>
         /\ \A f \in walk' : /\ Usable(DevOf[f]) /\ ~Fails("opendir root", DevOf[f])
                             /\ Ancestors(f) \subseteq walk'
         /\ \A f \in Files : DevOf[f] = d /\ Usable(d) /\ Permitted(f) => f \in walk'
<1>1. walk' = PathsOf(d)
  BY DEF VisitDevice
<1>2. ASSUME NEW f \in walk'
      PROVE  /\ Usable(DevOf[f]) /\ ~Fails("opendir root", DevOf[f])
             /\ Ancestors(f) \subseteq walk'
  <2>1. f \in Files /\ DevOf[f] = d /\ walk' = FilesOf(d) /\ Usable(d) /\ ~Fails("opendir root", d)
    BY <1>1 DEF PathsOf, FilesOf
  <2>2. \A g \in Ancestors(f) : g \in Files /\ DevOf[g] = DevOf[f]
    BY <2>1, UnderIt DEF Ancestors
  <2> QED BY <2>1, <2>2 DEF FilesOf
<1>3. ASSUME NEW f \in Files, DevOf[f] = d, Usable(d), Permitted(f) PROVE f \in walk'
  BY <1>1, <1>3 DEF PathsOf, FilesOf, Permitted
<1> QED BY <1>2, <1>3 DEF VisitDevice, lists, world, history

(* Looking at a stick puts its files on the way.                           *)
LEMMA VisitDeviceSound ==
  ASSUME TypeOK, DeletionInv, NEW d \in Devices, VisitDevice(d)
  PROVE  DeletionInv'
<1> USE DEF lists, world, history
<1>0. pc \in {"first", "visit"}
  BY DEF VisitDevice, Listing
<1>1. /\ UNCHANGED <<pc, old, new, current, age, removed, disk, plugged, mtab, denied, reports>>
      /\ walk = {} /\ d \in unvisited /\ unvisited' = unvisited \ {d}
  BY PathsAhead
<1>2. \A f \in walk' : Ahead(f)'
  <2>1. \A f \in walk' : /\ Usable(DevOf[f]) /\ ~Fails("opendir root", DevOf[f])
                         /\ Ancestors(f) \subseteq walk'
    BY PathsAhead
  <2> QED BY <1>1, <2>1, ReadAsBefore DEF Ahead
<1>3. \A f, r : Known(f, r) => Known(f, r)'
  BY <1>1, ReadAsBefore DEF Known
<1>4. ASSUME pc = "visit", age.access = 2, NEW f \in DOMAIN old, removed[f] > 1, f \notin DOMAIN new
      PROVE  f \in walk' \/ DevOf[f] \in unvisited'
  <2>1. f \in Files /\ removed[f] \in 0 .. 2
    BY Parts
  <2>2. DevOf[f] \in unvisited /\ Usable(DevOf[f]) /\ Permitted(f)
    BY <1>1, <1>4, <2>1 DEF DeletionInv, ListingsKnown, Known
  <2>3. DevOf[f] = d => f \in walk'
    BY <2>1, <2>2, PathsAhead
  <2> QED BY <1>1, <2>2, <2>3
<1>5. pc = "visit" /\ age.access = 2 =>
        \A f \in DOMAIN old :
          removed[f] <= 1 \/ f \in DOMAIN new \/ f \in walk' \/ DevOf[f] \in unvisited'
  BY <1>4, Parts
<1>6. ListingsKnown'
  BY <1>0, <1>1, <1>2, <1>3, <1>5 DEF DeletionInv, ListingsKnown
<1>7. DeletedSound'
  BY <1>1 DEF DeletionInv, DeletedSound, AccessStable
<1> QED BY <1>6, <1>7 DEF DeletionInv

(* What a look at a path adds to the listing has been found by stat; what  *)
(* it takes off the way has been listed or cannot be read; and what stays  *)
(* on the way is under no directory that cannot be opened.                 *)
LEMMA VisitFileWalk ==
  ASSUME TypeOK, NEW f \in Files, VisitFile(f)
  PROVE  /\ pc \in {"first", "visit"} /\ f \in walk /\ Ancestors(f) \cap walk = {}
         /\ UNCHANGED <<pc, old, current, viejos, actuales, devices, unvisited, world, history,
                        notices, reports>>
         /\ walk' \subseteq walk
         /\ \/ Stat(f) /\ DOMAIN new' = DOMAIN new \cup {f} /\ new'[f] = disk[f]
               /\ \A g \in DOMAIN new : g # f => new'[g] = new[g]
            \/ ~Stat(f) /\ new' = new
         /\ \A h \in walk \ walk' : Visible(h) => h \in DOMAIN new'
         /\ \A h \in walk' : \A g \in Ancestors(h) \ walk' : g \in walk => Passes(g)
<1> DEFINE open == Stat(f) /\ ~Fails("opendir", f)
<1>1. walk' = walk \ (IF open THEN {f} ELSE Below[f])
  BY DEF VisitFile, VisitsTo
<1>2. \/ Stat(f) /\ DOMAIN new' = DOMAIN new \cup {f} /\ new'[f] = disk[f]
         /\ \A g \in DOMAIN new : g # f => new'[g] = new[g]
      \/ ~Stat(f) /\ new' = new
  BY DEF VisitFile, VisitsTo, WithFile
<1>3. ASSUME NEW h \in walk \ walk', Visible(h) PROVE h \in DOMAIN new'
  <2>1. h = f \/ (~open /\ h \in Below[f])
    BY <1>1
  <2>2. h \in DOMAIN disk /\ Usable(DevOf[h]) /\ Permitted(h) /\ h \in Files
    BY <1>3, Parts DEF Visible
  <2>3. CASE h = f
    <3>1. Stat(f)
      BY <2>2, <2>3 DEF Stat, Usable, Permitted
    <3> QED BY <1>2, <2>3, <3>1
  <2>4. CASE ~open /\ h \in Below[f] /\ h # f
    <3>1. f \in Ancestors(h) /\ DevOf[f] = DevOf[h]
      BY <2>4, UnderIt DEF Ancestors
    <3>2. f \in DOMAIN disk /\ Passes(f)
      BY <2>2, <3>1 DEF TypeOK, IsTree, Permitted
    <3>3. open
      BY <2>2, <3>1, <3>2 DEF Stat, Passes, Usable
    <3> QED BY <2>4, <3>3
  <2> QED BY <2>1, <2>3, <2>4
<1>4. ASSUME NEW h \in walk', NEW g \in Ancestors(h) \ walk', g \in walk PROVE Passes(g)
  <2>1. CASE open
    BY <1>1, <1>4, <2>1 DEF Passes, Stat
  <2>2. CASE ~open
    <3>1. g \in Below[f] /\ h \notin Below[f]
      BY <1>1, <1>4, <2>2
    <3>2. h \in Below[g] /\ Below[g] \subseteq Below[f]
      BY <3>1, UnderIt DEF Ancestors
    <3> QED BY <3>1, <3>2
  <2> QED BY <2>1, <2>2
<1>5. walk' \subseteq walk
  BY <1>1
<1>6. /\ pc \in {"first", "visit"} /\ f \in walk /\ Ancestors(f) \cap walk = {}
      /\ UNCHANGED <<pc, old, current, viejos, actuales, devices, unvisited, world, history,
                     notices, reports>>
  BY DEF VisitFile, VisitsTo, Listing
<1> HIDE DEF open
<1> QED BY <1>2, <1>3, <1>4, <1>5, <1>6

(* Looking at a path lists it, unless it has gone.                         *)
LEMMA VisitFileSound ==
  ASSUME TypeOK, DeletionInv, NEW f \in Files, VisitFile(f)
  PROVE  DeletionInv'
<1> USE DEF world, lists, history
<1>0. pc \in {"first", "visit"} /\ f \in walk /\ Ancestors(f) \cap walk = {} /\ walk' \subseteq walk
  BY VisitFileWalk
<1>1. UNCHANGED <<pc, old, current, age, removed, disk, plugged, mtab, denied, reports, unvisited>>
  BY VisitFileWalk
<1>2. \A g, r : Known(g, r) => Known(g, r)'
  BY <1>1, ReadAsBefore DEF Known
<1>3. pc = "visit" /\ age.access >= 1 => \A h \in walk' : Ahead(h)'
  <2> SUFFICES ASSUME pc = "visit", age.access >= 1, NEW h \in walk' PROVE Ahead(h)'
    OBVIOUS
  <2>1. Ahead(h)
    BY <1>0 DEF DeletionInv, ListingsKnown
  <2>2. \A g \in Ancestors(h) \ walk' : Passes(g)
    BY <2>1, VisitFileWalk DEF Ahead
  <2> QED BY <1>1, <2>1, <2>2, ReadAsBefore DEF Ahead
<1>4. DOMAIN new \subseteq DOMAIN new' /\ \A h \in DOMAIN new' \ DOMAIN new : h = f /\ Stat(f)
  BY VisitFileWalk
<1>5. ASSUME pc = "visit", age.access >= 1, Stat(f) PROVE Known(f, 0)
  <2>1. Ahead(f)
    BY <1>0, <1>5 DEF DeletionInv, ListingsKnown
  <2>2. Permitted(f)
    BY <1>0, <1>5, <2>1 DEF Ahead, Permitted, Stat
  <2> QED BY <1>5, <2>1, <2>2 DEF Known, Ahead, Stat
<1>6. pc = "visit" /\ age.access >= 1 => \A g \in DOMAIN new' : Known(g, 0)'
  BY <1>2, <1>4, <1>5 DEF DeletionInv, ListingsKnown
<1>7. pc = "visit" /\ age.access = 2 =>
        \A g \in DOMAIN old :
          removed[g] <= 1 \/ g \in DOMAIN new' \/ g \in walk' \/ DevOf[g] \in unvisited
  <2> SUFFICES ASSUME pc = "visit", age.access = 2, NEW g \in DOMAIN old, ~(removed[g] <= 1),
                      g \in walk, g \notin walk'
               PROVE  g \in DOMAIN new'
    BY <1>4 DEF DeletionInv, ListingsKnown
  <2>1. Visible(g)
    BY DEF DeletionInv, ListingsKnown, Known, Visible
  <2> QED BY <2>1, VisitFileWalk
<1>8. ListingsKnown'
  BY <1>0, <1>1, <1>2, <1>3, <1>6, <1>7 DEF DeletionInv, ListingsKnown
<1>9. DeletedSound'
  BY <1>0, <1>1 DEF DeletedSound
<1> QED BY <1>8, <1>9 DEF DeletionInv

(* A round later what was known is known still.                            *)
LEMMA EnumerateSound == TypeOK /\ DeletionInv /\ Enumerate => DeletionInv'
<1> SUFFICES ASSUME TypeOK, DeletionInv, Enumerate PROVE DeletionInv'
  OBVIOUS
<1> USE DEF Enumerate, world, lists, history
<1>1. age.access \in 0 .. 2 /\ (age'.access = 2 => age.access >= 1)
  BY Parts, ConstantsOK DEF Old, ConstantsOK
<1>2. \A f \in Files : removed[f] <= 0 => removed'[f] <= 1
  BY Parts, ConstantsOK DEF Old, ConstantsOK
<1>3. age'.access = 2 => \A f \in DOMAIN old : Known(f, 1)' /\ DevOf[f] \in current'
  BY <1>1, <1>2, Parts, ReadAsBefore DEF DeletionInv, ListingsKnown, Known, Usable
<1>4. ListingsKnown'
  BY <1>3 DEF DeletionInv, ListingsKnown
<1> QED BY <1>4 DEF DeletionInv, DeletedSound

(* The other steps of the watcher.                                         *)
LEMMA WatcherSound == TypeOK /\ DeletionInv /\ WatcherStep => DeletionInv'
<1> SUFFICES ASSUME TypeOK, DeletionInv, WatcherStep PROVE DeletionInv'
  OBVIOUS
<1> USE DEF world, lists, history
<1>1. CASE Start
  BY <1>1 DEF Start, DeletionInv, ListingsKnown, DeletedSound
<1>2. CASE Alerta
  <2>1. DOMAIN new = {}
    BY <1>2 DEF Alerta, DeletionInv, ListingsKnown, None
  <2>2. \A f, r : Known(f, r) => Known(f, r)'
    BY <1>2, ReadAsBefore DEF Alerta, Known
  <2> QED BY <1>2, <2>1, <2>2 DEF Alerta, DeletionInv, ListingsKnown, DeletedSound
<1>3. CASE FirstListed
  BY <1>3 DEF FirstListed, Listed, DeletionInv, ListingsKnown, DeletedSound
<1>4. CASE Swap
  <2>1. \A f, r : Known(f, r) => Known(f, r)'
    BY <1>4, ReadAsBefore DEF Swap, RoundEnds, Known
  <2> QED BY <1>4, <2>1 DEF Swap, RoundEnds, DeletionInv, ListingsKnown, DeletedSound
<1>5. CASE Sleep
  <2>1. \A f, r : Known(f, r) => Known(f, r)'
    BY <1>5, ReadAsBefore DEF Sleep, Known
  <2>2. UNCHANGED <<age, old, new, walk, reports>> /\ pc = "sleep" /\ pc' = "enumerate"
    BY <1>5 DEF Sleep
  <2>3. new = None
    BY <2>2 DEF DeletionInv, ListingsKnown
  <2>4. ListingsKnown'
    BY <2>1, <2>2, <2>3 DEF DeletionInv, ListingsKnown
  <2> QED BY <2>2, <2>4 DEF DeletionInv, DeletedSound
<1> QED BY <1>1, <1>2, <1>3, <1>4, <1>5, CompareSound, EnumerateSound, VisitDeviceSound,
           VisitFileSound DEF WatcherStep

(* A stick that comes, goes, is mounted or unmounted, or cannot be read.   *)
LEMMA SticksSound ==
  ASSUME TypeOK, DeletionInv, SticksStep
  PROVE  DeletionInv'
<1> USE DEF SticksStep, Plug, Unplug, Mount, Unmount, ChangeAccess
<1>1. age'.access = 0
  BY DEF TypeOK
<1>2. UNCHANGED <<pc, old, new, walk>>
  BY DEF watcher, lists
<1>3. ListingsKnown'
  BY <1>1, <1>2 DEF DeletionInv, ListingsKnown
<1>4. DeletedSound'
  BY <1>1 DEF DeletedSound, AccessStable
<1> QED BY <1>3, <1>4 DEF DeletionInv

(* A file that is created, changed, renamed or deleted is known as before. *)
LEMMA FilesSound ==
  ASSUME TypeOK, DeletionInv, NEW f \in Files,
         CreateFile(f) \/ RemoveFile(f) \/ AlterFile(f) \/ \E g \in Files : RenameFile(f, g)
  PROVE  DeletionInv'
<1>1. UNCHANGED <<watcher, plugged, mtab, denied>> /\ age'.access = age.access
  <2>1. age \in AgeType
    BY DEF TypeOK, AgeType
  <2>2. \/ age' = [age EXCEPT !.files = 0]
        \/ age' = [access |-> age.access, created |-> 0, files |-> 0]
    BY DEF CreateFile, RemoveFile, AlterFile, RenameFile
  <2>3. UNCHANGED <<watcher, plugged, mtab, denied>>
    BY DEF CreateFile, RemoveFile, AlterFile, RenameFile
  <2>4. age'.access = age.access
    BY <2>1, <2>2 DEF AgeType
  <2> QED BY <2>3, <2>4
<1>2. /\ DOMAIN disk \ DOMAIN disk' \subseteq {f}
      /\ \/ removed' = removed /\ DOMAIN disk \subseteq DOMAIN disk'
         \/ removed' = [removed EXCEPT ![f] = 0]
  <2>1. CASE CreateFile(f)
    BY <2>1 DEF CreateFile
  <2>2. CASE RemoveFile(f)
    BY <2>2 DEF RemoveFile, Restrict
  <2>3. CASE AlterFile(f)
    BY <2>3 DEF AlterFile
  <2>4. CASE \E g \in Files : RenameFile(f, g)
    BY <2>4 DEF RenameFile
  <2> QED BY <2>1, <2>2, <2>3, <2>4
<1>3. /\ \A g \in Files : removed'[g] <= removed[g]
      /\ f \in DOMAIN disk \ DOMAIN disk' => removed'[f] = 0
  <2>1. \A g \in Files : removed[g] \in Nat
    BY Parts
  <2>2. removed' = [removed EXCEPT ![f] = 0] =>
          removed'[f] = 0 /\ \A g \in Files : g # f => removed'[g] = removed[g]
    BY Parts
  <2> QED BY <1>2, <2>1, <2>2
<1>4. \A g : (Usable(DevOf[g]) => Usable(DevOf[g])') /\ (Permitted(g) => Permitted(g)')
  BY <1>1, ReadAsBefore
<1>5. \A g \in Files : (Known(g, 0) => Known(g, 0)') /\ (Known(g, 1) => Known(g, 1)')
  <2> TAKE g \in Files
  <2>1. removed[g] \in 0 .. 2 /\ removed'[g] \in 0 .. 2
    BY Parts, FilesTyped DEF TypeOK
  <2> QED BY <1>2, <1>3, <1>4, <2>1 DEF Known
<1>6. \A g \in Files : removed[g] <= 1 => removed'[g] <= 1
  <2> TAKE g \in Files
  <2>1. removed[g] \in 0 .. 2 /\ removed'[g] \in 0 .. 2
    BY Parts, FilesTyped DEF TypeOK
  <2> QED BY <1>3, <2>1
<1>7. \A g : Ahead(g) => Ahead(g)'
  BY <1>1, ReadAsBefore DEF watcher, Ahead
<1>8. ListingsKnown'
  BY <1>1, <1>5, <1>6, <1>7, Parts DEF watcher, lists, DeletionInv, ListingsKnown
<1>9. DeletedSound'
  BY <1>1, <1>6 DEF watcher, DeletionInv, DeletedSound, AccessStable
<1> QED BY <1>8, <1>9 DEF DeletionInv

(* Every step of the watcher and of the sticks keeps the listings known.   *)
LEMMA DeletionStep == TypeOK /\ DeletionInv /\ [Next]_vars => DeletionInv'
<1> SUFFICES ASSUME TypeOK, DeletionInv, [Next]_vars PROVE DeletionInv'
  OBVIOUS
<1>1. CASE UNCHANGED vars
  <2>1. \A g, r : Known(g, r) => Known(g, r)'
    BY <1>1, ReadAsBefore DEF vars, world, history, Known
  <2>2. \A g : Ahead(g) => Ahead(g)'
    BY <1>1, ReadAsBefore DEF vars, world, Ahead
  <2> QED BY <1>1, <2>1, <2>2 DEF vars, world, lists, history, DeletionInv, ListingsKnown,
                                   DeletedSound, AccessStable
<1>2. CASE EnvStep
  BY <1>2, SticksSound, FilesSound DEF EnvStep, SticksStep
<1> QED BY <1>1, <1>2, WatcherSound DEF Next

(* At the start nothing is listed and nothing reported.                    *)
LEMMA DeletionInit == Init => DeletionInv
  BY DEF Init, None, DeletionInv, ListingsKnown, DeletedSound

(* While the sticks and the access to them stay as they are, a file        *)
(* reported as deleted was deleted or renamed in this round or in the one  *)
(* before (Fronteras.c:522-543).                                           *)
THEOREM DeletionsReal == Spec => []DeletedSound
<1>1. DeletionInv => DeletedSound
  BY DEF DeletionInv
<1> QED BY <1>1, DeletionInit, DeletionStep, TypeCorrect, PTL DEF Spec

-----------------------------------------------------------------------------
(* Rounds in which the sticks stay as they are.                            *)

(* The environment does nothing to the watcher.  It changes the sticks, or *)
(* else the files, and then paths appear only in a creation.               *)
SticksMove ==
  /\ UNCHANGED disk /\ age'.access = 0
  /\ age'.created = age.created /\ age'.files = age.files

FilesMove ==
  /\ UNCHANGED <<plugged, mtab, denied>> /\ age'.access = age.access /\ age'.files = 0
  /\ \/ age'.created = 0
     \/ age'.created = age.created /\ DOMAIN disk' \subseteq DOMAIN disk

LEMMA EnvMoves ==
  ASSUME TypeOK, EnvStep
  PROVE  UNCHANGED watcher /\ (SticksMove \/ FilesMove)
<1>0. age \in [access : 0 .. 2, created : 0 .. 2, files : 0 .. 2]
  BY DEF TypeOK
<1>1. ASSUME SticksStep PROVE UNCHANGED watcher /\ SticksMove
  <2>1. UNCHANGED <<watcher, disk>> /\ age' = [age EXCEPT !.access = 0]
    BY <1>1 DEF SticksStep, Plug, Unplug, Mount, Unmount, ChangeAccess
  <2> QED BY <1>0, <2>1 DEF SticksMove
<1>2. ASSUME NEW f \in Files, RemoveFile(f) \/ AlterFile(f)
      PROVE  UNCHANGED watcher /\ FilesMove
  <2>1. UNCHANGED <<watcher, plugged, mtab, denied>> /\ age' = [age EXCEPT !.files = 0]
    BY <1>2 DEF RemoveFile, AlterFile
  <2>2. DOMAIN disk' \subseteq DOMAIN disk
    BY <1>2 DEF RemoveFile, AlterFile, Restrict
  <2> QED BY <1>0, <2>1, <2>2 DEF FilesMove
<1>3. ASSUME NEW f \in Files, CreateFile(f) \/ \E g \in Files : RenameFile(f, g)
      PROVE  UNCHANGED watcher /\ FilesMove
  <2>1. /\ UNCHANGED <<watcher, plugged, mtab, denied>>
        /\ age' = [access |-> age.access, created |-> 0, files |-> 0]
    BY <1>3 DEF CreateFile, RenameFile
  <2> QED BY <2>1 DEF FilesMove
<1> QED BY <1>1, <1>2, <1>3 DEF EnvStep, SticksStep

(* One round later every age is one more.                                  *)
LEMMA Ageing ==
  ASSUME TypeOK, Enumerate
  PROVE  /\ age'.access = 2 => age.access >= 1
         /\ age'.created = 2 => age.created >= 1
         /\ age'.files = 2 => age.files >= 1
         /\ (age.files <= age.created => age'.files <= age'.created)
<1>1. age.access \in 0 .. 2 /\ age.created \in 0 .. 2 /\ age.files \in 0 .. 2
  BY DEF TypeOK
<1>2. /\ age'.access = Old(age.access) /\ age'.created = Old(age.created)
      /\ age'.files = Old(age.files)
  BY DEF Enumerate
<1> QED BY <1>1, <1>2, ConstantsOK DEF Old, ConstantsOK

Mounted == {d \in Devices : Usable(d)}

(* While the sticks stay as they are, both enumerations are what udev      *)
(* knows, both counts agree, and nothing is announced.                     *)
SticksCounted ==
  /\ pc \in {"start", "first"} => age.access = 0
  /\ pc \in {"sleep", "enumerate"} /\ age.access >= 1 =>
       devices = plugged /\ viejos = Cardinality(Mounted)
  /\ pc \in {"alert", "visit", "swap"} /\ age.access >= 1 => current = plugged
  /\ pc \in {"visit", "swap"} /\ age.access >= 1 => actuales = Cardinality(Mounted)
  /\ pc \in {"alert", "visit", "swap"} /\ age.access = 2 =>
       devices = plugged /\ viejos = Cardinality(Mounted)
  /\ pc \in {"visit", "swap"} /\ age.access = 2 => notices = {}

(* Every step keeps the sticks counted.                                    *)
LEMMA CountedStep ==
  ASSUME TypeOK, SticksCounted, [Next]_vars
  PROVE  SticksCounted'
<1> USE DEF SticksCounted, world, lists, history
<1>0. age.access \in 0 .. 2 /\ plugged \subseteq Devices
  BY DEF TypeOK
<1>1. UNCHANGED <<plugged, mtab, denied>> => Mounted' = Mounted
  BY ReadAsBefore DEF Mounted
<1>2. CASE UNCHANGED vars
  BY <1>1, <1>2 DEF vars
<1>3. CASE EnvStep
  <2>1. CASE SticksMove
    BY <1>3, <2>1, EnvMoves DEF SticksMove, watcher
  <2>2. CASE FilesMove
    BY <1>1, <1>3, <2>2, EnvMoves DEF FilesMove, watcher
  <2> QED BY <1>3, <2>1, <2>2, EnvMoves
<1>4. CASE Start
  BY <1>4 DEF Start
<1>5. CASE Enumerate
  BY <1>0, <1>1, <1>5, Ageing DEF Enumerate
<1>6. CASE Alerta
  <2>1. current = plugged => {d \in current : Usable(d)} = Mounted
    BY <1>0 DEF Mounted, Usable
  <2>2. age.access = 2 => notices' = {}
    BY <1>6 DEF Alerta
  <2> QED BY <1>0, <1>1, <1>6, <2>1, <2>2 DEF Alerta
<1>7. CASE FirstListed
  BY <1>7 DEF FirstListed
<1>8. CASE Compare
  BY <1>1, <1>8 DEF Compare
<1>9. CASE Swap
  BY <1>0, <1>1, <1>9 DEF Swap, RoundEnds
<1>10. CASE Sleep
  BY <1>1, <1>10 DEF Sleep
<1>11. ASSUME NEW d \in Devices, VisitDevice(d) PROVE SticksCounted'
  BY <1>1, <1>11 DEF VisitDevice
<1>12. ASSUME NEW f \in Files, VisitFile(f) PROVE SticksCounted'
  BY <1>1, <1>12, VisitFileWalk
<1> QED BY <1>2, <1>3, <1>4, <1>5, <1>6, <1>7, <1>8, <1>9, <1>10, <1>11, <1>12
        DEF Next, WatcherStep

(* Every path that can be read is in a listing.                            *)
Complete(l) == \A f \in DOMAIN disk : Visible(f) => f \in DOMAIN l

(* While the sticks stay as they are and no path appears, every path is in *)
(* the new listing or still to be looked at, and in the previous one.      *)
ListingsComplete ==
  /\ age.files <= age.created
  /\ pc \in {"start", "first"} => age.created = 0
  /\ pc = "visit" /\ age.access >= 1 /\ age.created >= 1 =>
       \A f \in DOMAIN disk : Visible(f) =>
         f \in DOMAIN new \/ f \in walk \/ DevOf[f] \in unvisited
  /\ pc = "swap" /\ age.access >= 1 /\ age.created >= 1 => Complete(new)
  /\ pc \in {"sleep", "enumerate"} /\ age.access >= 1 /\ age.created >= 1 => Complete(old)
  /\ pc \in {"alert", "visit", "swap"} /\ age.access = 2 /\ age.created = 2 => Complete(old)

(* What happens to the sticks and files keeps the listings complete.       *)
LEMMA CompleteEnv ==
  ASSUME TypeOK, ListingsComplete, EnvStep
  PROVE  ListingsComplete'
<1> USE DEF ListingsComplete
<1>0. /\ age.access \in 0 .. 2 /\ age.created \in 0 .. 2 /\ age.files \in 0 .. 2
      /\ UNCHANGED <<pc, old, new, unvisited, walk>>
  BY EnvMoves DEF TypeOK, watcher, lists
<1>1. CASE SticksMove
  BY <1>0, <1>1 DEF SticksMove
<1>2. CASE FilesMove
  <2>1. CASE age'.created = 0
    BY <1>0, <1>2, <2>1 DEF FilesMove
  <2>2. CASE age'.created = age.created /\ DOMAIN disk' \subseteq DOMAIN disk
    <3>1. \A f \in DOMAIN disk' : Visible(f)' => Visible(f)
      BY <1>2, <2>2, ReadAsBefore DEF FilesMove, Visible
    <3>2. (Complete(old) => Complete(old)') /\ (Complete(new) => Complete(new)')
      BY <1>0, <2>2, <3>1 DEF Complete
    <3>3. pc = "visit" /\ age.access >= 1 /\ age.created >= 1 =>
            \A f \in DOMAIN disk' : Visible(f)' =>
              f \in DOMAIN new \/ f \in walk \/ DevOf[f] \in unvisited
      BY <2>2, <3>1
    <3> QED BY <1>0, <1>2, <2>2, <3>2, <3>3 DEF FilesMove
  <2> QED BY <1>2, <2>1, <2>2 DEF FilesMove
<1> QED BY <1>1, <1>2, EnvMoves

(* Every step of the watcher keeps the listings complete.                  *)
LEMMA CompleteWatcher ==
  ASSUME TypeOK, ListingsKnown, SticksCounted, ListingsComplete, WatcherStep
  PROVE  ListingsComplete'
<1> USE DEF ListingsComplete, world, lists, history
<1>0. age.access \in 0 .. 2 /\ age.created \in 0 .. 2 /\ age.files \in 0 .. 2
  BY DEF TypeOK
<1>1. UNCHANGED <<world, old>> => Complete(old)' = Complete(old)
  BY ReadAsBefore DEF Complete
<1>2. UNCHANGED <<world, new>> => Complete(new)' = Complete(new)
  BY ReadAsBefore DEF Complete
<1>3. UNCHANGED world => \A f : Visible(f)' = Visible(f)
  BY ReadAsBefore
<1>4. CASE Start
  BY <1>4 DEF Start
<1>5. CASE Enumerate
  BY <1>0, <1>1, <1>5, Ageing DEF Enumerate
<1>6. CASE Alerta
  <2>1. \A f : Visible(f) => DevOf[f] \in plugged
    BY DEF Visible, Usable
  <2> QED BY <1>0, <1>1, <1>3, <1>6, <2>1 DEF Alerta, SticksCounted
<1>7. CASE FirstListed
  BY <1>7 DEF FirstListed
<1>8. CASE Compare
  BY <1>1, <1>2, <1>8 DEF Compare, Listed, Complete
<1>9. CASE Swap
  <2>1. Complete(new) => Complete(old)'
    BY <1>9, ReadAsBefore DEF Swap, RoundEnds, Complete
  <2> QED BY <1>9, <2>1 DEF Swap, RoundEnds
<1>10. CASE Sleep
  BY <1>1, <1>10 DEF Sleep
<1>11. ASSUME NEW d \in Devices, VisitDevice(d) PROVE ListingsComplete'
  <2>1. \A f \in DOMAIN disk : DevOf[f] = d /\ Visible(f) => f \in walk'
    BY <1>11, Parts, PathsAhead DEF Visible
  <2>2. unvisited' = unvisited \ {d} /\ walk = {}
    BY <1>11 DEF VisitDevice
  <2>3. pc = "visit" /\ age.access >= 1 /\ age.created >= 1 =>
          \A f \in DOMAIN disk : Visible(f) =>
            f \in DOMAIN new \/ f \in walk' \/ DevOf[f] \in unvisited'
    BY <2>1, <2>2
  <2> QED BY <1>1, <1>2, <1>3, <1>11, <2>3 DEF VisitDevice, Listing
<1>12. ASSUME NEW f \in Files, VisitFile(f) PROVE ListingsComplete'
  <2>1. DOMAIN new \subseteq DOMAIN new' /\ \A h \in walk \ walk' : Visible(h) => h \in DOMAIN new'
    BY <1>12, VisitFileWalk
  <2>2. /\ pc \in {"first", "visit"}
        /\ UNCHANGED <<pc, old, world, age, unvisited>>
    BY <1>12, VisitFileWalk
  <2> QED BY <1>1, <1>3, <2>1, <2>2
<1> QED BY <1>4, <1>5, <1>6, <1>7, <1>8, <1>9, <1>10, <1>11, <1>12 DEF WatcherStep

(* A listing holds nothing but what there is.                              *)
Fresh(l) == \A f \in DOMAIN l : f \in DOMAIN disk /\ l[f] = disk[f]

(* While no file changes the listings are what is on the sticks.           *)
ListingsFresh ==
  /\ pc \in {"start", "first"} => age.files = 0
  /\ pc \in {"visit", "swap"} /\ age.files >= 1 => Fresh(new)
  /\ pc \in {"sleep", "enumerate"} /\ age.files >= 1 => Fresh(old)
  /\ pc \in {"alert", "visit", "swap"} /\ age.files = 2 => Fresh(old)

(* Every step keeps the listings fresh.                                    *)
LEMMA FreshStep ==
  ASSUME TypeOK, ListingsKnown, ListingsFresh, [Next]_vars
  PROVE  ListingsFresh'
<1> USE DEF ListingsFresh, world, lists, history
<1>0. age.access \in 0 .. 2 /\ age.created \in 0 .. 2 /\ age.files \in 0 .. 2
  BY DEF TypeOK
<1>1. UNCHANGED <<disk, old>> => Fresh(old)' = Fresh(old)
  BY DEF Fresh
<1>2. UNCHANGED <<disk, new>> => Fresh(new)' = Fresh(new)
  BY DEF Fresh
<1>3. CASE UNCHANGED vars
  BY <1>1, <1>2, <1>3 DEF vars
<1>4. CASE EnvStep
  <2>1. CASE SticksMove
    BY <1>1, <1>2, <1>4, <2>1, EnvMoves DEF SticksMove, watcher
  <2>2. CASE FilesMove
    BY <1>4, <2>2, EnvMoves DEF FilesMove, watcher
  <2> QED BY <1>4, <2>1, <2>2, EnvMoves
<1>5. CASE Start
  BY <1>5 DEF Start
<1>6. CASE Enumerate
  BY <1>0, <1>1, <1>6, Ageing DEF Enumerate
<1>7. CASE Alerta
  <2>1. Fresh(new)'
    BY <1>7 DEF Alerta, ListingsKnown, None, Fresh
  <2> QED BY <1>1, <1>7, <2>1 DEF Alerta
<1>8. CASE FirstListed
  BY <1>8 DEF FirstListed
<1>9. CASE Compare
  BY <1>1, <1>2, <1>9 DEF Compare
<1>10. CASE Swap
  <2>1. Fresh(new) => Fresh(old)'
    BY <1>10 DEF Swap, RoundEnds, Fresh
  <2> QED BY <1>10, <2>1 DEF Swap, RoundEnds
<1>11. CASE Sleep
  BY <1>1, <1>11 DEF Sleep
<1>12. ASSUME NEW d \in Devices, VisitDevice(d) PROVE ListingsFresh'
  BY <1>1, <1>2, <1>12 DEF VisitDevice
<1>13. ASSUME NEW f \in Files, VisitFile(f) PROVE ListingsFresh'
  <2>1. Fresh(new) => Fresh(new)'
    BY <1>13, VisitFileWalk DEF Fresh, Stat
  <2>2. UNCHANGED <<pc, old, world, age>>
    BY <1>13, VisitFileWalk
  <2> QED BY <1>1, <2>1, <2>2
<1> QED BY <1>3, <1>4, <1>5, <1>6, <1>7, <1>8, <1>9, <1>10, <1>11, <1>12, <1>13
        DEF Next, WatcherStep

-----------------------------------------------------------------------------
(* What the comparisons print.                                             *)

(* A listing is finite: a shorter one lacks a path of a longer one.        *)
LEMMA ListingCounts ==
  ASSUME NEW l \in Listings, NEW m \in Listings, DOMAIN l \subseteq DOMAIN m
  PROVE  /\ CountOf(l) \in Nat /\ CountOf(m) \in Nat /\ CountOf(l) <= CountOf(m)
         /\ DOMAIN l # DOMAIN m => CountOf(l) < CountOf(m)
<1>1. DOMAIN m \in SUBSET Files /\ IsFiniteSet(Files)
  BY ListingType, ConstantsOK DEF ConstantsOK
<1>2. IsFiniteSet(DOMAIN m)
  BY <1>1, FS_Subset
<1>3. /\ IsFiniteSet(DOMAIN l) /\ Cardinality(DOMAIN l) <= Cardinality(DOMAIN m)
      /\ Cardinality(DOMAIN m) = Cardinality(DOMAIN l) => DOMAIN m = DOMAIN l
  BY <1>2, FS_Subset
<1>4. Cardinality(DOMAIN l) \in Nat /\ Cardinality(DOMAIN m) \in Nat
  BY <1>2, <1>3, FS_CardinalityType
<1> QED BY <1>3, <1>4 DEF CountOf

(* While the counts of the sticks agree, a shorter listing names what has  *)
(* gone, a longer one what has come.                                       *)
LEMMA CountedLines ==
  ASSUME NEW o \in Listings, NEW n \in Listings, viejos = actuales
  PROVE  /\ DOMAIN n \subseteq DOMAIN o =>
              \A f \in DOMAIN o \ DOMAIN n : Line("eliminado", f, f) \in AnadirEliminar(o, n)
         /\ DOMAIN o \subseteq DOMAIN n =>
              \A f \in DOMAIN n \ DOMAIN o : \/ Line("copia", f, f) \in AnadirEliminar(o, n)
                                             \/ Line("anadido", f, f) \in AnadirEliminar(o, n)
         /\ DOMAIN o = DOMAIN n => AnadirEliminar(o, n) = {} /\ Cambios(o, n) = CambiosDe(o, n)
<1> DEFINE Gone  == {Line("eliminado", f, f) : f \in DOMAIN o \ DOMAIN n}
           Added == {Line(IF Copia(f, o, n) THEN "copia" ELSE "anadido", f, f) :
                       f \in DOMAIN n \ DOMAIN o}
<1>1. ASSUME DOMAIN n \subseteq DOMAIN o, NEW f \in DOMAIN o \ DOMAIN n
      PROVE  Line("eliminado", f, f) \in AnadirEliminar(o, n)
  <2>1. CountOf(o) > CountOf(n) /\ ~(CountOf(o) < CountOf(n))
    BY <1>1, ListingCounts
  <2>2. AnadirEliminar(o, n) = Gone
    BY <2>1 DEF AnadirEliminar
  <2> QED BY <2>2
<1>2. ASSUME DOMAIN o \subseteq DOMAIN n, NEW f \in DOMAIN n \ DOMAIN o
      PROVE  \/ Line("copia", f, f) \in AnadirEliminar(o, n)
             \/ Line("anadido", f, f) \in AnadirEliminar(o, n)
  <2>1. CountOf(o) < CountOf(n) /\ ~(CountOf(o) > CountOf(n))
    BY <1>2, ListingCounts
  <2>2. AnadirEliminar(o, n) = Added
    BY <2>1 DEF AnadirEliminar
  <2>3. Line(IF Copia(f, o, n) THEN "copia" ELSE "anadido", f, f) \in Added
    OBVIOUS
  <2> QED BY <2>2, <2>3
<1>3. ASSUME DOMAIN o = DOMAIN n
      PROVE  AnadirEliminar(o, n) = {} /\ Cambios(o, n) = CambiosDe(o, n)
  <2>1. CountOf(o) = CountOf(n) /\ ~(CountOf(o) > CountOf(n)) /\ ~(CountOf(o) < CountOf(n))
    BY <1>3, ListingCounts DEF CountOf
  <2> QED BY <2>1 DEF AnadirEliminar, Cambios
<1> QED BY <1>1, <1>2, <1>3

RoundsInv == ListingsKnown /\ SticksCounted /\ ListingsComplete /\ ListingsFresh

(* What a comparison starts from when the sticks have stayed as they are   *)
(* and no file has changed since the scan began.                           *)
LEMMA AtCompare ==
  ASSUME TypeOK, RoundsInv, Compare, age.access = 2, age.files >= 1
  PROVE  /\ old \in Listings /\ new \in Listings /\ viejos = actuales
         /\ Fresh(new) /\ Complete(new)
         /\ \A f \in DOMAIN new : Visible(f)
         /\ \A f \in DOMAIN old : /\ Usable(DevOf[f]) /\ Permitted(f)
                                  /\ removed[f] <= 1 \/ f \in DOMAIN new
         /\ age.created = 2 => Complete(old) /\ DOMAIN new \subseteq DOMAIN old
<1>0. age.access \in 0 .. 2 /\ age.created \in 0 .. 2 /\ age.files \in 0 .. 2
  BY DEF TypeOK
<1>1. pc = "visit" /\ walk = {} /\ unvisited = {} /\ old \in Listings /\ new \in Listings
  BY DEF Compare, Listed, TypeOK
<1>2. viejos = actuales
  BY <1>1 DEF RoundsInv, SticksCounted
<1>3. Fresh(new)
  BY <1>1 DEF RoundsInv, ListingsFresh
<1>4. Complete(new)
  BY <1>0, <1>1 DEF RoundsInv, ListingsComplete, Complete
<1>5. \A f \in DOMAIN new : Visible(f)
  BY <1>1, <1>3 DEF RoundsInv, ListingsKnown, Known, Visible, Fresh
<1>6. \A f \in DOMAIN old : /\ Usable(DevOf[f]) /\ Permitted(f)
                            /\ removed[f] <= 1 \/ f \in DOMAIN new
  BY <1>1 DEF RoundsInv, ListingsKnown, Known
<1>7. age.created = 2 => Complete(old)
  BY <1>1 DEF RoundsInv, ListingsComplete
<1>8. Complete(old) => DOMAIN new \subseteq DOMAIN old
  BY <1>3, <1>5 DEF Complete, Fresh
<1> QED BY <1>1, <1>2, <1>3, <1>4, <1>5, <1>6, <1>7, <1>8

(* A comparison reports what has gone, has come or has changed, and        *)
(* nothing else.                                                           *)
LEMMA CompareReports ==
  ASSUME TypeOK, RoundsInv, Compare
  PROVE  /\ DeletionsReported' /\ AdditionsReported'
         /\ ChangesReported' /\ QuietWhenUnchanged'
<1>0. /\ UNCHANGED <<world, lists, history, notices>>
      /\ age.access \in 0 .. 2 /\ age.created \in 0 .. 2 /\ age.files \in 0 .. 2
      /\ reports' = Tamano(old, new) \cup AnadirEliminar(old, new) \cup Cambios(old, new)
      /\ pc = "visit"
  BY DEF TypeOK, Compare
<1> USE DEF world, lists, history, AccessStable
<1>1. ASSUME age.access = 2, age.created = 2, age.files >= 1, NEW f \in DOMAIN old \ DOMAIN disk
      PROVE  Line("eliminado", f, f) \in reports'
  <2>1. f \in DOMAIN old \ DOMAIN new /\ DOMAIN new \subseteq DOMAIN old
    BY <1>1, AtCompare DEF Fresh
  <2> QED BY <1>0, <1>1, <2>1, AtCompare, CountedLines
<1>2. ASSUME age.access = 2, age.files >= 1, \A f \in Files : removed[f] = 2
      PROVE  /\ DOMAIN old \subseteq DOMAIN new
             /\ \A f \in DOMAIN disk : Visible(f) => f \in DOMAIN new
  BY <1>2, AtCompare, Parts DEF Complete
<1>3. ASSUME age.access = 2, age.files >= 1, \A f \in Files : removed[f] = 2,
             NEW f \in DOMAIN disk \ DOMAIN old, Visible(f)
      PROVE  Line("copia", f, f) \in reports' \/ Line("anadido", f, f) \in reports'
  BY <1>0, <1>2, <1>3, AtCompare, CountedLines
<1>4. ASSUME age.access = 2, age.created = 2, age.files >= 1, \A f \in Files : removed[f] = 2,
             NEW f \in Kept(old, disk)
      PROVE  /\ disk[f].perm # old[f].perm => Line("permisos", f, f) \in reports'
             /\ disk[f].mtime # old[f].mtime => Line("timestamps", f, f) \in reports'
             /\ disk[f].owner # old[f].owner => Line("ownership", f, f) \in reports'
  <2>1. DOMAIN old = DOMAIN new
    BY <1>2, <1>4, AtCompare
  <2>2. f \in Kept(old, new) /\ new[f] = disk[f]
    BY <1>4, <2>1, AtCompare DEF Kept, Fresh
  <2>3. CambiosDe(old, new) \subseteq reports'
    BY <1>0, <1>4, <2>1, AtCompare, CountedLines
  <2> QED BY <2>2, <2>3 DEF CambiosDe
<1>5. ASSUME age.access = 2, age.files = 2
      PROVE  /\ notices = {}
             /\ \A r \in reports' : r.kind = "extension" /\ <<r.was, r.is>> \in Twins
  <2>1. Fresh(old) /\ age.created = 2 /\ notices = {}
    BY <1>0, <1>5 DEF RoundsInv, ListingsFresh, ListingsComplete, SticksCounted
  <2>2. DOMAIN old = DOMAIN new
    BY <1>5, <2>1, AtCompare DEF Fresh, Complete, Visible
  <2>3. \A f \in DOMAIN old : f \in DOMAIN disk /\ old[f] = disk[f] /\ new[f] = disk[f]
    BY <1>5, <2>1, <2>2, AtCompare DEF Fresh
  <2>4. \A f \in Kept(old, new) : ~(new[f].size - old[f].size >= Threshold)
    <3> TAKE f \in Kept(old, new)
    <3>1. disk[f] \in Attr /\ new[f] = disk[f] /\ old[f] = disk[f]
      BY <2>3, ListingType DEF TypeOK, Kept
    <3>2. disk[f].size \in Nat /\ Threshold \in Nat \ {0}
      BY <3>1, ConstantsOK DEF ConstantsOK
    <3> QED BY <3>1, <3>2
  <2>5. Tamano(old, new) = {}
    BY <2>4 DEF Tamano
  <2>6. reports' = CambiosDe(old, new)
    BY <1>0, <1>5, <2>2, <2>5, AtCompare, CountedLines
  <2>7. ASSUME NEW r \in reports'
        PROVE  r.kind = "extension" /\ <<r.was, r.is>> \in Twins
    <3>1. PICK q \in (DOMAIN old) \X (DOMAIN new) :
            /\ Base[q[1]] = Base[q[2]] /\ Ext[q[1]] # Ext[q[2]]
            /\ old[q[1]].size = new[q[2]].size
            /\ r = Line("extension", q[1], q[2])
      BY <2>3, <2>6, <2>7 DEF CambiosDe, Kept
    <3> QED BY <2>2, <2>3, <3>1 DEF Line, Twins
  <2> QED BY <2>1, <2>7
<1>6. DeletionsReported'
  BY <1>0, <1>1 DEF DeletionsReported
<1>7. AdditionsReported'
  BY <1>0, <1>3, ReadAsBefore DEF AdditionsReported
<1>8. ChangesReported'
  BY <1>0, <1>4 DEF ChangesReported, Kept
<1>9. QuietWhenUnchanged'
  BY <1>0, <1>5 DEF QuietWhenUnchanged, Twins
<1> QED BY <1>6, <1>7, <1>8, <1>9

Reported == DeletionsReported /\ AdditionsReported /\ ChangesReported /\ QuietWhenUnchanged

(* Only a comparison makes reports; once the sticks or files change after  *)
(* it, they are about a state that is no longer there, and nothing is      *)
(* promised.                                                               *)
LEMMA ReportedStep ==
  ASSUME TypeOK, RoundsInv, Reported, [Next]_vars
  PROVE  Reported'
<1> USE DEF Reported, DeletionsReported, AdditionsReported, ChangesReported, QuietWhenUnchanged,
            AccessStable
<1>1. CASE UNCHANGED vars
  <2>1. Twins' = Twins
    BY <1>1 DEF vars, world, Twins
  <2>2. \A f : Visible(f)' = Visible(f)
    BY <1>1, ReadAsBefore DEF vars, world
  <2> QED BY <1>1, <2>1, <2>2 DEF vars, world, lists, history, Kept
<1>2. CASE EnvStep
  <2>1. age.access \in 0 .. 2 /\ age.files \in 0 .. 2
    BY DEF TypeOK
  <2>2. age'.access = 0 \/ age'.files = 0
    BY <1>2, EnvMoves DEF SticksMove, FilesMove
  <2> QED BY <2>1, <2>2
<1>3. CASE Compare
  BY <1>3, CompareReports
<1>4. CASE Start \/ Enumerate \/ Alerta \/ FirstListed \/ Swap \/ Sleep
  <2>1. pc' # "swap"
    BY <1>4 DEF Start, Enumerate, Alerta, FirstListed, Swap, Sleep
  <2> QED BY <2>1
<1>5. CASE (\E d \in Devices : VisitDevice(d)) \/ \E f \in Files : VisitFile(f)
  <2>1. pc' # "swap"
    BY <1>5 DEF VisitDevice, VisitFile, VisitsTo, Listing
  <2> QED BY <2>1
<1> QED BY <1>1, <1>2, <1>3, <1>4, <1>5 DEF Next, WatcherStep

(* At the start there are no listings and no reports.                      *)
LEMMA RoundsInit == Init => SticksCounted /\ ListingsComplete /\ ListingsFresh /\ Reported
  BY DEF Init, SticksCounted, ListingsComplete, ListingsFresh, Reported, DeletionsReported,
         AdditionsReported, ChangesReported, QuietWhenUnchanged

(* Every step keeps the listings complete.                                 *)
LEMMA CompleteStep ==
  ASSUME TypeOK, ListingsKnown, SticksCounted, ListingsComplete, [Next]_vars
  PROVE  ListingsComplete'
<1>1. CASE UNCHANGED vars
  <2>1. \A f : Visible(f)' = Visible(f)
    BY <1>1, ReadAsBefore DEF vars, world
  <2> QED BY <1>1, <2>1 DEF vars, world, lists, history, ListingsComplete, Complete
<1> QED BY <1>1, CompleteEnv, CompleteWatcher DEF Next

(* What the reports rest on, from the start and in every step.             *)
LEMMA ReportsKept == Spec => [](TypeOK /\ DeletionInv /\ RoundsInv /\ Reported)
<1>1. DeletionInv => ListingsKnown
  BY DEF DeletionInv
<1> DEFINE Inv == TypeOK /\ DeletionInv /\ RoundsInv /\ Reported
<1>2. Init => Inv
  BY <1>1, InitTyped, DeletionInit, RoundsInit DEF RoundsInv
<1>3. Inv /\ [Next]_vars => Inv'
  <2> SUFFICES ASSUME Inv, [Next]_vars PROVE Inv'
    OBVIOUS
  <2>1. TypeOK' /\ DeletionInv'
    BY NextTyped, DeletionStep
  <2>2. ListingsKnown'
    BY <2>1 DEF DeletionInv
  <2>3. RoundsInv'
    BY <2>2, CountedStep, CompleteStep, FreshStep DEF RoundsInv
  <2> QED BY <2>1, <2>3, ReportedStep
<1> QED BY <1>2, <1>3, PTL DEF Spec

(* While the sticks and the access to them stay as they are and no file is *)
(* created, the files of the previous listing that are gone when a scan    *)
(* begins are reported in it (Fronteras.c:522-543).                        *)
THEOREM DeletionsComplete == Spec => []DeletionsReported
<1>1. Reported => DeletionsReported
  BY DEF Reported
<1> QED BY <1>1, ReportsKept, PTL

(* While the sticks and the access to them stay as they are and no file    *)
(* goes, the files added before a scan where they can be read are each     *)
(* reported in it, as added or as a copy (Fronteras.c:506-519, 544-565).   *)
THEOREM AdditionsComplete == Spec => []AdditionsReported
<1>1. Reported => AdditionsReported
  BY DEF Reported
<1> QED BY <1>1, ReportsKept, PTL

(* While the sticks, the access to them and the set of files stay as they  *)
(* are, a change of permissions, time or owner made before a scan is       *)
(* reported in it (Fronteras.c:437-498).                                   *)
THEOREM ChangesComplete == Spec => []ChangesReported
<1>1. Reported => ChangesReported
  BY DEF Reported
<1> QED BY <1>1, ReportsKept, PTL

(* When neither the files nor the access to them have changed for two      *)
(* rounds nothing is reported, except for the extension of files that look *)
(* alike (Fronteras.c:445-452).                                            *)
THEOREM NoFalseReports == Spec => []QuietWhenUnchanged
<1>1. Reported => QuietWhenUnchanged
  BY DEF Reported
<1> QED BY <1>1, ReportsKept, PTL
=============================================================================
