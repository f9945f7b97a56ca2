----------------------------- MODULE UsbWatcher -----------------------------
(***************************************************************************)
(* The USB watcher of "Patrullas Fronterizas" (Fronteras.c): every few     *)
(* seconds it enumerates the USB block devices, announces those that came  *)
(* or went, lists the files of the mounted ones and compares the listing   *)
(* with the previous one.  Devices, mounts, files and the system calls     *)
(* that fail are the environment, which moves between any two steps of the *)
(* watcher.                                                                *)
(***************************************************************************)
EXTENDS Integers, FiniteSets, Functions

CONSTANTS
  Devices,    \* USB block devices
  Files,      \* full paths
  DevOf,      \* the device a path is on
  Below,      \* a path and all the paths under it
  Fallible,   \* system calls that may fail: <<function, what it is called for>>
  Base, Ext,  \* nombre and extension of a path
  Prefixes,   \* <<a, b>>: the name a begins the name b
  Attr,       \* attributes of a file: size, perm, mtime and owner
  Threshold,  \* growth that is reported: 10 MB
  Horizon     \* bound: rounds the history goes back; 2, or 0 to leave it out

ASSUME ConstantsOK ==
  /\ IsFiniteSet(Devices) /\ IsFiniteSet(Files)
  /\ DevOf \in [Files -> Devices] /\ DOMAIN Base = Files /\ DOMAIN Ext = Files
  /\ \A a \in Attr : a.size \in Nat
  /\ Threshold \in Nat \ {0} /\ Horizon \in {0, 2}
  /\ \A f \in Files : <<Base[f], Base[f]>> \in Prefixes

ASSUME TreeOK ==
  /\ Below \in [Files -> SUBSET Files]
  /\ \A f \in Files : /\ f \in Below[f]
                      /\ \A g \in Below[f] : /\ Below[g] \subseteq Below[f] /\ DevOf[g] = DevOf[f]
                                             /\ f \in Below[g] => f = g

VARIABLES
  plugged,   \* devices udev knows
  mtab,      \* device nodes that are mounted
  disk,      \* the files there are, with their attributes
  denied,    \* system calls that fail at present
  pc,        \* where the watcher is
  devices,   \* lista_dispositivos: the previous enumeration
  current,   \* lista_disp_actuales
  viejos,    \* mounted devices, at the previous count
  actuales,  \* mounted devices, at this count
  old,       \* lista_archivos: the previous listing
  new,       \* archivos_nuevos: the listing being made
  unvisited, \* devices ensenar has still to visit
  walk,      \* paths listar_archivos has still to look at
  notices,   \* lines of alerta in this round
  reports,   \* lines of the comparisons in this round
  age,       \* history: rounds since the last change of some kind
  removed,   \* history: rounds since each path was last removed
  owed       \* history: files that grew by Threshold in one go, not reported

world   == <<plugged, mtab, disk, denied>>
lists   == <<devices, current, viejos, actuales, old, new>>
history == <<age, removed>>
vars    == <<world, pc, lists, unvisited, walk, notices, reports, history, owed>>

Listings == UNION {[S -> Attr] : S \in SUBSET Files}
None == [f \in {} |-> f]            \* the empty listing

(* A device has a path in /sys and a node in /dev; mtab names nodes.       *)
Syspath(d) == <<"/sys", d>>
Devnode(d) == <<"/dev", d>>
FilesOf(d) == {f \in Files : DevOf[f] = d}
Ancestors(f) == {g \in Files \ {f} : f \in Below[g]}
IsTree(S) == \A f \in S : Ancestors(f) \subseteq S

(* For want of a permission, of memory or of a descriptor, because of the  *)
(* medium, or because readdir stops before the path.                       *)
Fails(call, x) == <<call, x>> \in denied

(* NULL, too, when mtab cannot be opened.                                  *)
Obtener(name) == name \in mtab /\ ~Fails("setmntent", name)
Usable(d) == d \in plugged /\ Obtener(Devnode(d))

(* Nothing on the way to a path, or at its end, fails.                     *)
Passes(g) == ~Fails("stat", g) /\ ~Fails("opendir", g)
Permitted(f) == /\ ~Fails("opendir root", DevOf[f]) /\ ~Fails("stat", f)
                /\ \A g \in Ancestors(f) : Passes(g)
Visible(f) == f \in DOMAIN disk /\ Usable(DevOf[f]) /\ Permitted(f)

Line(kind, was, is) == [kind |-> kind, was |-> was, is |-> is]

Old(rounds) == IF rounds < Horizon THEN rounds + 1 ELSE Horizon

Init ==
  /\ plugged \in SUBSET Devices
  /\ mtab \in SUBSET {Devnode(d) : d \in plugged}
  /\ disk \in {l \in Listings : IsTree(DOMAIN l)}
  /\ denied \in SUBSET Fallible
  /\ pc = "start"
  /\ devices = {} /\ current = {} /\ viejos = 0 /\ actuales = 0
  /\ old = None /\ new = None /\ unvisited = {} /\ walk = {}
  /\ notices = {} /\ reports = {}
  /\ age = [access |-> 0, created |-> 0, files |-> 0]
  /\ removed = [f \in Files |-> Horizon] /\ owed = {}

-----------------------------------------------------------------------------
(* What the comparisons print: o is the previous listing, n the new one.   *)

CountOf(listing) == Cardinality(DOMAIN listing)

Kept(o, n) == DOMAIN o \cap DOMAIN n

(* Mutant: > instead of >=.                                                *)
TamanoMutant(o, n) ==
  {Line("tamano", f, f) : f \in {g \in Kept(o, n) : n[g].size - o[g].size > Threshold}}

Tamano(o, n) ==
  {Line("tamano", f, f) : f \in {g \in Kept(o, n) : n[g].size - o[g].size >= Threshold}}

Copia(f, o, n) ==
  \E g \in DOMAIN o : /\ Ext[g] = Ext[f] /\ o[g].size = n[f].size
                      /\ <<Base[g], Base[f]>> \in Prefixes

AnadirEliminar(o, n) ==
  CASE viejos # actuales -> {}
    [] CountOf(o) > CountOf(n) ->
         {Line("eliminado", f, f) : f \in DOMAIN o \ DOMAIN n}
    [] CountOf(o) < CountOf(n) ->
         {Line(IF Copia(f, o, n) THEN "copia" ELSE "anadido", f, f) : f \in DOMAIN n \ DOMAIN o}
    [] OTHER -> {}

(* Only when both listings are equally long: the extension, of any two     *)
(* files with the same name and size, and the attributes of each file.     *)
CambiosDe(o, n) ==
  {Line("extension", p[1], p[2]) : p \in
     {q \in (DOMAIN o) \X (DOMAIN n) : /\ Base[q[1]] = Base[q[2]] /\ Ext[q[1]] # Ext[q[2]]
                                       /\ o[q[1]].size = n[q[2]].size}}
  \cup {Line("permisos", f, f) : f \in {g \in Kept(o, n) : o[g].perm # n[g].perm}}
  \cup {Line("timestamps", f, f) : f \in {g \in Kept(o, n) : o[g].mtime # n[g].mtime}}
  \cup {Line("ownership", f, f) : f \in {g \in Kept(o, n) : o[g].owner # n[g].owner}}

(* Mutant: the test of the lengths of the other comparison.                *)
CambiosMutant(o, n) == IF CountOf(o) < CountOf(n) THEN CambiosDe(o, n) ELSE {}

Cambios(o, n) == IF CountOf(o) = CountOf(n) THEN CambiosDe(o, n) ELSE {}

-----------------------------------------------------------------------------
(* The watcher.                                                            *)

(* The first enumeration and the first count, which looks the path in /sys *)
(* of each device up in mtab.                                              *)
Start ==
  /\ pc = "start" /\ pc' = "first"
  /\ devices' = plugged /\ unvisited' = plugged
  /\ viejos' = Cardinality({d \in plugged : Obtener(Syspath(d))})
  /\ UNCHANGED <<world, current, actuales, old, new, walk, notices, reports, history, owed>>

Enumerate ==
  /\ pc = "enumerate" /\ pc' = "alert"
  /\ current' = plugged
  /\ age' = [access |-> Old(age.access), created |-> Old(age.created), files |-> Old(age.files)]
  /\ removed' = [f \in Files |-> Old(removed[f])]
  /\ UNCHANGED <<world, devices, viejos, actuales, old, new, unvisited, walk, notices, reports,
                 owed>>

(* One line at most for the devices that went, one for each mounted device *)
(* that came.                                                              *)
Alerta ==
  /\ pc = "alert" /\ pc' = "visit"
  /\ notices' = {Line("desconectado", d, d) : d \in IF devices \subseteq current THEN {}
                   ELSE {CHOOSE d \in devices : d \notin current}}
                \cup {Line("conectado", d, d) : d \in {e \in current \ devices : Usable(e)}}
  /\ actuales' = Cardinality({d \in current : Usable(d)})
  /\ unvisited' = current
  /\ UNCHANGED <<world, devices, current, viejos, old, new, walk, reports, history, owed>>

Listing == pc \in {"first", "visit"}

(* What listar_archivos may come to, unless the mount point cannot be      *)
(* opened.                                                                 *)
PathsOf(d) == IF Usable(d) /\ ~Fails("opendir root", d) THEN FilesOf(d) ELSE {}

(* ensenar looks the device up again; it may have gone by now.             *)
VisitDevice(d) ==
  /\ Listing /\ walk = {} /\ d \in unvisited
  /\ unvisited' = unvisited \ {d}
  /\ walk' = PathsOf(d)
  /\ UNCHANGED <<world, pc, lists, notices, reports, history, owed>>

(* stat finds the path.                                                    *)
Stat(f) == f \in DOMAIN disk /\ DevOf[f] \in plugged /\ ~Fails("stat", f)

WithFile(f, a) == [g \in DOMAIN new \cup {f} |-> IF g = f THEN a ELSE new[g]]

VisitsTo(f, new1) ==
  /\ Listing /\ f \in walk /\ Ancestors(f) \cap walk = {}
  /\ new' = new1
  /\ walk' = walk \ (IF Stat(f) /\ ~Fails("opendir", f) THEN {f} ELSE Below[f])
  /\ UNCHANGED <<world, pc, devices, current, viejos, actuales, old, unvisited, notices,
                 reports, history, owed>>

(* Mutant: the result of stat is not looked at.                            *)
VisitFileMutant(f) ==
  VisitsTo(f, WithFile(f, IF f \in DOMAIN disk THEN disk[f] ELSE [size |-> -1]))

(* readdir and stat of one path, after the directories it is in; it may    *)
(* not be there any more.  Under what cannot be opened nothing is listed.  *)
VisitFile(f) == VisitsTo(f, IF Stat(f) THEN WithFile(f, disk[f]) ELSE new)

Listed == walk = {} /\ unvisited = {}

FirstListed ==
  /\ pc = "first" /\ Listed
  /\ pc' = "enumerate"
  /\ old' = new /\ new' = None
  /\ UNCHANGED <<world, devices, current, viejos, actuales, unvisited, walk, notices,
                 reports, history, owed>>

Compare ==
  /\ pc = "visit" /\ Listed
  /\ pc' = "swap"
  /\ reports' = Tamano(old, new) \cup AnadirEliminar(old, new) \cup Cambios(old, new)
  /\ owed' = {f \in owed \cap DOMAIN new : \/ Line("tamano", f, f) \notin reports'
                                           \/ disk[f].size - new[f].size >= Threshold}
  /\ UNCHANGED <<world, lists, unvisited, walk, notices, history>>

(* The variables of the round go out of scope.                             *)
RoundEnds ==
  /\ new' = None /\ current' = {} /\ actuales' = 0
  /\ notices' = {} /\ reports' = {}
  /\ UNCHANGED <<world, unvisited, walk, history, owed>>

(* Mutants: after the comparison one of the three lists stays as it was.   *)
SwapTo(old1, devices1, viejos1) ==
  /\ pc = "swap" /\ pc' = "sleep"
  /\ old' = old1 /\ devices' = devices1 /\ viejos' = viejos1
  /\ RoundEnds
SwapKeepsListing == SwapTo(old, current, actuales)
SwapKeepsDevices == SwapTo(new, devices, actuales)
SwapKeepsCount   == SwapTo(new, current, viejos)

Swap ==
  /\ pc = "swap" /\ pc' = "sleep"
  /\ old' = new /\ devices' = current /\ viejos' = actuales
  /\ RoundEnds

Sleep ==
  /\ pc = "sleep" /\ pc' = "enumerate"
  /\ UNCHANGED <<world, lists, unvisited, walk, notices, reports, history, owed>>

WatcherStep ==
  \/ Start \/ Enumerate \/ Alerta \/ FirstListed \/ Compare \/ Swap \/ Sleep
  \/ \E d \in Devices : VisitDevice(d)
  \/ \E f \in Files : VisitFile(f)

-----------------------------------------------------------------------------
(* The environment.                                                        *)

watcher == <<pc, lists, unvisited, walk, notices, reports>>

(* A permission is given or taken away, a failure begins or ends.          *)
ChangeAccess(call) ==
  /\ denied' = (denied \cup {call}) \ (denied \cap {call})
  /\ age' = [age EXCEPT !.access = 0]
  /\ UNCHANGED <<watcher, plugged, mtab, disk, removed, owed>>

Plug(d) ==
  /\ d \notin plugged /\ plugged' = plugged \cup {d}
  /\ age' = [age EXCEPT !.access = 0]
  /\ UNCHANGED <<watcher, mtab, disk, denied, removed, owed>>

(* A device pulled out may leave its line in mtab behind.                  *)
Unplug(d) ==
  /\ d \in plugged /\ plugged' = plugged \ {d}
  /\ mtab' \in {mtab, mtab \ {Devnode(d)}}
  /\ age' = [age EXCEPT !.access = 0]
  /\ owed' = owed \ FilesOf(d)
  /\ UNCHANGED <<watcher, disk, denied, removed>>

Mount(d) ==
  /\ d \in plugged /\ Devnode(d) \notin mtab
  /\ mtab' = mtab \cup {Devnode(d)}
  /\ age' = [age EXCEPT !.access = 0]
  /\ UNCHANGED <<watcher, plugged, disk, denied, removed, owed>>

(* A file system whose directories are open is busy.                       *)
Unmount(d) ==
  /\ Devnode(d) \in mtab /\ walk \cap FilesOf(d) = {}
  /\ mtab' = mtab \ {Devnode(d)}
  /\ age' = [age EXCEPT !.access = 0]
  /\ owed' = owed \ FilesOf(d)
  /\ UNCHANGED <<watcher, plugged, disk, denied, removed>>

(* Files change on mounted sticks, and directories come and go empty: one  *)
(* that is moved or deleted with its files is so path by path.             *)
Writable(f) == DevOf[f] \in plugged /\ Devnode(DevOf[f]) \in mtab

CreateFile(f) ==
  /\ f \notin DOMAIN disk /\ Writable(f) /\ Ancestors(f) \subseteq DOMAIN disk
  /\ \E a \in Attr : disk' = [g \in DOMAIN disk \cup {f} |-> IF g = f THEN a ELSE disk[g]]
  /\ age' = [access |-> age.access, created |-> 0, files |-> 0]
  /\ UNCHANGED <<watcher, plugged, mtab, denied, removed, owed>>

RemoveFile(f) ==
  /\ Below[f] \cap DOMAIN disk = {f} /\ Writable(f)
  /\ disk' = Restrict(disk, DOMAIN disk \ {f})
  /\ age' = [age EXCEPT !.files = 0]
  /\ removed' = [removed EXCEPT ![f] = 0]
  /\ owed' = owed \ {f}
  /\ UNCHANGED <<watcher, plugged, mtab, denied>>

(* A file under its new name, with its attributes.                         *)
RenameFile(f, g) ==
  /\ Below[f] \cap DOMAIN disk = {f} /\ g \notin DOMAIN disk
  /\ DevOf[f] = DevOf[g] /\ Writable(f) /\ Ancestors(g) \subseteq DOMAIN disk \ {f}
  /\ disk' = [h \in (DOMAIN disk \ {f}) \cup {g} |-> IF h = g THEN disk[f] ELSE disk[h]]
  /\ age' = [access |-> age.access, created |-> 0, files |-> 0]
  /\ removed' = [removed EXCEPT ![f] = 0]
  /\ owed' = owed \ {f}
  /\ UNCHANGED <<watcher, plugged, mtab, denied>>

(* What the watcher read last and the next comparison starts from.         *)
Seen == [f \in DOMAIN new \cup (IF pc = "swap" THEN {} ELSE DOMAIN old) |->
           IF f \in DOMAIN new THEN new[f] ELSE old[f]]

AlterFile(f) ==
  /\ f \in DOMAIN disk /\ Writable(f)
  /\ \E a \in Attr \ {disk[f]} :
       /\ disk' = [disk EXCEPT ![f] = a]
       /\ owed' = IF f \in DOMAIN Seen /\ a.size - Seen[f].size >= Threshold
                  THEN owed \cup {f} ELSE owed \ {f}
  /\ age' = [age EXCEPT !.files = 0]
  /\ UNCHANGED <<watcher, plugged, mtab, denied, removed>>

EnvStep ==
  \/ \E call \in Fallible : ChangeAccess(call)
  \/ \E d \in Devices : Plug(d) \/ Unplug(d) \/ Mount(d) \/ Unmount(d)
  \/ \E f \in Files : \/ CreateFile(f) \/ RemoveFile(f) \/ AlterFile(f)
                      \/ \E g \in Files : RenameFile(f, g)

Next == WatcherStep \/ EnvStep

Spec == Init /\ [][Next]_vars

(* The watcher keeps running, whatever the environment does.               *)
FairSpec == Spec /\ WF_vars(WatcherStep)

-----------------------------------------------------------------------------
(* Every variable has its type.                                            *)
TypeOK ==
  /\ plugged \subseteq Devices /\ mtab \subseteq {Devnode(d) : d \in Devices}
  /\ denied \subseteq Fallible /\ IsTree(DOMAIN disk)
  /\ disk \in Listings /\ old \in Listings /\ new \in Listings
  /\ pc \in {"start", "first", "enumerate", "alert", "visit", "swap", "sleep"}
  /\ devices \subseteq Devices /\ current \subseteq Devices /\ unvisited \subseteq Devices
  /\ viejos \in Nat /\ actuales \in Nat /\ walk \subseteq Files
  /\ age \in [access : 0 .. 2, created : 0 .. 2, files : 0 .. 2]
  /\ removed \in [Files -> 0 .. 2] /\ owed \subseteq DOMAIN disk

(* Nothing was plugged, unplugged, mounted or unmounted, and no permission *)
(* or failure came or went, in this round or in that of the previous       *)
(* listing.  What cannot be read all that time is as if it were not there. *)
AccessStable == age.access = 2

(* While the sticks and the access to them stay as they are, a file        *)
(* reported as deleted was deleted or renamed in this round or in the one  *)
(* before (Fronteras.c:522-543).                                           *)
DeletedSound ==
  pc = "swap" /\ AccessStable =>
    \A f \in Files : Line("eliminado", f, f) \in reports => removed[f] <= 1

(* While the sticks and the access to them stay as they are and no file is *)
(* created, the files of the previous listing that are gone when a scan    *)
(* begins are reported in it: a creation, or another number of devices,    *)
(* would hide them.                                                        *)
DeletionsReported ==
  pc = "swap" /\ AccessStable /\ age.created = 2 /\ age.files >= 1 =>
    \A f \in DOMAIN old \ DOMAIN disk : Line("eliminado", f, f) \in reports

(* While the sticks and the access to them stay as they are and no file    *)
(* goes, the files added before a scan where they can be read, such as     *)
(* those of Tests_USB/Test2_Replication.c, are each reported in it, as     *)
(* added or as a copy (Fronteras.c:506-519, 544-565).                      *)
AdditionsReported ==
  pc = "swap" /\ AccessStable /\ age.files >= 1 /\ (\A f \in Files : removed[f] = 2) =>
    \A f \in {g \in DOMAIN disk \ DOMAIN old : Visible(g)} :
      Line("copia", f, f) \in reports \/ Line("anadido", f, f) \in reports

(* Two coexisting files with the same name and size and other extensions.  *)
Twins == {p \in (DOMAIN disk) \X (DOMAIN disk) :
            p[1] # p[2] /\ Base[p[1]] = Base[p[2]] /\ disk[p[1]].size = disk[p[2]].size}

(* When neither the files nor the access to them have changed for two      *)
(* rounds nothing is reported, whatever cannot be read, except for the     *)
(* extension of files that look alike (Fronteras.c:445-452).               *)
QuietWhenUnchanged ==
  pc = "swap" /\ AccessStable /\ age.files = 2 =>
    /\ notices = {}
    /\ \A r \in reports : r.kind = "extension" /\ <<r.was, r.is>> \in Twins

(* While the sticks, the access to them and the set of files stay as they  *)
(* are, a change of permissions, time or owner made before a scan is       *)
(* reported in it (Fronteras.c:437-498).                                   *)
ChangesReported ==
  pc = "swap" /\ AccessStable /\ age.created = 2 /\ age.files >= 1
    /\ (\A f \in Files : removed[f] = 2) =>
    \A f \in Kept(old, disk) :
      /\ disk[f].perm # old[f].perm => Line("permisos", f, f) \in reports
      /\ disk[f].mtime # old[f].mtime => Line("timestamps", f, f) \in reports
      /\ disk[f].owner # old[f].owner => Line("ownership", f, f) \in reports

(* A file that has grown by the threshold or more between two readings is  *)
(* reported, also if it grew in the middle of a scan, unless it goes or    *)
(* shrinks first or it is missing from a scan; the growth of               *)
(* Tests_USB/Test1_Growth.c is of this kind (Fronteras.c:418-435).         *)
GrowthReported == \A f \in Files : (f \in owed) ~> (f \notin owed)

(* The first count is the number of mounted devices, as the comment        *)
(* "Solo si está montado" says (Fronteras.c:295).                          *)
FirstCountIsMounted ==
  [][pc = "start" /\ pc' = "first" =>
       viejos' = Cardinality({d \in plugged : Obtener(Devnode(d))})]_vars
=============================================================================
