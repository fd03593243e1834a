--------------------------------- MODULE VFS ---------------------------------
(***************************************************************************)
(* The virtual file system (Kernel/src/FS/VFS.cpp), with file systems that *)
(* are instances of DevFS (Kernel/src/FS/DevFS.cpp).                       *)
(*                                                                         *)
(* A path is a sequence of pieces: "/" and runs of other characters, so    *)
(* that one path can be a prefix of another as strings are without the     *)
(* model spelling out their characters.                                    *)
(***************************************************************************)
EXTENDS Vector, SequencesExt

CONSTANTS
  Paths,        \* the paths callers mount, unmount and open
  FileSystems,  \* the instances of DevFS
  Names,        \* the names devices are registered under: paths without "/"
  Devices,      \* the disks
  Handles,      \* where new puts the FileDescriptors
  NoPath, NoDevice, Closed

ASSUME DeviceAssumption == NoDevice \notin Devices   \* no device is at nullptr

ASSUME PathAssumption == \A path \in Paths : path \in Seq(Range(path))

VARIABLES
  mounts,   \* mountPoints, a Vector of [path, fs, isRoot]
  devices,  \* devices of each DevFS: [name, device] in the order of registration
  files,    \* the FileDescriptors: [path, mountPoint, fs, safe], or Closed
  result    \* the device that the last read came from

vars == <<mounts, devices, files, result>>

-----------------------------------------------------------------------------
(* Paths. *)

validatePath(path) ==
  /\ path # <<>> /\ path[1] = "/"
  /\ Len(path) > 1 => Last(path) # "/"
  /\ \A i \in 2 .. Len(path) : path[i] # "/" \/ path[i - 1] # "/"

WithoutSlash(path) == IF path # <<>> /\ Head(path) = "/" THEN Tail(path) ELSE path

Mounted == Range(Elements(mounts))

(* Whether strncmp finds the path of mount point i at the start of path:   *)
(* character by character, so that /dev matches /deva.                     *)
Matches(path, i) == IsPrefix(mounts.slots[i].path, path)

Length(i) == Len(mounts.slots[i].path)

(* Faulty: the last match is taken. *)
findMountPoint_Last(path, i) ==
  Matches(path, i) /\ \A k \in 1 .. mounts.size : Matches(path, k) => k <= i

(* Whether i is the best match after the whole vector: the first of the    *)
(* longest ones.                                                           *)
findMountPoint(path, i) ==
  /\ Matches(path, i)
  /\ \A k \in 1 .. mounts.size :
       Matches(path, k) => Length(k) < Length(i) \/ (Length(k) = Length(i) /\ i <= k)

-----------------------------------------------------------------------------
(* DevFS.  Pointers to its devices do not leave a call, so that a sequence *)
(* does for its Vector.                                                    *)

(* Faulty: names are not compared to their end. *)
findDevice_Any(fs, name) == IF devices[fs] = <<>> THEN NoDevice ELSE devices[fs][1].device

findDevice(fs, name) ==
  LET found == {i \in DOMAIN devices[fs] : devices[fs][i].name = name}
  IN  IF found = {} THEN NoDevice
      ELSE devices[fs][CHOOSE i \in found : \A k \in found : i <= k].device

registerDevice(fs, name, device) ==
  /\ findDevice(fs, name) = NoDevice
  /\ devices' = [devices EXCEPT ![fs] = Append(@, [name |-> name, device |-> device])]
  /\ UNCHANGED <<mounts, files, result>>

unregisterDevice(fs, name) ==
  /\ \E i \in DOMAIN devices[fs] :
       /\ devices[fs][i].name = name
       /\ \A k \in 1 .. i - 1 : devices[fs][k].name # name
       /\ devices' = [devices EXCEPT ![fs] = RemoveAt(@, i)]
  /\ UNCHANGED <<mounts, files, result>>

-----------------------------------------------------------------------------
Init ==
  /\ mounts = EmptyVector
  /\ devices = [fs \in FileSystems |-> <<>>]
  /\ files = [h \in Handles |-> Closed]
  /\ result = NoDevice

isPathMounted(path) == \E mountPoint \in Mounted : mountPoint.path = path

(* A file is safe while, since it was opened, the vector has not moved and *)
(* nothing has been unmounted at or before its mount point.                *)
Disturbed(handles) ==
  [h \in Handles |-> IF h \in handles THEN [files[h] EXCEPT !.safe = FALSE] ELSE files[h]]

OpenFiles == {h \in Handles : files[h] # Closed}

mount(path, fs) ==
  /\ validatePath(path)
  /\ ~ isPathMounted(path)
  /\ mounts' = push_back(mounts, [path |-> path, fs |-> fs, isRoot |-> mounts.size = 0])
  /\ files' = IF mounts.size = mounts.space THEN Disturbed(OpenFiles) ELSE files
  /\ UNCHANGED <<devices, result>>

(* Faulty: the root is not kept. *)
unmount_Root(path) ==
  /\ \E i \in 1 .. mounts.size :
       /\ mounts.slots[i].path = path
       /\ mounts' = erase(mounts, i)
       /\ files' = Disturbed({h \in OpenFiles : files[h].mountPoint.index >= i})
  /\ UNCHANGED <<devices, result>>

unmount(path) ==
  /\ \E i \in 1 .. mounts.size :
       /\ mounts.slots[i].path = path
       /\ ~ mounts.slots[i].isRoot
       /\ mounts' = erase(mounts, i)
       /\ files' = Disturbed({h \in OpenFiles : files[h].mountPoint.index >= i})
  /\ UNCHANGED <<devices, result>>

(* open hands the rest of the path to the file system it belongs to, which *)
(* looks for the device and makes a FileDescriptor.                        *)
open(path, h) ==
  /\ files[h] = Closed
  /\ \E i \in 1 .. mounts.size :
       LET mountPoint   == mounts.slots[i]
           relativePath == WithoutSlash(SubSeq(path, Len(mountPoint.path) + 1, Len(path)))
           name         == WithoutSlash(relativePath)
       IN  /\ findMountPoint(path, i)
           /\ findDevice(mountPoint.fs, name) # NoDevice
           /\ files' = [files EXCEPT ![h] = [path |-> name, mountPoint |-> Position(mounts, i),
                                             fs |-> mountPoint.fs, safe |-> TRUE]]
  /\ UNCHANGED <<mounts, devices, result>>

(* The file system that an open file's mountPoint leads to.  Of an array   *)
(* that has been deleted nothing is known.                                 *)
Reaches(f) ==
  IF IsValid(mounts, f.mountPoint) THEN {mounts.slots[f.mountPoint.index].fs} ELSE FileSystems

(* read and write go to that file system, which looks for a device of the  *)
(* name the file was opened by.  It can read block devices only, and every *)
(* device that is registered is one.                                       *)
read(h) ==
  /\ files[h] # Closed
  /\ \E fs \in Reaches(files[h]) :
       result' = findDevice(fs, files[h].path)
  /\ UNCHANGED <<mounts, devices, files>>

close(h) ==
  /\ files[h] # Closed
  /\ files' = [files EXCEPT ![h] = Closed]
  /\ UNCHANGED <<mounts, devices, result>>

Next ==
  \/ \E path \in Paths, fs \in FileSystems : mount(path, fs)
  \/ \E path \in Paths : unmount(path)
  \/ \E path \in Paths, h \in Handles : open(path, h)
  \/ \E h \in Handles : read(h) \/ close(h)
  \/ \E fs \in FileSystems, name \in Names :
       \/ unregisterDevice(fs, name)
       \/ \E device \in Devices : registerDevice(fs, name, device)

Spec == Init /\ [][Next]_vars

-----------------------------------------------------------------------------
(* Properties. *)

DeviceEntry == [name : Names, device : Devices]

MountPoint == [path : Paths, fs : FileSystems, isRoot : BOOLEAN]

File == [path : Names, mountPoint : [array : Nat, index : Nat \ {0}], fs : FileSystems, safe : BOOLEAN]

(* The types; a vector never has more elements than room, nor its array.   *)
TypeOK ==
  /\ mounts.slots \in Seq(MountPoint)
  /\ mounts.size <= Len(mounts.slots) /\ Len(mounts.slots) <= mounts.space
  /\ devices \in [FileSystems -> Seq(DeviceEntry)]
  /\ files \in [Handles -> File \cup {Closed}]
  /\ result \in Devices \cup {NoDevice}

(* The vector of mount points implements a table that keeps its root: no   *)
(* path is mounted twice, unmount removes what it was asked to, and growth *)
(* loses nothing.                                                          *)
Table == INSTANCE MountTable WITH
           table <- {[path |-> m.path, fs |-> m.fs] : m \in Mounted},
           root  <- IF mounts.size = 0 THEN NoPath ELSE mounts.slots[1].path

TableSpec == Table!Spec

(* What a file reads comes from the file system it was opened in, as long  *)
(* as it is safe.  (After a ninth mount, or an unmount at or before its    *)
(* own, its mountPoint may lead to another file system, or nowhere.)       *)
ReadsOwnDevice ==
  [][\A h \in OpenFiles :
       read(h) /\ files[h].safe => result' = findDevice(files[h].fs, files[h].path)]_vars

(* Whether path names the directory itself or something below it. *)
IsUnder(directory, path) ==
  /\ IsPrefix(directory, path)
  /\ directory = <<"/">> \/ directory = path \/ path[Len(directory) + 1] = "/"

(* A path is looked up in the deepest directory above it that is mounted,  *)
(* in whatever order the mount points came and went.  (Unless another      *)
(* mount point begins it only as a string, as /dev begins /deva: the code  *)
(* takes that one.)                                                        *)
LookupIsDeepest ==
  \A path \in Paths :
    LET above == {k \in 1 .. mounts.size : IsUnder(mounts.slots[k].path, path)}
    IN  (\A k \in (1 .. mounts.size) \ above : ~ Matches(path, k)) /\ above # {}
          => \E i \in above :
               /\ findMountPoint(path, i)
               /\ \A k \in above : IsUnder(mounts.slots[k].path, mounts.slots[i].path)
=============================================================================
