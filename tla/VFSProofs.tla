------------------------------ MODULE VFSProofs ------------------------------
(***************************************************************************)
(* What VFS promises for all paths, file systems and devices, and for a    *)
(* vector of any first size.                                               *)
(***************************************************************************)
EXTENDS VFS, VectorProofs, WellFoundedInduction

(* The names of a DevFS are different: a search finds one device or none.  *)
NamesUnique ==
  \A fs \in FileSystems : \A i, k \in DOMAIN devices[fs] :
    devices[fs][i].name = devices[fs][k].name => i = k

(* No path is mounted twice, and the root is the first mount point.        *)
PathsUnique ==
  \A i, k \in 1 .. mounts.size : Elements(mounts)[i].path = Elements(mounts)[k].path => i = k

RootFirst == \A i \in 1 .. mounts.size : Elements(mounts)[i].isRoot <=> i = 1

(* The mountPoint of a safe file points to an element of the vector, which *)
(* is of the file system the file was opened in.                           *)
SafePointers ==
  \A h \in Handles :
    files[h] # Closed /\ files[h].safe =>
      LET p == files[h].mountPoint
      IN  /\ p.array = mounts.array /\ p.index \in 1 .. mounts.size
          /\ Elements(mounts)[p.index].fs = files[h].fs

Types ==
  /\ mounts \in VectorOf(MountPoint)
  /\ devices \in [FileSystems -> Seq(DeviceEntry)]
  /\ files \in [Handles -> File \cup {Closed}]
  /\ result \in Devices \cup {NoDevice}

Inv == Types /\ NamesUnique /\ PathsUnique /\ RootFirst /\ SafePointers

-----------------------------------------------------------------------------
(* The devices. *)

LEMMA FindDeviceLemma ==
  ASSUME Types, NamesUnique, NEW fs \in FileSystems, NEW name
  PROVE  /\ findDevice(fs, name) \in Devices \cup {NoDevice}
         /\ findDevice(fs, name) # NoDevice => name \in Names
         /\ findDevice(fs, name) = NoDevice => \A i \in DOMAIN devices[fs] : devices[fs][i].name # name
<1> DEFINE found == {i \in DOMAIN devices[fs] : devices[fs][i].name = name}
<1>1. devices[fs] \in Seq(DeviceEntry)
  BY DEF Types
<1>2. CASE found = {}
  BY <1>2 DEF findDevice
<1>3. CASE found # {}
  <2>1. PICK i \in found : TRUE
    BY <1>3
  <2>2. found = {i} /\ i \in Nat /\ i <= i
    BY <1>1, <2>1 DEF NamesUnique
  <2>3. (CHOOSE j \in found : \A k \in found : j <= k) = i
    BY <2>2
  <2>4. findDevice(fs, name) = devices[fs][i].device
    BY <1>3, <2>3 DEF findDevice
  <2>5. devices[fs][i] \in DeviceEntry /\ devices[fs][i].name = name
    <3>1. i \in 1 .. Len(devices[fs]) /\ devices[fs][i].name = name
      BY <1>1, <2>1
    <3> HIDE DEF found
    <3> QED
      BY <1>1, <3>1
  <2> QED
    BY <2>4, <2>5, DeviceAssumption DEF DeviceEntry
<1> QED
  BY <1>2, <1>3

LEMMA AppendLemma ==
  ASSUME NEW S, NEW s \in Seq(S), NEW e \in S
  PROVE  /\ Append(s, e) \in Seq(S) /\ DOMAIN Append(s, e) = 1 .. Len(s) + 1
         /\ \A i \in 1 .. Len(s) + 1 : Append(s, e)[i] = IF i <= Len(s) THEN s[i] ELSE e
OBVIOUS

LEMMA RemoveAtLemma ==
  ASSUME NEW S, NEW s \in Seq(S), NEW i \in 1 .. Len(s)
  PROVE  /\ RemoveAt(s, i) \in Seq(S) /\ DOMAIN RemoveAt(s, i) = 1 .. Len(s) - 1
         /\ \A k \in 1 .. Len(s) - 1 : RemoveAt(s, i)[k] = IF k < i THEN s[k] ELSE s[k + 1]
<1> DEFINE before == SubSeq(s, 1, i - 1)
           behind == SubSeq(s, i + 1, Len(s))
<1>1. before \in Seq(S) /\ Len(before) = i - 1 /\ \A k \in 1 .. i - 1 : before[k] = s[k]
  OBVIOUS
<1>2. behind \in Seq(S) /\ Len(behind) = Len(s) - i /\ \A k \in 1 .. Len(s) - i : behind[k] = s[k + i]
  OBVIOUS
<1> HIDE DEF before, behind
<1>3. before \o behind \in Seq(S) /\ Len(before \o behind) = Len(s) - 1
  <2>1. before \o behind \in Seq(S) /\ Len(before \o behind) = Len(before) + Len(behind)
    BY <1>1, <1>2, ConcatLemma
  <2> QED
    BY <1>1, <1>2, <2>1
<1>4. ASSUME NEW k \in 1 .. Len(s) - 1
      PROVE  (before \o behind)[k] = IF k < i THEN s[k] ELSE s[k + 1]
  <2>1. CASE k < i
    BY <1>1, <1>2, <2>1
  <2>2. CASE ~ (k < i)
    <3>1. (before \o behind)[k] = behind[k - (i - 1)]
      BY <1>1, <1>2, <2>2
    <3>2. k - (i - 1) \in 1 .. Len(s) - i /\ k - (i - 1) + i = k + 1
      BY <2>2
    <3> QED
      BY <1>2, <2>2, <3>1, <3>2
  <2> QED
    BY <2>1, <2>2
<1>5. RemoveAt(s, i) = before \o behind
  BY DEF RemoveAt, before, behind
<1> QED
  BY <1>3, <1>4, <1>5

LEMMA RegisterInv ==
  ASSUME Inv, NEW fs \in FileSystems, NEW name \in Names, NEW device \in Devices,
         registerDevice(fs, name, device)
  PROVE  Inv'
<1> DEFINE entry == [name |-> name, device |-> device]
<1>1. /\ devices' = [devices EXCEPT ![fs] = Append(@, entry)]
      /\ UNCHANGED <<mounts, files, result>>
      /\ findDevice(fs, name) = NoDevice
  BY DEF registerDevice
<1>2. /\ devices[fs] \in Seq(DeviceEntry) /\ entry \in DeviceEntry
      /\ devices \in [FileSystems -> Seq(DeviceEntry)]
  BY DEF Inv, Types, DeviceEntry
<1>3. /\ Append(devices[fs], entry) \in Seq(DeviceEntry)
      /\ DOMAIN Append(devices[fs], entry) = 1 .. Len(devices[fs]) + 1
      /\ \A i \in 1 .. Len(devices[fs]) + 1 :
           Append(devices[fs], entry)[i] = IF i <= Len(devices[fs]) THEN devices[fs][i] ELSE entry
  BY <1>2, AppendLemma
<1>4. Types'
  BY <1>1, <1>2, <1>3 DEF Inv, Types
<1>5. NamesUnique'
  <2> SUFFICES ASSUME NEW f \in FileSystems, NEW i \in DOMAIN devices'[f], NEW k \in DOMAIN devices'[f],
                      devices'[f][i].name = devices'[f][k].name
               PROVE  i = k
    BY DEF NamesUnique
  <2>1. CASE f # fs
    BY <1>1, <1>2, <2>1 DEF Inv, NamesUnique
  <2>2. CASE f = fs
    <3>1. devices'[f] = Append(devices[fs], entry)
      BY <1>1, <1>2, <2>2
    <3>2. \A j \in DOMAIN devices[fs] : devices[fs][j].name # name
      BY <1>1, FindDeviceLemma DEF Inv
    <3>3. DOMAIN devices[fs] = 1 .. Len(devices[fs]) /\ Len(devices[fs]) \in Nat /\ entry.name = name
      BY <1>2
    <3>4. \A j, l \in DOMAIN devices[fs] : devices[fs][j].name = devices[fs][l].name => j = l
      BY DEF Inv, NamesUnique
    <3> HIDE DEF entry
    <3> QED
      BY <1>3, <3>1, <3>2, <3>3, <3>4
  <2> QED
    BY <2>1, <2>2
<1> QED
  BY <1>1, <1>4, <1>5 DEF Inv, PathsUnique, RootFirst, SafePointers

LEMMA UnregisterInv ==
  ASSUME Inv, NEW fs \in FileSystems, NEW name \in Names, unregisterDevice(fs, name)
  PROVE  Inv'
<1>1. PICK i \in DOMAIN devices[fs] : devices' = [devices EXCEPT ![fs] = RemoveAt(@, i)]
  BY DEF unregisterDevice
<1>2. UNCHANGED <<mounts, files, result>>
  BY DEF unregisterDevice
<1>3. /\ devices[fs] \in Seq(DeviceEntry)
      /\ devices \in [FileSystems -> Seq(DeviceEntry)]
      /\ DOMAIN devices[fs] = 1 .. Len(devices[fs]) /\ Len(devices[fs]) \in Nat
  BY DEF Inv, Types
<1>4. /\ RemoveAt(devices[fs], i) \in Seq(DeviceEntry)
      /\ DOMAIN RemoveAt(devices[fs], i) = 1 .. Len(devices[fs]) - 1
      /\ \A k \in 1 .. Len(devices[fs]) - 1 :
           RemoveAt(devices[fs], i)[k] = IF k < i THEN devices[fs][k] ELSE devices[fs][k + 1]
  BY <1>3, RemoveAtLemma
<1>5. Types'
  <2>1. devices' \in [FileSystems -> Seq(DeviceEntry)]
    BY <1>1, <1>3, <1>4
  <2> QED
    BY <1>2, <2>1 DEF Inv, Types
<1>6. NamesUnique'
  <2> SUFFICES ASSUME NEW f \in FileSystems, NEW j \in DOMAIN devices'[f], NEW k \in DOMAIN devices'[f],
                      devices'[f][j].name = devices'[f][k].name
               PROVE  j = k
    BY DEF NamesUnique
  <2>1. CASE f # fs
    BY <1>1, <1>3, <2>1 DEF Inv, NamesUnique
  <2>2. CASE f = fs
    <3>1. devices'[f] = RemoveAt(devices[fs], i)
      BY <1>1, <1>3, <2>2
    <3>2. \A l, m \in DOMAIN devices[fs] : devices[fs][l].name = devices[fs][m].name => l = m
      BY DEF Inv, NamesUnique
    <3> DEFINE old(n) == IF n < i THEN n ELSE n + 1
    <3>3. \A n \in 1 .. Len(devices[fs]) - 1 :
            old(n) \in DOMAIN devices[fs] /\ devices'[f][n] = devices[fs][old(n)]
      <4>1. \A n \in 1 .. Len(devices[fs]) - 1 : old(n) \in DOMAIN devices[fs]
        BY <1>3
      <4>2. \A n \in 1 .. Len(devices[fs]) - 1 : devices'[f][n] = devices[fs][old(n)]
        BY <1>4, <3>1
      <4> QED
        BY <4>1, <4>2
    <3>4. j \in 1 .. Len(devices[fs]) - 1 /\ k \in 1 .. Len(devices[fs]) - 1
      BY <1>4, <3>1
    <3> HIDE DEF old
    <3>5. old(j) = old(k)
      <4>1. old(j) \in DOMAIN devices[fs] /\ old(k) \in DOMAIN devices[fs]
        BY <3>3, <3>4
      <4>2. devices[fs][old(j)].name = devices[fs][old(k)].name
        BY <3>3, <3>4
      <4> QED
        BY <3>2, <4>1, <4>2
    <3>6. i \in Int /\ j \in Int /\ k \in Int
      BY <1>3, <3>4
    <3> QED
      BY <3>5, <3>6 DEF old
  <2> QED
    BY <2>1, <2>2
<1> QED
  BY <1>2, <1>5, <1>6 DEF Inv, PathsUnique, RootFirst, SafePointers

-----------------------------------------------------------------------------
(* The mount points. *)

(* What mount does to the elements of the vector. *)
LEMMA MountElements ==
  ASSUME Inv, NEW path \in Paths, NEW fs \in FileSystems, mount(path, fs)
  PROVE  LET m == [path |-> path, fs |-> fs, isRoot |-> mounts.size = 0]
         IN  /\ mounts' \in VectorOf(MountPoint)
             /\ mounts.size \in Nat /\ mounts'.size = mounts.size + 1
             /\ mounts.size # mounts.space => mounts'.array = mounts.array
             /\ \A k \in 1 .. mounts.size : Elements(mounts')[k] = Elements(mounts)[k]
             /\ Elements(mounts')[mounts.size + 1] = m
             /\ \A k \in 1 .. mounts.size : Elements(mounts)[k].path # path
<1> DEFINE m == [path |-> path, fs |-> fs, isRoot |-> mounts.size = 0]
<1>1. m \in MountPoint /\ mounts \in VectorOf(MountPoint)
  BY DEF MountPoint, Inv, Types
<1>2. mounts' = push_back(mounts, m)
  BY DEF mount
<1>3. Elements(mounts) \in Seq(MountPoint) /\ Len(Elements(mounts)) = mounts.size /\ mounts.size \in Nat
  BY <1>1, ElementsLemma DEF VectorOf
<1> HIDE DEF m
<1>4. /\ mounts' \in VectorOf(MountPoint)
      /\ Elements(mounts') = Append(Elements(mounts), m)
      /\ mounts'.size = mounts.size + 1
      /\ mounts.size # mounts.space => mounts'.array = mounts.array
  BY <1>1, <1>2, PushBackAppends
<1>5. /\ \A k \in 1 .. mounts.size : Append(Elements(mounts), m)[k] = Elements(mounts)[k]
      /\ Append(Elements(mounts), m)[mounts.size + 1] = m
  BY <1>1, <1>3
<1>6. \A k \in 1 .. mounts.size : Elements(mounts)[k].path # path
  <2>1. \A k \in 1 .. mounts.size : Elements(mounts)[k] \in Mounted
    BY <1>3 DEF Mounted, Range
  <2> QED
    BY <2>1 DEF mount, isPathMounted
<1> QED
  BY <1>3, <1>4, <1>5, <1>6 DEF m

LEMMA MountInv ==
  ASSUME Inv, NEW path \in Paths, NEW fs \in FileSystems, mount(path, fs)
  PROVE  Inv'
<1> DEFINE m == [path |-> path, fs |-> fs, isRoot |-> mounts.size = 0]
<1>1. /\ mounts' \in VectorOf(MountPoint)
      /\ mounts.size \in Nat /\ mounts'.size = mounts.size + 1
      /\ mounts.size # mounts.space => mounts'.array = mounts.array
      /\ \A k \in 1 .. mounts.size : Elements(mounts')[k] = Elements(mounts)[k]
      /\ Elements(mounts')[mounts.size + 1] = m
      /\ \A k \in 1 .. mounts.size : Elements(mounts)[k].path # path
  BY MountElements
<1>2. m.path = path /\ (m.isRoot <=> mounts.size = 0)
  OBVIOUS
<1> HIDE DEF m
<1>3. /\ files' = IF mounts.size = mounts.space THEN Disturbed(OpenFiles) ELSE files
      /\ UNCHANGED <<devices, result>>
  BY DEF mount
<1>4. files' \in [Handles -> File \cup {Closed}]
  <2>1. \A h \in OpenFiles : h \in Handles /\ files[h] \in File
    BY DEF Inv, Types, OpenFiles
  <2>2. \A h \in OpenFiles : [files[h] EXCEPT !.safe = FALSE] \in File
    BY <2>1 DEF File
  <2>3. Disturbed(OpenFiles) \in [Handles -> File \cup {Closed}]
    BY <2>2 DEF Disturbed, Inv, Types
  <2> QED
    BY <1>3, <2>3 DEF Inv, Types
<1>5. Types'
  BY <1>1, <1>3, <1>4 DEF Inv, Types
<1>6. NamesUnique'
  BY <1>3 DEF Inv, NamesUnique
<1>7. PathsUnique'
  BY <1>1, <1>2 DEF Inv, PathsUnique
<1>8. RootFirst'
  <2> SUFFICES ASSUME NEW i \in 1 .. mounts.size + 1
               PROVE  Elements(mounts')[i].isRoot <=> i = 1
    BY <1>1 DEF RootFirst
  <2>1. CASE i \in 1 .. mounts.size
    BY <1>1, <2>1 DEF Inv, RootFirst
  <2>2. CASE i = mounts.size + 1
    BY <1>1, <1>2, <2>2
  <2> QED
    BY <1>1, <2>1, <2>2
<1>9. SafePointers'
  <2> SUFFICES ASSUME NEW h \in Handles, files'[h] # Closed, files'[h].safe
               PROVE  /\ files'[h].mountPoint.array = mounts'.array
                      /\ files'[h].mountPoint.index \in 1 .. mounts'.size
                      /\ Elements(mounts')[files'[h].mountPoint.index].fs = files'[h].fs
    BY DEF SafePointers
  <2>1. CASE mounts.size = mounts.space
    <3>1. files'[h] = IF h \in OpenFiles THEN [files[h] EXCEPT !.safe = FALSE] ELSE files[h]
      BY <1>3, <2>1 DEF Disturbed
    <3>2. h \in OpenFiles
      BY <3>1 DEF OpenFiles
    <3>3. files[h] \in File
      BY <3>2 DEF Inv, Types, OpenFiles
    <3>4. files'[h].safe = FALSE
      BY <3>1, <3>2, <3>3 DEF File
    <3> QED
      BY <3>4
  <2>2. CASE mounts.size # mounts.space
    <3>1. files'[h] = files[h]
      BY <1>3, <2>2
    <3>2. /\ files[h].mountPoint.array = mounts.array
          /\ files[h].mountPoint.index \in 1 .. mounts.size
          /\ Elements(mounts)[files[h].mountPoint.index].fs = files[h].fs
      BY <3>1 DEF Inv, SafePointers
    <3> QED
      BY <1>1, <2>2, <3>1, <3>2
  <2> QED
    BY <2>1, <2>2
<1> QED
  BY <1>5, <1>6, <1>7, <1>8, <1>9 DEF Inv

(* What unmount does to the elements of the vector. *)
LEMMA UnmountElements ==
  ASSUME Inv, NEW path \in Paths, unmount(path)
  PROVE  \E i \in 2 .. mounts.size :
           /\ Elements(mounts)[i].path = path
           /\ mounts' \in VectorOf(MountPoint)
           /\ mounts.size \in Nat /\ mounts'.size = mounts.size - 1
           /\ mounts'.array = mounts.array
           /\ \A k \in 1 .. mounts.size - 1 :
                Elements(mounts')[k] = IF k < i THEN Elements(mounts)[k] ELSE Elements(mounts)[k + 1]
           /\ files' = Disturbed({h \in OpenFiles : files[h].mountPoint.index >= i})
<1>1. PICK i \in 1 .. mounts.size :
        /\ mounts.slots[i].path = path
        /\ ~ mounts.slots[i].isRoot
        /\ mounts' = erase(mounts, i)
        /\ files' = Disturbed({h \in OpenFiles : files[h].mountPoint.index >= i})
  BY DEF unmount
<1>2. mounts \in VectorOf(MountPoint)
  BY DEF Inv, Types
<1>3. Elements(mounts)[i] = mounts.slots[i] /\ mounts.size \in Nat
  BY <1>2, ElementsLemma DEF VectorOf
<1>4. i # 1
  BY <1>1, <1>3 DEF Inv, RootFirst
<1>5. /\ mounts' \in VectorOf(MountPoint)
      /\ mounts'.array = mounts.array /\ mounts'.size = mounts.size - 1
      /\ \A k \in 1 .. mounts.size - 1 :
           Elements(mounts')[k] = IF k < i THEN Elements(mounts)[k] ELSE Elements(mounts)[k + 1]
  BY <1>1, <1>2, EraseRemoves
<1>6. i \in 2 .. mounts.size
  BY <1>3, <1>4
<1> QED
  BY <1>1, <1>3, <1>5, <1>6

LEMMA UnmountInv ==
  ASSUME Inv, NEW path \in Paths, unmount(path)
  PROVE  Inv'
<1>1. PICK i \in 2 .. mounts.size :
        /\ Elements(mounts)[i].path = path
        /\ mounts' \in VectorOf(MountPoint)
        /\ mounts.size \in Nat /\ mounts'.size = mounts.size - 1
        /\ mounts'.array = mounts.array
        /\ \A k \in 1 .. mounts.size - 1 :
             Elements(mounts')[k] = IF k < i THEN Elements(mounts)[k] ELSE Elements(mounts)[k + 1]
        /\ files' = Disturbed({h \in OpenFiles : files[h].mountPoint.index >= i})
  BY UnmountElements
<1>2. UNCHANGED <<devices, result>>
  BY DEF unmount
<1> DEFINE moved == {h \in OpenFiles : files[h].mountPoint.index >= i}
<1>3. files' \in [Handles -> File \cup {Closed}]
  <2>1. \A h \in moved : h \in Handles /\ files[h] \in File
    BY DEF Inv, Types, OpenFiles
  <2>2. \A h \in moved : [files[h] EXCEPT !.safe = FALSE] \in File
    BY <2>1 DEF File
  <2> HIDE DEF moved
  <2>3. Disturbed(moved) \in [Handles -> File \cup {Closed}]
    BY <2>2 DEF Disturbed, Inv, Types
  <2> QED
    BY <1>1, <2>3 DEF moved
<1>4. Types'
  BY <1>1, <1>2, <1>3 DEF Inv, Types
<1>5. NamesUnique'
  BY <1>2 DEF Inv, NamesUnique
<1>6. PathsUnique'
  BY <1>1 DEF Inv, PathsUnique
<1>7. RootFirst'
  BY <1>1 DEF Inv, RootFirst
<1>8. SafePointers'
  <2> SUFFICES ASSUME NEW h \in Handles, files'[h] # Closed, files'[h].safe
               PROVE  /\ files'[h].mountPoint.array = mounts'.array
                      /\ files'[h].mountPoint.index \in 1 .. mounts'.size
                      /\ Elements(mounts')[files'[h].mountPoint.index].fs = files'[h].fs
    BY DEF SafePointers
  <2>1. files'[h] = IF h \in moved THEN [files[h] EXCEPT !.safe = FALSE] ELSE files[h]
    BY <1>1 DEF Disturbed
  <2>2. h \notin moved
    <3> SUFFICES ASSUME h \in moved PROVE files'[h].safe = FALSE
      OBVIOUS
    <3>1. files[h] \in File
      BY DEF Inv, Types, OpenFiles
    <3> QED
      BY <2>1, <3>1 DEF File
  <2>3. files'[h] = files[h]
    BY <2>1, <2>2
  <2>4. /\ files[h].mountPoint.array = mounts.array
        /\ files[h].mountPoint.index \in 1 .. mounts.size
        /\ Elements(mounts)[files[h].mountPoint.index].fs = files[h].fs
    BY <2>3 DEF Inv, SafePointers
  <2>5. ~ (files[h].mountPoint.index >= i)
    BY <2>2, <2>3 DEF OpenFiles
  <2>6. files[h].mountPoint.index \in 1 .. mounts.size - 1 /\ files[h].mountPoint.index < i
    BY <1>1, <2>4, <2>5
  <2> QED
    BY <1>1, <2>3, <2>4, <2>6
<1> QED
  BY <1>4, <1>5, <1>6, <1>7, <1>8 DEF Inv

-----------------------------------------------------------------------------
(* The files. *)

LEMMA OpenInv ==
  ASSUME Inv, NEW path \in Paths, NEW h \in Handles, open(path, h)
  PROVE  Inv'
<1>0. PICK i \in 1 .. mounts.size : \E name :
        /\ findDevice(mounts.slots[i].fs, name) # NoDevice
        /\ files' = [files EXCEPT ![h] = [path |-> name, mountPoint |-> Position(mounts, i),
                                          fs |-> mounts.slots[i].fs, safe |-> TRUE]]
  BY DEF open
<1>1. PICK name :
        /\ findDevice(mounts.slots[i].fs, name) # NoDevice
        /\ files' = [files EXCEPT ![h] = [path |-> name, mountPoint |-> Position(mounts, i),
                                          fs |-> mounts.slots[i].fs, safe |-> TRUE]]
  BY <1>0
<1>2. UNCHANGED <<mounts, devices, result>>
  BY DEF open
<1> DEFINE file == [path |-> name, mountPoint |-> Position(mounts, i), fs |-> mounts.slots[i].fs, safe |-> TRUE]
<1>3. /\ mounts \in VectorOf(MountPoint) /\ mounts.size \in Nat /\ mounts.array \in Nat
      /\ Elements(mounts)[i] = mounts.slots[i] /\ mounts.slots[i] \in MountPoint
  <2>1. mounts \in VectorOf(MountPoint)
    BY DEF Inv, Types
  <2> QED
    BY <2>1, ElementsLemma DEF VectorOf
<1>4. mounts.slots[i].fs \in FileSystems
  BY <1>3 DEF MountPoint
<1>5. name \in Names
  BY <1>1, <1>4, FindDeviceLemma DEF Inv
<1>6. file \in File
  BY <1>3, <1>4, <1>5 DEF File, Position
<1>7. file.mountPoint = Position(mounts, i) /\ file.fs = mounts.slots[i].fs
  OBVIOUS
<1> HIDE DEF file
<1>8. files \in [Handles -> File \cup {Closed}] /\ files' = [files EXCEPT ![h] = file]
  BY <1>1 DEF Inv, Types, file
<1>9. Types'
  BY <1>2, <1>6, <1>8 DEF Inv, Types
<1>10. SafePointers'
  <2> SUFFICES ASSUME NEW g \in Handles, files'[g] # Closed, files'[g].safe
               PROVE  /\ files'[g].mountPoint.array = mounts.array
                      /\ files'[g].mountPoint.index \in 1 .. mounts.size
                      /\ Elements(mounts)[files'[g].mountPoint.index].fs = files'[g].fs
    BY <1>2 DEF SafePointers
  <2>1. CASE g = h
    BY <1>3, <1>7, <1>8, <2>1 DEF Position
  <2>2. CASE g # h
    BY <1>8, <2>2 DEF Inv, SafePointers
  <2> QED
    BY <2>1, <2>2
<1> QED
  BY <1>2, <1>9, <1>10 DEF Inv, NamesUnique, PathsUnique, RootFirst

LEMMA ReachesLemma ==
  ASSUME Inv, NEW h \in Handles, files[h] # Closed
  PROVE  /\ Reaches(files[h]) \subseteq FileSystems
         /\ files[h].safe => Reaches(files[h]) = {files[h].fs}
<1>1. mounts \in VectorOf(MountPoint)
  BY DEF Inv, Types
<1>2. \A i \in 1 .. Len(mounts.slots) : mounts.slots[i].fs \in FileSystems
  <2>1. mounts.slots \in Seq(MountPoint)
    BY <1>1 DEF VectorOf
  <2>2. \A i \in 1 .. Len(mounts.slots) : mounts.slots[i] \in MountPoint
    BY <2>1
  <2> QED
    BY <2>2 DEF MountPoint
<1>3. Reaches(files[h]) \subseteq FileSystems
  BY <1>2 DEF Reaches, IsValid
<1>4. ASSUME files[h].safe
      PROVE  Reaches(files[h]) = {files[h].fs}
  <2>1. /\ files[h].mountPoint.array = mounts.array
        /\ files[h].mountPoint.index \in 1 .. mounts.size
        /\ Elements(mounts)[files[h].mountPoint.index].fs = files[h].fs
    BY <1>4 DEF Inv, SafePointers
  <2>2. files[h].mountPoint.index \in 1 .. Len(mounts.slots)
    BY <1>1, <2>1 DEF VectorOf
  <2>3. mounts.slots[files[h].mountPoint.index].fs = files[h].fs
    BY <1>1, <2>1, ElementsLemma
  <2> QED
    BY <2>1, <2>2, <2>3 DEF Reaches, IsValid
<1> QED
  BY <1>3, <1>4

LEMMA ReadInv ==
  ASSUME Inv, NEW h \in Handles, read(h)
  PROVE  Inv'
<1>1. PICK fs \in Reaches(files[h]) : result' = findDevice(fs, files[h].path)
  BY DEF read
<1>2. fs \in FileSystems
  BY <1>1, ReachesLemma DEF read
<1>3. result' \in Devices \cup {NoDevice}
  BY <1>1, <1>2, FindDeviceLemma DEF Inv
<1> QED
  BY <1>3 DEF read, Inv, Types, NamesUnique, PathsUnique, RootFirst, SafePointers

LEMMA CloseInv ==
  ASSUME Inv, NEW h \in Handles, close(h)
  PROVE  Inv'
BY DEF close, Inv, Types, NamesUnique, PathsUnique, RootFirst, SafePointers

-----------------------------------------------------------------------------
LEMMA InitInv == Init => Inv
<1> SUFFICES ASSUME Init PROVE Inv
  OBVIOUS
<1>1. mounts \in VectorOf(MountPoint) /\ mounts.size = 0
  BY EmptyLemma DEF Init, EmptyVector
<1>2. Types
  BY <1>1 DEF Init, Types
<1>3. NamesUnique /\ SafePointers
  BY DEF Init, NamesUnique, SafePointers
<1>4. PathsUnique /\ RootFirst
  BY <1>1 DEF PathsUnique, RootFirst
<1> QED
  BY <1>2, <1>3, <1>4 DEF Inv

LEMMA NextInv == Inv /\ [Next]_vars => Inv'
<1> SUFFICES ASSUME Inv, [Next]_vars PROVE Inv'
  OBVIOUS
<1>1. CASE \E path \in Paths, fs \in FileSystems : mount(path, fs)
  BY <1>1, MountInv
<1>2. CASE \E path \in Paths : unmount(path)
  BY <1>2, UnmountInv
<1>3. CASE \E path \in Paths, h \in Handles : open(path, h)
  BY <1>3, OpenInv
<1>4. CASE \E h \in Handles : read(h) \/ close(h)
  BY <1>4, ReadInv, CloseInv
<1>5. CASE \E fs \in FileSystems, name \in Names :
             \/ unregisterDevice(fs, name)
             \/ \E device \in Devices : registerDevice(fs, name, device)
  BY <1>5, UnregisterInv, RegisterInv
<1>6. CASE UNCHANGED vars
  BY <1>6 DEF vars, Inv, Types, NamesUnique, PathsUnique, RootFirst, SafePointers
<1> QED
  BY <1>1, <1>2, <1>3, <1>4, <1>5, <1>6 DEF Next

LEMMA Invariance == Spec => []Inv
BY InitInv, NextInv, PTL DEF Spec

(* The variables keep their types; the vector of mount points never has    *)
(* more elements than room, however it grows.                              *)
THEOREM VFSTypeCorrect == Spec => []TypeOK
<1>1. Inv => TypeOK
  BY DEF Inv, Types, TypeOK, VectorOf
<1> QED
  BY <1>1, Invariance, PTL

(* A file nothing moved under reads the device of its own file system.     *)
THEOREM SafeFilesReadTheirDevice == Spec => ReadsOwnDevice
<1>1. ASSUME Inv, [Next]_vars
      PROVE  [\A h \in OpenFiles :
                read(h) /\ files[h].safe => result' = findDevice(files[h].fs, files[h].path)]_vars
  <2>1. ASSUME NEW h \in OpenFiles, read(h), files[h].safe
        PROVE  result' = findDevice(files[h].fs, files[h].path)
    <3>1. h \in Handles /\ files[h] # Closed
      BY DEF OpenFiles
    <3>2. Reaches(files[h]) = {files[h].fs}
      BY <1>1, <2>1, <3>1, ReachesLemma
    <3> QED
      BY <2>1, <3>2 DEF read
  <2> QED
    BY <2>1
<1> QED
  BY <1>1, Invariance, PTL DEF Spec, ReadsOwnDevice

-----------------------------------------------------------------------------
(* Looking up a path. *)

LEMMA LeastNumber ==
  ASSUME NEW S \in SUBSET Nat, S # {}
  PROVE  \E n \in S : \A m \in S : n <= m
<1>1. PICK n \in S : \A m \in S : ~ (<<m, n>> \in OpToRel(<, Nat))
  BY NatLessThanWellFounded, WFMin
<1>2. ASSUME NEW m \in S
      PROVE  n <= m
  <2>1. n \in Nat /\ m \in Nat /\ ~ (<<m, n>> \in OpToRel(<, Nat))
    BY <1>1
  <2>2. ~ (m < n)
    BY <2>1 DEF OpToRel
  <2>3. n \in Nat /\ m \in Nat
    OBVIOUS
  <2> QED
    BY <2>2, <2>3
<1> QED
  BY <1>2

LEMMA PrefixLemma ==
  ASSUME NEW S, NEW s \in Seq(S), NEW T, NEW t \in Seq(T)
  PROVE  IsPrefix(s, t) <=> Len(s) <= Len(t) /\ \A i \in 1 .. Len(s) : s[i] = t[i]
<1>1. ASSUME Len(s) <= Len(t)
      PROVE  SubSeq(s, 1, Len(s)) = SubSeq(t, 1, Len(s)) <=> \A i \in 1 .. Len(s) : s[i] = t[i]
  <2>1. SubSeq(s, 1, Len(s)) = [i \in 1 .. Len(s) |-> s[i]]
    OBVIOUS
  <2>2. SubSeq(t, 1, Len(s)) = [i \in 1 .. Len(s) |-> t[i]]
    BY <1>1
  <2> QED
    BY <2>1, <2>2
<1> QED
  BY <1>1 DEF IsPrefix

(* Of two paths that begin a third, the shorter one begins the longer. *)
LEMMA PrefixesNest ==
  ASSUME NEW R, NEW r \in Seq(R), NEW S, NEW s \in Seq(S), NEW T, NEW t \in Seq(T),
         IsPrefix(r, t), IsPrefix(s, t), Len(r) <= Len(s)
  PROVE  IsPrefix(r, s) /\ (Len(r) = Len(s) => r = s)
<1>1. /\ \A i \in 1 .. Len(r) : r[i] = t[i]
      /\ \A i \in 1 .. Len(s) : s[i] = t[i]
  BY PrefixLemma
<1>2. \A i \in 1 .. Len(r) : i \in 1 .. Len(s) /\ r[i] = s[i]
  BY <1>1
<1>3. IsPrefix(r, s)
  BY <1>2, PrefixLemma
<1>4. ASSUME Len(r) = Len(s)
      PROVE  r = s
  BY <1>2, <1>4
<1> QED
  BY <1>3, <1>4

(* The longest mount point that begins path, if any does, is what the loop *)
(* of findMountPoint ends with.                                            *)
LEMMA BestMatch ==
  ASSUME Types, NEW path \in Paths, NEW k \in 1 .. mounts.size, Matches(path, k)
  PROVE  \E i \in 1 .. mounts.size : findMountPoint(path, i)
<1> DEFINE Matching == {i \in 1 .. mounts.size : Matches(path, i)}
           Shortfall == {Len(path) - Length(i) : i \in Matching}
<1>1. ASSUME NEW i \in 1 .. mounts.size
      PROVE  /\ mounts.slots[i].path \in Paths
             /\ Length(i) \in Nat
             /\ Matches(path, i) => Length(i) <= Len(path)
  <2>1. mounts.slots \in Seq(MountPoint) /\ i \in 1 .. Len(mounts.slots)
    BY DEF Types, VectorOf
  <2>2. mounts.slots[i] \in MountPoint
    BY <2>1
  <2>3. mounts.slots[i].path \in Paths
    BY <2>2 DEF MountPoint
  <2> QED
    BY <2>3, PathAssumption DEF Length, Matches, IsPrefix
<1>2. Len(path) \in Nat
  BY PathAssumption
<1>3. Matching \in SUBSET Nat /\ k \in Matching
  BY DEF Types, VectorOf
<1>4. PICK i \in Matching : \A j \in Matching : Length(j) <= Length(i)
  <2>1. Shortfall \in SUBSET Nat
    BY <1>1, <1>2
  <2>2. Shortfall # {}
    BY <1>3
  <2> HIDE DEF Shortfall
  <2>3. PICK n \in Shortfall : \A m \in Shortfall : n <= m
    BY <2>1, <2>2, LeastNumber
  <2>4. PICK i \in Matching : n = Len(path) - Length(i)
    BY <2>3 DEF Shortfall
  <2>5. ASSUME NEW j \in Matching
        PROVE  Length(j) <= Length(i)
    <3>1. Len(path) - Length(i) <= Len(path) - Length(j)
      BY <2>3, <2>4 DEF Shortfall
    <3> QED
      BY <1>1, <1>2, <3>1
  <2> QED
    BY <2>5
<1> DEFINE Longest == {j \in Matching : Length(j) = Length(i)}
<1>5. PICK first \in Longest : \A j \in Longest : first <= j
  <2>1. Longest \in SUBSET Nat /\ i \in Longest
    BY <1>3
  <2> HIDE DEF Longest
  <2> QED
    BY <2>1, LeastNumber
<1>6. ASSUME NEW j \in 1 .. mounts.size, Matches(path, j)
      PROVE  Length(j) < Length(first) \/ (Length(j) = Length(first) /\ first <= j)
  <2>1. j \in Matching /\ Length(j) <= Length(i) /\ Length(first) = Length(i)
    BY <1>4, <1>5, <1>6
  <2>2. CASE Length(j) = Length(i)
    BY <1>5, <2>1, <2>2
  <2>3. CASE Length(j) # Length(i)
    BY <1>1, <2>1, <2>3
  <2> QED
    BY <2>2, <2>3
<1>7. first \in 1 .. mounts.size /\ Matches(path, first)
  BY <1>5
<1> HIDE DEF Longest, Matching, Shortfall
<1> QED
  BY <1>6, <1>7 DEF findMountPoint

(* A lookup finds the deepest mounted directory above a path, however the  *)
(* vector got to be in its present order.                                  *)
THEOREM LookupsAreDeepest == Spec => []LookupIsDeepest
<1>1. ASSUME Types, NEW path \in Paths
      PROVE  LET above == {k \in 1 .. mounts.size : IsUnder(mounts.slots[k].path, path)}
             IN  (\A k \in (1 .. mounts.size) \ above : ~ Matches(path, k)) /\ above # {}
                   => \E i \in above :
                        /\ findMountPoint(path, i)
                        /\ \A k \in above : IsUnder(mounts.slots[k].path, mounts.slots[i].path)
  <2> DEFINE above == {k \in 1 .. mounts.size : IsUnder(mounts.slots[k].path, path)}
  <2> SUFFICES ASSUME \A k \in (1 .. mounts.size) \ above : ~ Matches(path, k), NEW k \in above
               PROVE  \E i \in above :
                        /\ findMountPoint(path, i)
                        /\ \A j \in above : IsUnder(mounts.slots[j].path, mounts.slots[i].path)
    OBVIOUS
  <2>1. Matches(path, k)
    BY DEF Matches, IsUnder
  <2>2. PICK i \in 1 .. mounts.size : findMountPoint(path, i)
    BY <1>1, <2>1, BestMatch
  <2>3. i \in above
    BY <2>2 DEF findMountPoint
  <2>4. ASSUME NEW j \in 1 .. mounts.size
        PROVE  mounts.slots[j].path \in Seq(Range(mounts.slots[j].path))
    <3>1. mounts.slots \in Seq(MountPoint) /\ j \in 1 .. Len(mounts.slots)
      BY <1>1 DEF Types, VectorOf
    <3>2. mounts.slots[j] \in MountPoint
      BY <3>1
    <3> QED
      BY <3>2, PathAssumption DEF MountPoint
  <2>5. ASSUME NEW j \in above
        PROVE  IsUnder(mounts.slots[j].path, mounts.slots[i].path)
    <3> DEFINE directory == mounts.slots[j].path
               target == mounts.slots[i].path
    <3>1. IsPrefix(directory, path) /\ IsPrefix(target, path) /\ Len(directory) <= Len(target)
      <4>1. Matches(path, j) /\ j \in 1 .. mounts.size
        BY DEF Matches, IsUnder
      <4>2. Length(j) < Length(i) \/ Length(j) = Length(i)
        BY <2>2, <4>1 DEF findMountPoint
      <4>3. Length(j) \in Nat /\ Length(i) \in Nat
        <5>1. /\ mounts.slots[j].path \in Seq(Range(mounts.slots[j].path))
              /\ mounts.slots[i].path \in Seq(Range(mounts.slots[i].path))
          BY <2>4, <4>1
        <5> QED
          BY <5>1 DEF Length
      <4>4. Length(j) <= Length(i)
        BY <4>2, <4>3
      <4>5. Matches(path, i)
        BY <2>2 DEF findMountPoint
      <4> QED
        BY <4>1, <4>4, <4>5 DEF Matches, Length
    <3>2. directory \in Seq(Range(directory)) /\ target \in Seq(Range(target)) /\ path \in Seq(Range(path))
      BY <2>4, PathAssumption
    <3>3. directory = <<"/">> \/ directory = path \/ path[Len(directory) + 1] = "/"
      BY DEF IsUnder
    <3> HIDE DEF directory, target
    <3>4. IsPrefix(directory, target) /\ (Len(directory) = Len(target) => directory = target)
      BY <3>1, <3>2, PrefixesNest
    <3>5. CASE Len(directory) = Len(target)
      BY <3>4, <3>5 DEF IsUnder, directory, target
    <3>6. CASE Len(directory) # Len(target)
      <4>1. Len(directory) \in Nat /\ Len(target) \in Nat /\ Len(directory) < Len(target) /\ Len(target) <= Len(path)
        BY <3>1, <3>2, <3>6, PrefixLemma
      <4>2. directory # path
        BY <3>2, <4>1
      <4>3. target[Len(directory) + 1] = path[Len(directory) + 1]
        <5>1. Len(directory) + 1 \in 1 .. Len(target)
          BY <4>1
        <5> QED
          BY <3>1, <3>2, <5>1, PrefixLemma
      <4> QED
        BY <3>3, <3>4, <4>2, <4>3 DEF IsUnder, directory, target
    <3> QED
      BY <3>5, <3>6
  <2> QED
    BY <2>2, <2>3, <2>5
<1>2. Inv => LookupIsDeepest
  BY <1>1 DEF Inv, LookupIsDeepest
<1> QED
  BY <1>2, Invariance, PTL

-----------------------------------------------------------------------------
(* The table. *)

Entry(m) == [path |-> m.path, fs |-> m.fs]

Entries(v) == {Entry(m) : m \in Range(Elements(v))}

Root(v) == IF v.size = 0 THEN NoPath ELSE v.slots[1].path

LEMMA EntriesLemma ==
  ASSUME NEW v \in VectorOf(MountPoint)
  PROVE  /\ Entries(v) = {Entry(Elements(v)[k]) : k \in 1 .. v.size}
         /\ v.size > 0 => Root(v) = Elements(v)[1].path
         /\ v.size \in Nat
<1>1. Elements(v) \in Seq(MountPoint) /\ Len(Elements(v)) = v.size /\ v.size \in Nat
  BY ElementsLemma DEF VectorOf
<1>2. Range(Elements(v)) = {Elements(v)[k] : k \in 1 .. v.size}
  BY <1>1 DEF Range
<1>3. Entries(v) = {Entry(Elements(v)[k]) : k \in 1 .. v.size}
  BY <1>2 DEF Entries
<1>4. v.size > 0 => Elements(v)[1] = v.slots[1]
  BY <1>1, ElementsLemma
<1> QED
  BY <1>1, <1>3, <1>4 DEF Root

LEMMA MountEntry ==
  ASSUME Inv, NEW path \in Paths, NEW fs \in FileSystems, mount(path, fs)
  PROVE  Table!Mount
<1> DEFINE m == [path |-> path, fs |-> fs, isRoot |-> mounts.size = 0]
<1>1. /\ mounts' \in VectorOf(MountPoint)
      /\ mounts.size \in Nat /\ mounts'.size = mounts.size + 1
      /\ \A k \in 1 .. mounts.size : Elements(mounts')[k] = Elements(mounts)[k]
      /\ Elements(mounts')[mounts.size + 1] = m
      /\ \A k \in 1 .. mounts.size : Elements(mounts)[k].path # path
  BY MountElements
<1>2. Entry(m) = [path |-> path, fs |-> fs]
  BY DEF Entry
<1> HIDE DEF m
<1>3. /\ Entries(mounts) = {Entry(Elements(mounts)[k]) : k \in 1 .. mounts.size}
      /\ mounts.size > 0 => Root(mounts) = Elements(mounts)[1].path
  BY EntriesLemma DEF Inv, Types
<1>4. /\ Entries(mounts') = {Entry(Elements(mounts')[k]) : k \in 1 .. mounts'.size}
      /\ mounts'.size > 0 => Root(mounts') = Elements(mounts')[1].path
  BY <1>1, EntriesLemma
<1>5. \A other \in Entries(mounts) : other.path # path
  BY <1>1, <1>3 DEF Entry
<1>6. Entries(mounts') = Entries(mounts) \cup {Entry(m)}
  <2>1. ASSUME NEW k \in 1 .. mounts.size
        PROVE  Entry(Elements(mounts')[k]) = Entry(Elements(mounts)[k])
    BY <1>1
  <2>2. 1 .. mounts'.size = (1 .. mounts.size) \cup {mounts.size + 1}
    BY <1>1
  <2> QED
    BY <1>1, <1>3, <1>4, <2>1, <2>2
<1>7. Root(mounts') = IF Entries(mounts) = {} THEN path ELSE Root(mounts)
  <2>1. CASE mounts.size = 0
    BY <1>1, <1>2, <1>3, <1>4, <2>1 DEF m
  <2>2. CASE mounts.size # 0
    <3>1. 1 \in 1 .. mounts.size /\ Entries(mounts) # {}
      BY <1>1, <1>3, <2>2
    <3> QED
      BY <1>1, <1>3, <1>4, <2>2, <3>1
  <2> QED
    BY <2>1, <2>2
<1>8. Entry(m).path = path /\ Entry(m).fs = fs
  BY <1>2
<1>9. Entry(m) \in Entries(mounts') \ Entries(mounts)
  BY <1>5, <1>6, <1>8
<1> QED
  BY <1>5, <1>6, <1>7, <1>8, <1>9 DEF Table!Mount, Entries, Entry, Root, Mounted

LEMMA UnmountEntry ==
  ASSUME Inv, NEW path \in Paths, unmount(path)
  PROVE  Table!Unmount
<1>1. PICK i \in 2 .. mounts.size :
        /\ Elements(mounts)[i].path = path
        /\ mounts' \in VectorOf(MountPoint)
        /\ mounts.size \in Nat /\ mounts'.size = mounts.size - 1
        /\ \A k \in 1 .. mounts.size - 1 :
             Elements(mounts')[k] = IF k < i THEN Elements(mounts)[k] ELSE Elements(mounts)[k + 1]
  BY UnmountElements
<1>2. /\ Entries(mounts) = {Entry(Elements(mounts)[k]) : k \in 1 .. mounts.size}
      /\ mounts.size > 0 => Root(mounts) = Elements(mounts)[1].path
  BY EntriesLemma DEF Inv, Types
<1>3. /\ Entries(mounts') = {Entry(Elements(mounts')[k]) : k \in 1 .. mounts'.size}
      /\ mounts'.size > 0 => Root(mounts') = Elements(mounts')[1].path
  BY <1>1, EntriesLemma
<1> DEFINE entry == Entry(Elements(mounts)[i])
<1>4. \A k \in 1 .. mounts.size : k # i => Entry(Elements(mounts)[k]) # entry
  BY <1>1 DEF Inv, PathsUnique, Entry
<1>5. Entries(mounts') = Entries(mounts) \ {entry}
  <2>1. ASSUME NEW e \in Entries(mounts')
        PROVE  e \in Entries(mounts) /\ e # entry
    <3>1. PICK k \in 1 .. mounts.size - 1 : e = Entry(Elements(mounts')[k])
      BY <1>1, <1>3
    <3>2. CASE k < i
      BY <1>1, <1>2, <1>4, <3>1, <3>2
    <3>3. CASE ~ (k < i)
      <4>1. k + 1 \in 1 .. mounts.size /\ k + 1 # i
        BY <1>1, <3>3
      <4> QED
        BY <1>1, <1>2, <1>4, <3>1, <3>3, <4>1
    <3> QED
      BY <3>2, <3>3
  <2>2. ASSUME NEW e \in Entries(mounts), e # entry
        PROVE  e \in Entries(mounts')
    <3>1. PICK k \in 1 .. mounts.size : e = Entry(Elements(mounts)[k])
      BY <1>2
    <3>2. k # i
      BY <2>2, <3>1
    <3>3. CASE k < i
      BY <1>1, <1>3, <3>1, <3>3
    <3>4. CASE k > i
      <4>1. k - 1 \in 1 .. mounts.size - 1 /\ ~ (k - 1 < i) /\ k - 1 + 1 = k
        BY <1>1, <3>4
      <4>2. Elements(mounts')[k - 1] = Elements(mounts)[k]
        BY <1>1, <4>1
      <4> QED
        BY <1>1, <1>3, <3>1, <4>1, <4>2
    <3> QED
      BY <1>1, <3>2, <3>3, <3>4
  <2> QED
    BY <2>1, <2>2
<1>6. Root(mounts') = Root(mounts) /\ entry.path # Root(mounts)
  <2>1. 1 \in 1 .. mounts.size /\ 1 \in 1 .. mounts.size - 1 /\ 1 < i /\ mounts.size > 0 /\ mounts'.size > 0
    BY <1>1
  <2>2. Root(mounts') = Root(mounts)
    BY <1>1, <1>2, <1>3, <2>1
  <2>3. Elements(mounts)[i].path # Elements(mounts)[1].path
    BY <1>1, <2>1 DEF Inv, PathsUnique
  <2> QED
    BY <1>2, <2>1, <2>2, <2>3 DEF Entry
<1>7. entry \in Entries(mounts)
  BY <1>1, <1>2
<1> HIDE DEF entry
<1> QED
  BY <1>5, <1>6, <1>7 DEF Table!Unmount, Entries, Entry, Root, Mounted

LEMMA InitTable == Init => Table!Init
<1> SUFFICES ASSUME Init PROVE Entries(mounts) = {} /\ Root(mounts) = NoPath
  BY DEF Table!Init, Entries, Entry, Root, Mounted
<1>1. mounts.size = 0 /\ mounts \in VectorOf(MountPoint)
  BY EmptyLemma DEF Init, EmptyVector
<1>2. Entries(mounts) = {Entry(Elements(mounts)[k]) : k \in 1 .. mounts.size}
  BY <1>1, EntriesLemma
<1> QED
  BY <1>1, <1>2 DEF Root

LEMMA NextTable == Inv /\ [Next]_vars => [Table!Mount \/ Table!Unmount]_Table!tableVars
<1> SUFFICES ASSUME Inv, [Next]_vars, UNCHANGED mounts \/ ~ UNCHANGED mounts
             PROVE  [Table!Mount \/ Table!Unmount]_Table!tableVars
  OBVIOUS
<1>1. CASE UNCHANGED mounts
  BY <1>1 DEF Table!tableVars, Mounted
<1>2. CASE \E path \in Paths, fs \in FileSystems : mount(path, fs)
  BY <1>2, MountEntry
<1>3. CASE \E path \in Paths : unmount(path)
  BY <1>3, UnmountEntry
<1>4. CASE ~ (\/ \E path \in Paths, fs \in FileSystems : mount(path, fs)
              \/ \E path \in Paths : unmount(path))
  BY <1>1, <1>4 DEF Next, open, read, close, registerDevice, unregisterDevice, vars
<1> QED
  BY <1>2, <1>3, <1>4

(* The vector of mount points, however it grows and moves its elements, is *)
(* a table of paths that keeps its root.                                   *)
THEOREM ImplementsTable == Spec => TableSpec
BY InitTable, NextTable, Invariance, PTL DEF Spec, TableSpec, Table!Spec
=============================================================================
