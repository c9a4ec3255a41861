------------------------------- MODULE Drives -------------------------------
(***************************************************************************)
(* The list of drives (Get_Volumes_logic.c) and the threads that a plugged *)
(* USB device starts to refresh it (PNP_mount_management_logic.c).         *)
(*                                                                         *)
(* ListMountedDrives reads the object directory \?? entry by entry, under  *)
(* Get_Volume_KMUTEX, while the directory itself may change.  The scan of  *)
(* DriverEntry has created the mutex before any notification.  A step of a *)
(* scan is one entry with the call of Complete_ALL_DEVICE_DRIVED_Node that *)
(* follows it.  Entries no class is given to, and the names of entries     *)
(* that are not letters, are left out.                                     *)
(***************************************************************************)
EXTENDS Naturals, SequencesExt

CONSTANTS
    Letters,      \* drive letters
    Paths,        \* NT paths of volumes and of USB devices
    Serials,      \* serial numbers in the names of entries
    None, Lost,   \* no letter, serial or thread; a letter freed for good
    Boot,         \* the thread of DriverEntry
    Devices,      \* USB devices, each with a thread when it is plugged in
    DevicePath,   \* the path the symbolic link of a device leads to
    DeviceSerial, \* the serial number in that link
    Begins,       \* Begins[p]: the paths that begin with p
    Alike,        \* Alike[p]: those that begin with p but its last character
    Directories,  \* what \?? may hold, in the order it lists it
    MaxPlugs      \* bound: how often \?? changes

Kinds == {"letter", "volume", "usb", "usbstor"}

Entry == [kind: Kinds, letter: Letters \cup {None}, path: Paths,
          serial: Serials \cup {None}]

ASSUME DrivesAssumption ==
    /\ None \notin Letters /\ None \notin Serials /\ None \notin Devices
    /\ Lost \notin Letters /\ Lost # None
    /\ Boot \notin Devices /\ Boot # None
    /\ DevicePath \in [Devices -> Paths] /\ DeviceSerial \in [Devices -> Serials]
    /\ Begins \in [Paths -> SUBSET Paths] /\ Alike \in [Paths -> SUBSET Paths]
    /\ \A p \in Paths : p \in Begins[p] /\ Begins[p] \subseteq Alike[p]
    /\ MaxPlugs \in Nat
    /\ Directories # {} /\ Directories \subseteq Seq(Entry)
    /\ \A dir \in Directories : \A k \in DOMAIN dir :
         /\ (dir[k].letter # None) <=> (dir[k].kind = "letter")
         /\ (dir[k].serial # None) <=> (dir[k].kind \in {"usb", "usbstor"})

\* No USB device has the path of a volume: a device object has a name of its own.
ASSUME PathsApart ==
    \A a, b \in Directories : \A k \in DOMAIN a, m \in DOMAIN b :
      a[k].kind = "usb" /\ b[m].kind # "usb" => a[k].path # b[m].path

VARIABLES
    list,      \* ALL_DEVICE_DRIVES_Start_Node
    tail,      \* ALL_DEVICE_DRIVES_Current_Node is not NULL
    directory, \* \??
    owner,     \* the thread that has Get_Volume_KMUTEX
    context,   \* the number of the entry it asks for next
    at,        \* at[t]: where thread t is
    notifying, \* the device whose notification waits for the event
    fault,     \* a pointer to nothing or to freed pool was used
    calm,      \* history: \?? has not changed since the scan began
    starved,   \* history: an allocation, or the opening of \??, has failed
    plugs,     \* history: how often \?? has changed
    homes      \* history: the letters with the volumes they stood for

drives == <<list, tail>>

scan == <<owner, context>>

history == <<calm, starved, plugs, homes>>

vars == <<drives, directory, scan, at, notifying, fault, history>>

Threads == {Boot} \cup Devices

\* DEVICE_DECTECT_ENUM, the members a node can have.
Types == {"JUST_VOLUME_DISK", "Internal_DISK", "External_DISK_USB",
          "USB_DEVICE_from_PNP"}

Node == [letter: Letters \cup {None, Lost}, path: Paths,
         serial: Serials \cup {None}, type: Types]

TypeOK ==
    /\ list \in Seq(Node) /\ tail \in BOOLEAN
    /\ directory \in Directories
    /\ owner \in Threads \cup {None} /\ context \in Nat
    /\ at \in [Threads -> {"off", "copy", "wait", "scan", "find"}]
    /\ notifying \in Devices \cup {None}
    /\ fault \in BOOLEAN /\ calm \in BOOLEAN /\ starved \in BOOLEAN
    /\ plugs \in 0..MaxPlugs
    /\ homes \subseteq Letters \X Paths

Homes(dir) == {<<e.letter, e.path>> : e \in {e \in ToSet(dir) : e.kind = "letter"}}

Init ==
    /\ list = <<>> /\ tail = FALSE
    /\ directory \in Directories
    /\ owner = None /\ context = 1
    /\ at = [t \in Threads |-> IF t = Boot THEN "wait" ELSE "off"]
    /\ notifying = None
    /\ fault = FALSE
    /\ calm = TRUE /\ starved = FALSE
    /\ plugs = 0 /\ homes = Homes(directory)

\* Bound: one failure.
Fails == ~starved /\ starved' = TRUE

-----------------------------------------------------------------------------
\* Mutant: the result of RtlCompareUnicodeString taken the wrong way.
ByOtherPath(nodes, p) == SelectInSeq(nodes, LAMBDA n : n.path # p)

\* Finder_ALL_DEVICE_DRIVES_Node by path and by serial number: 0 for NULL.
ByPath(nodes, p) == SelectInSeq(nodes, LAMBDA n : n.path = p)

BySerial(nodes, s) == SelectInSeq(nodes, LAMBDA n : n.serial = s)

HasSerial(s) == BySerial(list, s) # 0

\* is_Drives_PATH for a file on path p: the first node with a letter whose
\* path, but for the last character, begins the file's.
DriveOf(p) ==
    IF tail THEN SelectInSeq(list, LAMBDA n : n.letter # None /\ p \in Alike[n.path])
    ELSE 0

\* Mutant: a node needs a letter to stay.
KeptWithLetter(nodes) == SelectSeq(nodes, LAMBDA n : n.letter # None)

\* Complete_ALL_DEVICE_DRIVED_Node keeps what has a letter or a serial number.
Stays(n) == n.letter # None \/ n.serial # None

Kept(nodes) ==
    LET kept[k \in 0..Len(nodes)] ==
            IF k = 0 THEN <<>>
            ELSE IF Stays(nodes[k]) THEN Append(kept[k - 1], nodes[k]) ELSE kept[k - 1]
    IN  kept[Len(nodes)]

\* It uses a letter that was lost; one that two nodes have costs the second
\* node, whose successor is then read from freed pool.
TwoHave(nodes, l) ==
    \E m, n \in DOMAIN nodes : m < n /\ nodes[m].letter = l /\ nodes[n].letter = l

Breaks(nodes) ==
    \/ \E n \in DOMAIN nodes : nodes[n].letter = Lost
    \/ \E l \in Letters : TwoHave(nodes, l)

\* The end of a step of the scan: nothing is completed while the current
\* pointer is NULL.
Complete(nodes, last) ==
    /\ tail' = last
    /\ IF last /\ Breaks(nodes)
       THEN fault' = TRUE /\ list' = nodes
       ELSE /\ list' = IF last THEN Kept(nodes) ELSE nodes
            /\ UNCHANGED fault

\* Create_ and Append_ALL_DEVICE_DRIVES_Node: the latter writes through the
\* current pointer, which becomes NULL when there is no pool for the node.
Add(node) ==
    \/ /\ list = <<>> \/ tail
       /\ Complete(Append(list, node), TRUE)
       /\ UNCHANGED starved
    \/ /\ list # <<>> /\ ~tail
       /\ fault' = TRUE
       /\ UNCHANGED <<drives, starved>>
    \/ /\ tail' = FALSE /\ Fails
       /\ UNCHANGED <<list, fault>>

\* Update_ALL_DEVICE_DRIVES_Node: a letter is freed, then allocated.
SetType(nodes, n, type) == [nodes EXCEPT ![n].type = type]

\* Mutant: the path is copied.
SetLetterToPath(nodes, n, l) == [nodes EXCEPT ![n].letter = nodes[n].path]

SetLetter(nodes, n, l) == [nodes EXCEPT ![n].letter = l]

Rename(n, l, type) ==
    IF list[n].letter = Lost
    THEN /\ fault' = TRUE
         /\ UNCHANGED <<drives, starved>>
    ELSE \/ /\ Complete(SetType(SetLetter(list, n, l), n, type), tail)
            /\ UNCHANGED starved
         \/ /\ Complete(SetLetter(list, n, Lost), tail)
            /\ Fails

Retype(n, type) ==
    /\ Complete(SetType(list, n, type), tail)
    /\ UNCHANGED starved

Ignore ==
    /\ Complete(list, tail)
    /\ UNCHANGED starved

-----------------------------------------------------------------------------
\* A letter of a volume.
LetterEntry(e) ==
    LET n == ByPath(list, e.path)
    IN  IF n = 0
        THEN Add([letter |-> e.letter, path |-> e.path, serial |-> None,
                  type |-> "JUST_VOLUME_DISK"])
        ELSE Rename(n, e.letter, "JUST_VOLUME_DISK")

\* A volume of a hard disk, STORAGE#Volume#{...}.
VolumeEntry(e) ==
    LET n == ByPath(list, e.path)
    IN  IF n = 0
        THEN Add([letter |-> None, path |-> e.path, serial |-> None,
                  type |-> "Internal_DISK"])
        ELSE Retype(n, "Internal_DISK")

\* A USB device, USB#...: of interest to the scan its thread has asked for.
ScannedFor(t, e) == t \in Devices /\ e.path \in Begins[DevicePath[t]]

UsbEntry(t, e) ==
    IF ScannedFor(t, e) /\ ~HasSerial(e.serial)
    THEN Add([letter |-> None, path |-> e.path, serial |-> e.serial,
              type |-> "USB_DEVICE_from_PNP"])
    ELSE Ignore

\* Mutant: the second search, by path, is missing.
HolderBySerial(e) == BySerial(list, e.serial)

\* The node a USB volume belongs to: by its serial number, then by its path.
Holder(e) ==
    IF HasSerial(e.serial) THEN BySerial(list, e.serial) ELSE ByPath(list, e.path)

\* A volume of a USB device, STORAGE#Volume#_??_USBSTOR#...
UsbStorEntry(e) ==
    IF Holder(e) = 0
    THEN Add([letter |-> None, path |-> e.path, serial |-> e.serial,
              type |-> "External_DISK_USB"])
    ELSE Retype(Holder(e), "External_DISK_USB")

Process(t, e) ==
    \/ e.kind = "letter" /\ LetterEntry(e)
    \/ e.kind = "volume" /\ VolumeEntry(e)
    \/ e.kind = "usb" /\ UsbEntry(t, e)
    \/ e.kind = "usbstor" /\ UsbStorEntry(e)

-----------------------------------------------------------------------------
Runs(t, place) == at[t] = place /\ ~fault

Moves(t, place) == at' = [at EXCEPT ![t] = place]

\* Where the call of ListMountedDrives returns to.
Returns(t) == Moves(t, IF t = Boot THEN "off" ELSE "find")

\* The mutex, then \??; without it, or without a buffer, the call returns.
Enter(t) ==
    /\ Runs(t, "wait") /\ owner = None
    /\ calm' = TRUE
    /\ \/ /\ Moves(t, "scan")
          /\ owner' = t /\ context' = 1
          /\ UNCHANGED starved
       \/ /\ Returns(t)
          /\ Fails
          /\ UNCHANGED scan
    /\ UNCHANGED <<drives, directory, notifying, fault, plugs, homes>>

\* Get_USB_Serial has no pool: the entry is passed over.
NoSerial(t, e) ==
    /\ e.kind = "usbstor" \/ (e.kind = "usb" /\ ScannedFor(t, e))
    /\ Complete(list, tail)
    /\ Fails

\* The next entry of the directory.
ReadEntry(t) ==
    /\ Runs(t, "scan") /\ context \in DOMAIN directory
    /\ context' = context + 1
    /\ Process(t, directory[context]) \/ NoSerial(t, directory[context])
    /\ UNCHANGED <<directory, owner, at, notifying, calm, plugs, homes>>

\* Volumes and devices come and go.
Changes(dir) ==
    /\ plugs < MaxPlugs
    /\ directory' = dir
    /\ plugs' = plugs + 1
    /\ homes' = homes \cup Homes(dir)
    /\ calm' = FALSE

\* An entry that has gone when its link is opened.
Gone(t) ==
    /\ Runs(t, "scan") /\ context \in DOMAIN directory
    /\ context' = context + 1
    /\ \E dir \in Directories :
         directory[context] \notin ToSet(dir) /\ Changes(dir)
    /\ UNCHANGED <<drives, owner, at, notifying, fault, starved>>

\* No more entries, or the directory cannot be read on.
Leave(t) ==
    /\ Runs(t, "scan")
    /\ \/ context \notin DOMAIN directory /\ UNCHANGED starved
       \/ Fails
    /\ Returns(t)
    /\ owner' = None /\ context' = 1
    /\ UNCHANGED <<drives, directory, notifying, fault, calm, plugs, homes>>

\* The thread of a device scans again until the list has its serial number.
Find(d) ==
    /\ Runs(d, "find")
    /\ Moves(d, IF HasSerial(DeviceSerial[d]) THEN "off" ELSE "wait")
    /\ UNCHANGED <<drives, directory, scan, notifying, fault, history>>

-----------------------------------------------------------------------------
Present(d) ==
    \E e \in ToSet(directory) : e.kind = "usb" /\ e.path = DevicePath[d]
                                /\ e.serial = DeviceSerial[d]

\* MyNotificationRoutine starts the thread of a device that has arrived and
\* waits for the event; also if the thread could not be created.
Arrive(d) ==
    /\ Runs(d, "off") /\ notifying = None /\ Present(d)
    /\ notifying' = d
    /\ \/ Moves(d, "copy") /\ UNCHANGED starved
       \/ Fails /\ UNCHANGED at
    /\ UNCHANGED <<drives, directory, scan, fault, calm, plugs, homes>>

\* Start_Drive_Scan_for_PNP copies two strings and sets the event.  Without
\* the first it frees NULL, without the second it leaves the notification
\* waiting, without the serial number it is over.
Copy(d) ==
    /\ Runs(d, "copy")
    /\ \/ Moves(d, "wait") /\ notifying' = None /\ UNCHANGED <<fault, starved>>
       \/ /\ Fails
          /\ \/ fault' = TRUE /\ UNCHANGED <<at, notifying>>
             \/ Moves(d, "off") /\ notifying' \in {None, d} /\ UNCHANGED fault
    /\ UNCHANGED <<drives, directory, scan, calm, plugs, homes>>

Plug ==
    /\ ~fault
    /\ \E dir \in Directories \ {directory} : Changes(dir)
    /\ UNCHANGED <<drives, scan, at, notifying, fault, starved>>

Device(d) == Arrive(d) \/ Copy(d) \/ Find(d)

Scan(t) == ReadEntry(t) \/ Gone(t) \/ Leave(t)

Next ==
    \/ \E t \in Threads : Enter(t) \/ Scan(t)
    \/ \E d \in Devices : Device(d)
    \/ Plug

\* Threads run, and the mutex goes to the one that has waited longest.
Fairness ==
    /\ \A t \in Threads : WF_vars(ReadEntry(t) \/ Leave(t)) /\ SF_vars(Enter(t))
    /\ \A d \in Devices : WF_vars(Copy(d)) /\ WF_vars(Find(d))

Spec == Init /\ [][Next]_vars /\ Fairness

-----------------------------------------------------------------------------
EntriesOf(p, kinds) ==
    {k \in DOMAIN directory : directory[k].path = p /\ directory[k].kind \in kinds}

Latest(ks) == directory[CHOOSE k \in ks : \A j \in ks : j <= k]

Class == [letter |-> "JUST_VOLUME_DISK", volume |-> "Internal_DISK",
          usbstor |-> "External_DISK_USB"]

\* A node of another path answers for the serial number of the entry.
HeldElsewhere(p, e) == \E n \in ToSet(list) : n.serial = e.serial /\ n.path # p

\* The entries that are about a volume whose node has serial number s: those of
\* its path, and those a serial number leads from to its node.
About(p, s) ==
    EntriesOf(p, {"letter", "volume", "usbstor"})
    \cup {k \in DOMAIN directory : directory[k].kind = "usbstor" /\ directory[k].serial = s}

\* What a file on path p is taken to be on.
Classified(p) ==
    LET n == ByPath(list, p)
        about == About(p, list[n].serial)
    IN  /\ n # 0
        /\ list[n].letter = Latest(EntriesOf(p, {"letter"})).letter
        /\ \E k \in about :
             /\ list[n].type = Class[directory[k].kind]
             /\ \A j \in about : j > k => /\ directory[j].kind = "usbstor"
                                          /\ HeldElsewhere(p, directory[j])
        /\ DriveOf(p) \in 1..n
        /\ DriveOf(p) # n => p \in Alike[list[DriveOf(p)].path]

\* After a scan of a directory that stayed as it was, and while nothing has
\* failed, is_Drives_PATH finds a drive for each volume with a letter; the node
\* of the volume has its last letter and the class of the last entry about it,
\* of its own path or, for another partition of the same stick, of its serial
\* number; entries whose serial number leads to the node of another path do not
\* count.
ScanClassifies ==
    [][ /\ owner # None /\ owner' = None
        /\ calm /\ ~starved'
        => \A p \in Paths : EntriesOf(p, {"letter"}) # {} => Classified(p) ]_vars

\* The list is used through a NULL or a stale pointer only after something has
\* failed, or when a letter has passed from one volume to another.
BreaksOnlyWithACause ==
    fault => starved \/ \E h, g \in homes : h[1] = g[1] /\ h[2] # g[2]

\* The thread of a device ends, because the list gets its serial number, if
\* the device stays and nothing fails.
PlugIsNoticed ==
    \A d \in Devices :
        at[d] = "wait" ~> (at[d] = "off" \/ ~Present(d) \/ starved \/ fault)
=============================================================================
