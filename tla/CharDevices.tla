----------------------------- MODULE CharDevices -----------------------------
(***************************************************************************)
(* The character drivers: chrdevbase.c (ch11/d, a fixed major number),     *)
(* chrdevbase_dynamic.c (ch11/dd) and dev_test.c (ch10/create_cdev/d), the *)
(* latter two with an allocated number, a class and a device node.  They   *)
(* are loaded and unloaded again and again, calls of their init functions  *)
(* fail, and tasks open and close their devices meanwhile.                 *)
(***************************************************************************)
EXTENDS Integers, FiniteSets

CONSTANTS
    Fixed, Dynamic,     \* the drivers
    Tasks,
    Majors,             \* numbers for alloc_chrdev_region
    MayFail,            \* calls that may fail: "class", "cdev"
    Others              \* fixed majors another driver of the system may have

Drivers == Fixed \cup Dynamic
FixedMajor == 0         \* CHRDEVBASE_MAJOR

VARIABLES
    pc,         \* of a driver: out, its next call in init or exit, in, or failed
    dev,        \* of a driver: its major number
    region,     \* of a major number: who has it
    cdev,       \* of a major number: whose operations it reaches
    memClass,   \* of a driver: mem_class, null, ok or err
    classes,    \* drivers that have a class
    node,       \* of a driver: the major number of its device node
    file        \* of a task: the driver it has open

vars == <<pc, dev, region, cdev, memClass, classes, node, file>>

Registered == <<region, cdev, classes, node>>

None == "none"
NoNode == -1

\* The drivers have names and numbers of their own.
WellFormed ==
    /\ Fixed \cap Dynamic = {} /\ {None, "other"} \cap Drivers = {}
    /\ FixedMajor \notin Majors /\ NoNode \notin Majors

Init ==
    /\ pc = [m \in Drivers |-> "out"]
    /\ dev = [m \in Drivers |-> FixedMajor]
    /\ region \in [Majors \cup {FixedMajor} -> {None, "other"}]
    /\ \A k \in DOMAIN region : region[k] = "other" => k \in Others
    /\ cdev = region
    /\ memClass = [m \in Drivers |-> "null"]
    /\ classes = {}
    /\ node = [m \in Drivers |-> IF m \in Fixed THEN FixedMajor ELSE NoNode]     \* mknod
    /\ file = [t \in Tasks |-> None]

Goto(m, label) == pc' = [pc EXCEPT ![m] = label]

----------------------------------------------------------------------------
(* chrdevbase: register_chrdev and unregister_chrdev, by number.           *)

FixedInit(m) ==
    /\ m \in Fixed /\ pc[m] = "out"
    /\ Goto(m, "in")        \* whether or not the number was free
    /\ IF region[FixedMajor] = None
       THEN /\ region' = [region EXCEPT ![FixedMajor] = m]
            /\ cdev' = [cdev EXCEPT ![FixedMajor] = m]
       ELSE UNCHANGED <<region, cdev>>
    /\ UNCHANGED <<dev, memClass, classes, node, file>>

\* .owner = THIS_MODULE counts the files that are open
Unused(m) == \A t \in Tasks : file[t] # m

FixedExit(m) ==
    /\ m \in Fixed /\ pc[m] = "in" /\ Unused(m)
    /\ Goto(m, "out")
    /\ region' = [region EXCEPT ![FixedMajor] = None]
    /\ cdev' = [cdev EXCEPT ![FixedMajor] = None]
    /\ UNCHANGED <<dev, memClass, classes, node, file>>

----------------------------------------------------------------------------
(* The two others: init.                                                   *)

\* alloc_chrdev_region; the module's variables are new
Alloc(m) ==
    /\ m \in Dynamic /\ pc[m] \in {"out", "failed"}
    /\ IF \E k \in Majors : region[k] = None
       THEN \E k \in Majors :
            /\ region[k] = None
            /\ region' = [region EXCEPT ![k] = m]
            /\ dev' = [dev EXCEPT ![m] = k]
            /\ memClass' = [memClass EXCEPT ![m] = "null"]
            /\ Goto(m, "class")
       ELSE Goto(m, "failed") /\ UNCHANGED <<region, dev, memClass>>
    /\ UNCHANGED <<cdev, classes, node, file>>

\* class_create; a name that exists is refused, and init goes on
Class(m) ==
    /\ pc[m] = "class"
    /\ \/ /\ m \notin classes
          /\ classes' = classes \cup {m}
          /\ memClass' = [memClass EXCEPT ![m] = "ok"]
       \/ /\ m \in classes \/ "class" \in MayFail
          /\ memClass' = [memClass EXCEPT ![m] = "err"]
          /\ UNCHANGED classes
    /\ Goto(m, "node")
    /\ UNCHANGED <<dev, region, cdev, node, file>>

\* device_create
Node(m) ==
    /\ pc[m] = "node"
    /\ node' = IF memClass[m] = "ok" THEN [node EXCEPT ![m] = dev[m]] ELSE node
    /\ Goto(m, "cdev")
    /\ UNCHANGED <<dev, region, cdev, memClass, classes, file>>

\* cdev_init and cdev_add, whose result is init's
CdevAdd(m) ==
    /\ pc[m] = "cdev"
    /\ \/ cdev' = [cdev EXCEPT ![dev[m]] = m] /\ Goto(m, "in")
       \/ "cdev" \in MayFail /\ Goto(m, "failed") /\ UNCHANGED cdev
    /\ UNCHANGED <<dev, region, memClass, classes, node, file>>

(* exit                                                                    *)

\* fault: the class is destroyed and its device stays
ClassOnly(m) == node
Removed(m) == [node EXCEPT ![m] = NoNode]

\* device_destroy and class_destroy; with an error for a class, an oops
Destroy(m) ==
    /\ m \in Dynamic /\ pc[m] = "in" /\ Unused(m)
    /\ IF memClass[m] = "err" THEN Goto(m, "oops") /\ UNCHANGED <<memClass, classes, node>>
       ELSE /\ node' = Removed(m)
            /\ classes' = classes \ {m}
            /\ memClass' = [memClass EXCEPT ![m] = "null"]
            /\ Goto(m, "del")
    /\ UNCHANGED <<dev, region, cdev, file>>

\* fault: cdev_del is not called
LeaveCdev(m) == cdev
NoCdev(m) == [cdev EXCEPT ![dev[m]] = None]

CdevDel(m) ==
    /\ pc[m] = "del"
    /\ cdev' = NoCdev(m)
    /\ Goto(m, "out")
    /\ UNCHANGED <<dev, region, memClass, classes, node, file>>

----------------------------------------------------------------------------
(* Tasks.                                                                  *)

\* The node is found, and the module is not being unloaded.
Open(t, m) ==
    /\ file[t] = None /\ node[m] # NoNode
    /\ cdev[node[m]] = m /\ pc[m] \notin {"del", "oops"}
    /\ file' = [file EXCEPT ![t] = m]
    /\ UNCHANGED <<pc, dev, memClass, Registered>>

Release(t) ==
    /\ file[t] # None
    /\ file' = [file EXCEPT ![t] = None]
    /\ UNCHANGED <<pc, dev, memClass, Registered>>

Load(m) == FixedInit(m) \/ Alloc(m) \/ Class(m) \/ Node(m) \/ CdevAdd(m)
Unload(m) == FixedExit(m) \/ Destroy(m) \/ CdevDel(m)
Use(t) == (\E m \in Drivers : Open(t, m)) \/ Release(t)

Next == (\E m \in Drivers : Load(m) \/ Unload(m)) \/ \E t \in Tasks : Use(t)

Spec == Init /\ [][Next]_vars

----------------------------------------------------------------------------
(***************************************************************************)
(* The operations a major number or an open file leads to are those of a   *)
(* module that is in the kernel, in every order of loads, unloads, opens   *)
(* and failures.                                                           *)
(***************************************************************************)
CodePresent ==
    /\ \A k \in DOMAIN cdev : cdev[k] \in Drivers => pc[cdev[k]] \notin {"out", "failed"}
    /\ \A t \in Tasks : file[t] # None => pc[file[t]] = "in"

(***************************************************************************)
(* A driver that was unloaded has left no class and no node, and a node    *)
(* leads to its own driver or, in init and exit, nowhere.                  *)
(***************************************************************************)
NothingShown ==
    \A m \in Dynamic :
        /\ pc[m] = "out" => m \notin classes /\ node[m] = NoNode
        /\ node[m] # NoNode => cdev[node[m]] \in {m, None}
=============================================================================
